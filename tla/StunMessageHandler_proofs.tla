--------------------- MODULE StunMessageHandler_proofs ---------------------
(***************************************************************************)
(* What the request handler promises for every set of addresses, clients,  *)
(* messages, verdicts of the provider and socket configurations: the       *)
(* invariants, and that its steps are those of StunService, or invisible   *)
(* there.                                                                  *)
(***************************************************************************)
EXTENDS StunMessageHandler, TLAPS

(* One request at a time, and a success only where ProcessRequest returns  *)
OneRequest ==
    /\ \A m1, m2 \in msgIn : m1 = m2
    /\ \A a1, a2 \in auth : a1 = a2

SuccessAtReturn == pc # "Return" => \A out \in msgOut : out.response.kind # "Success"

IdleIsClean == pc = "Idle" => msgOut = {}

(* What ValidateAuth has decided when the request is about to be granted   *)
Granted(m, a) ==
    /\ a.responseType \in {"NoProvider", "Allow", "AllowConditional"}
    /\ a.responseType = "AllowConditional" =>
          integrity = a.authCredMech /\ m.msg.integrity = a.authCredMech
    /\ a.responseType # "AllowConditional" => integrity = "None"

GrantedWhereProcessed ==
    /\ pc \in {"ProcessRequestImpl", "ValidateAuth"} => integrity = "None"
    /\ pc = "ProcessBindingRequest" => \A m \in msgIn, a \in auth : Granted(m, a)

(* The code of an error is set before the error response is built          *)
ErrorHasCode == pc = "BuildErrorResponse" => error.errorcode # 0

HandlerInv ==
    /\ TypeOK
    /\ ErrorHasCode
    /\ OneRequest
    /\ SuccessAtReturn
    /\ IdleIsClean
    /\ GrantedWhereProcessed
    /\ SuccessIsAuthorised
    /\ OtherAddressUsable

-----------------------------------------------------------------------------
(* Type correctness                                                        *)

LEMMA SocketOutputIsRole ==
    ASSUME NEW m \in StunMessageIn
    PROVE  SocketOutput(m) \in Roles
BY DEF SocketOutput, SocketRoleSwapIP, SocketRoleSwapPort, Roles, StunMessageIn

LEMMA InitTypeOK == Init => TypeOK
<1> SUFFICES ASSUME Init PROVE TypeOK
  OBVIOUS
<1>1. error \in [errorcode : {0, 400, 401, 438}, fRealm : BOOLEAN, fNonce : BOOLEAN]
  <2>1. 0 \in {0, 400, 401, 438} /\ FALSE \in BOOLEAN
    OBVIOUS
  <2>2. QED
    BY <2>1, Zenon DEF Init, NoError
<1>2. QED
  BY <1>1 DEF Init, TypeOK

ErrorType == [errorcode : {0, 400, 401, 438}, fRealm : BOOLEAN, fNonce : BOOLEAN]
OutType   == [socketrole : Roles, addrDest : S!RealAddr, response : Responses]

LEMMA SuccessIsTyped ==
    \A mapped \in Clients : \A origin, other \in S!Addr \cup {NoAddr} :
        \A signed \in {"None", "ShortTerm", "LongTerm"} :
            [kind |-> "Success", mapped |-> mapped, origin |-> origin, other |-> other,
             signed |-> signed] \in Responses
BY Zenon DEF Responses

LEMMA OutIsTyped ==
    \A role \in Roles : \A dest \in S!RealAddr : \A response \in Responses :
        [socketrole |-> role, addrDest |-> dest, response |-> response] \in OutType
BY Zenon DEF OutType

LEMMA AuthErrorCodeIsTyped ==
    ASSUME NEW m \in StunMessageIn, NEW a \in AuthResponses
    PROVE  AuthErrorCode(m, a) \in {0, 400, 401, 438}
<1>1. a.responseType \in {"NoProvider", "ProviderFails", "Allow", "AllowConditional",
                           "StaleNonce", "Reject", "Unauthorized"}
  BY MessageAssumption DEF S!AuthResponse
<1>2. QED
  BY <1>1 DEF AuthErrorCode

LEMMA AddressesAreTyped ==
    ASSUME addrSet \in AddressSets, NEW m \in StunMessageIn
    PROVE  /\ AddrOther(m) \in S!Addr \cup {NoAddr}
           /\ AddrOrigin(m) \in S!Addr \cup {NoAddr}
<1>1. SocketOutput(m) \in Roles
  BY SocketOutputIsRole
<1>2. SocketRoleSwapIP(SocketRoleSwapPort(m.socketrole)) \in Roles
  BY DEF SocketRoleSwapIP, SocketRoleSwapPort, Roles, StunMessageIn
<1>3. \A r \in Roles : addrSet[r].addr \in S!Addr
  BY AddressSetAssumption DEF TransportAddress
<1>4. m.addrLocal \in S!Addr
  BY DEF StunMessageIn, S!Addr
<1>5. QED
  BY <1>1, <1>2, <1>3, <1>4 DEF AddrOther, AddrOrigin

LEMMA NextTypeOK == TypeOK /\ ErrorHasCode /\ [Next]_vars => TypeOK'
<1> SUFFICES ASSUME TypeOK, ErrorHasCode, [Next]_vars PROVE TypeOK'
  OBVIOUS
<1>0. /\ error \in ErrorType
      /\ msgOut \in SUBSET OutType
  BY DEF TypeOK, ErrorType, OutType
<1>1. ASSUME NEW m \in StunMessageIn, NEW a \in AuthResponses, ProcessRequest(m, a)
      PROVE  TypeOK'
  <2>1. NoError \in ErrorType
    <3>1. 0 \in {0, 400, 401, 438} /\ FALSE \in BOOLEAN
      OBVIOUS
    <3>2. QED
      BY <3>1, Zenon DEF NoError, ErrorType
  <2>2. Empty \in Responses
    BY DEF Responses
  <2>3. m.socketrole \in Roles /\ m.addrRemote \in S!RealAddr
    BY AddressAssumption DEF StunMessageIn
  <2>4. msgOut' \in SUBSET OutType
    BY <1>1, <2>2, <2>3, OutIsTyped DEF ProcessRequest
  <2>5. /\ addrSet' = addrSet /\ msgIn' = {m} /\ auth' = {a} /\ error' = NoError
        /\ integrity' = "None" /\ pc' = "ProcessRequestImpl"
    BY <1>1 DEF ProcessRequest
  <2>6. fRequestHasResponsePort' \in BOOLEAN
    BY <1>1 DEF ProcessRequest
  <2>7. QED
    BY <2>1, <2>4, <2>5, <2>6 DEF TypeOK, ErrorType, OutType
<1>2. ASSUME NEW m \in StunMessageIn, NEW a \in AuthResponses, RefuseRequest(m, a)
      PROVE  TypeOK'
  BY <1>2 DEF RefuseRequest, TypeOK
<1>3. CASE IgnoreMessage
  BY <1>3 DEF IgnoreMessage, TypeOK
<1>4. CASE ProcessRequestImpl
  <2>1. PICK m \in msgIn, out \in msgOut :
          /\ msgOut' = IF m.msg.responsePort # 0 /\ ~m.fConnectionOriented
                       THEN {[out EXCEPT !.addrDest.port = m.msg.responsePort]} ELSE msgOut
          /\ fRequestHasResponsePort' = (m.msg.responsePort # 0)
          /\ error' = error \/ error' = [error EXCEPT !.errorcode = 400]
          /\ pc' \in {"BuildErrorResponse", "ValidateAuth"}
    BY <1>4 DEF ProcessRequestImpl
  <2>2. m.msg.responsePort \in Ports \cup {0}
    BY MessageAssumption DEF TypeOK, StunMessageIn, S!Message
  <2>3. out \in OutType
    BY <1>0
  <2>4. m.msg.responsePort # 0 => [out EXCEPT !.addrDest.port = m.msg.responsePort] \in OutType
    BY <2>2, <2>3 DEF OutType, S!RealAddr
  <2>5. msgOut' \in SUBSET OutType
    BY <1>0, <2>1, <2>4
  <2>6. error' \in ErrorType
    <3>1. [error EXCEPT !.errorcode = 400] \in ErrorType
      BY <1>0 DEF ErrorType
    <3>2. QED
      BY <1>0, <2>1, <3>1
  <2>7. fRequestHasResponsePort' \in BOOLEAN
    BY <2>1
  <2>8. QED
    BY <1>4, <2>1, <2>5, <2>6, <2>7 DEF ProcessRequestImpl, TypeOK, ErrorType, OutType
<1>5. CASE ValidateAuth
  <2>1. PICK m \in msgIn, a \in auth :
          /\ error' = IF AuthErrorCode(m, a) \in {401, 438}
                      THEN [errorcode |-> AuthErrorCode(m, a), fRealm |-> a.fRealm,
                            fNonce |-> a.fNonce]
                      ELSE [error EXCEPT !.errorcode = AuthErrorCode(m, a)]
          /\ integrity' = IF a.responseType = "AllowConditional" /\ AuthErrorCode(m, a) = 0
                          THEN a.authCredMech ELSE integrity
          /\ pc' = IF AuthErrorCode(m, a) = 0 THEN "ProcessBindingRequest"
                   ELSE "BuildErrorResponse"
    BY <1>5, Zenon DEF ValidateAuth
  <2>2. m \in StunMessageIn /\ a \in AuthResponses
    BY DEF TypeOK
  <2>3. AuthErrorCode(m, a) \in {0, 400, 401, 438}
    BY <2>2, AuthErrorCodeIsTyped
  <2>4. a.fRealm \in BOOLEAN /\ a.fNonce \in BOOLEAN
    BY <2>2, MessageAssumption DEF S!AuthResponse
  <2>5. integrity' \in {"None", "ShortTerm", "LongTerm"}
    BY <2>1, <2>2, MessageAssumption DEF S!AuthResponse, TypeOK
  <2>6. error' \in ErrorType
    <3>1. [errorcode |-> AuthErrorCode(m, a), fRealm |-> a.fRealm, fNonce |-> a.fNonce]
            \in ErrorType
      <4> DEFINE Codes == {0, 400, 401, 438}
      <4>1. AuthErrorCode(m, a) \in Codes
        BY <2>3
      <4>2. ErrorType = [errorcode : Codes, fRealm : BOOLEAN, fNonce : BOOLEAN]
        BY Zenon DEF ErrorType
      <4> HIDE DEF Codes
      <4>3. QED
        BY <2>4, <4>1, <4>2, Zenon
    <3>2. [error EXCEPT !.errorcode = AuthErrorCode(m, a)] \in ErrorType
      BY <1>0, <2>3 DEF ErrorType
    <3>3. QED
      BY <2>1, <3>1, <3>2, Zenon
  <2>7. /\ pc' \in {"ProcessBindingRequest", "BuildErrorResponse"}
        /\ UNCHANGED <<addrSet, msgIn, auth, fRequestHasResponsePort, msgOut>>
    BY <1>5, <2>1 DEF ValidateAuth
  <2>8. QED
    BY <2>5, <2>6, <2>7 DEF TypeOK, ErrorType
<1>6. CASE RefuseBindingRequest
  <2>1. error' \in ErrorType
    <3>1. error' = [error EXCEPT !.errorcode = 400]
      BY <1>6 DEF RefuseBindingRequest
    <3>2. [error EXCEPT !.errorcode = 400] \in ErrorType
      BY <1>0 DEF ErrorType
    <3>3. QED
      BY <3>1, <3>2
  <2>2. QED
    BY <1>6, <2>1 DEF RefuseBindingRequest, TypeOK, ErrorType
<1>7. CASE ProcessBindingRequest
  <2>1. PICK m \in msgIn, out \in msgOut :
          msgOut' = {[socketrole |-> SocketOutput(m), addrDest |-> out.addrDest,
                      response |-> [kind |-> "Success", mapped |-> m.addrRemote,
                                    origin |-> AddrOrigin(m), other |-> AddrOther(m),
                                    signed |-> integrity]]}
    BY <1>7 DEF ProcessBindingRequest
  <2>2. m \in StunMessageIn /\ m.addrRemote \in Clients
    BY DEF TypeOK, StunMessageIn
  <2>3. out.addrDest \in S!RealAddr
    BY <1>0 DEF OutType
  <2>4. addrSet \in AddressSets /\ integrity \in {"None", "ShortTerm", "LongTerm"}
    BY DEF TypeOK
  <2>5. [kind |-> "Success", mapped |-> m.addrRemote, origin |-> AddrOrigin(m),
         other |-> AddrOther(m), signed |-> integrity] \in Responses
    BY <2>2, <2>4, AddressesAreTyped, SuccessIsTyped
  <2>6. msgOut' \in SUBSET OutType
    BY <2>1, <2>2, <2>3, <2>5, SocketOutputIsRole, OutIsTyped
  <2>7. QED
    BY <1>7, <2>6 DEF ProcessBindingRequest, TypeOK, OutType
<1>8. CASE BuildErrorResponse
  <2> DEFINE r == [kind |-> "Error", code |-> error.errorcode,
                    fNonce |-> error.errorcode \in {401, 438} /\ error.fNonce,
                    fRealm |-> error.errorcode \in {401, 438} /\ error.fRealm]
  <2>1. PICK out \in msgOut : msgOut' = {[out EXCEPT !.response = r]}
    BY <1>8, Zenon DEF BuildErrorResponse
  <2>2. error.errorcode \in {400, 401, 438}
    BY <1>0, <1>8 DEF ErrorHasCode, BuildErrorResponse, ErrorType
  <2>3. /\ (error.errorcode \in {401, 438} /\ error.fNonce) \in BOOLEAN
        /\ (error.errorcode \in {401, 438} /\ error.fRealm) \in BOOLEAN
    BY Zenon
  <2>4. r \in Responses
    BY <2>2, <2>3, Zenon DEF Responses
  <2> HIDE DEF r
  <2>5. [out EXCEPT !.response = r] \in OutType
    BY <1>0, <2>4 DEF OutType
  <2>6. QED
    BY <1>8, <2>1, <2>5 DEF BuildErrorResponse, TypeOK, OutType
<1>9. CASE Return
  BY <1>9 DEF Return, TypeOK
<1>10. CASE UNCHANGED vars
  BY <1>10 DEF vars, TypeOK
<1>11. QED
  BY <1>1, <1>2, <1>3, <1>4, <1>5, <1>6, <1>7, <1>8, <1>9, <1>10 DEF Next

-----------------------------------------------------------------------------
(* The invariant, action by action                                         *)

LEMMA InitHandlerInv == Init => HandlerInv
<1> SUFFICES ASSUME Init PROVE HandlerInv
  OBVIOUS
<1>1. TypeOK
  BY InitTypeOK
<1>2. QED
  BY <1>1 DEF Init, HandlerInv, ErrorHasCode, OneRequest, SuccessAtReturn, IdleIsClean,
              GrantedWhereProcessed, SuccessIsAuthorised, OtherAddressUsable, Successes

(* A verdict without an error code grants the request                      *)
LEMMA NoErrorCodeGrants ==
    ASSUME NEW m \in StunMessageIn, NEW a \in AuthResponses, AuthErrorCode(m, a) = 0
    PROVE  /\ a.responseType \in {"NoProvider", "Allow", "AllowConditional"}
           /\ a.responseType = "AllowConditional" => m.msg.integrity = a.authCredMech
<1>1. a.responseType \in {"NoProvider", "ProviderFails", "Allow", "AllowConditional",
                           "StaleNonce", "Reject", "Unauthorized"}
  BY MessageAssumption DEF S!AuthResponse
<1>2. QED
  BY <1>1 DEF AuthErrorCode

LEMMA NextHandlerInv == HandlerInv /\ [Next]_vars => HandlerInv'
<1> SUFFICES ASSUME HandlerInv, [Next]_vars PROVE HandlerInv'
  OBVIOUS
<1>0. TypeOK'
  BY NextTypeOK DEF HandlerInv
<1> DEFINE Rest == ErrorHasCode /\ OneRequest /\ SuccessAtReturn /\ IdleIsClean
                     /\ GrantedWhereProcessed /\ SuccessIsAuthorised /\ OtherAddressUsable
<1>a. ASSUME \A out \in msgOut' : out.response.kind # "Success"
      PROVE  SuccessAtReturn' /\ SuccessIsAuthorised' /\ OtherAddressUsable'
  BY <1>a DEF SuccessAtReturn, SuccessIsAuthorised, OtherAddressUsable, Successes
<1>1. ASSUME NEW m \in StunMessageIn, NEW a \in AuthResponses, ProcessRequest(m, a)
      PROVE  Rest'
  <2>1. \A out \in msgOut' : out.response.kind # "Success"
    BY <1>1 DEF ProcessRequest, Empty
  <2>2. QED
    BY <1>a, <1>1, <2>1 DEF ProcessRequest, ErrorHasCode, OneRequest, IdleIsClean,
       GrantedWhereProcessed
<1>2. ASSUME NEW m \in StunMessageIn, NEW a \in AuthResponses, RefuseRequest(m, a)
      PROVE  Rest'
  <2>1. \A out \in msgOut' : out.response.kind # "Success"
    BY <1>2 DEF RefuseRequest, HandlerInv, IdleIsClean
  <2>2. QED
    BY <1>a, <1>2, <2>1 DEF RefuseRequest, ErrorHasCode, OneRequest, IdleIsClean,
       GrantedWhereProcessed
<1>3. ASSUME IgnoreMessage PROVE Rest'
  <2>1. \A out \in msgOut' : out.response.kind # "Success"
    BY <1>3 DEF IgnoreMessage, HandlerInv, SuccessAtReturn
  <2>2. QED
    BY <1>a, <1>3, <2>1 DEF HandlerInv, IgnoreMessage, ErrorHasCode, OneRequest, IdleIsClean,
       GrantedWhereProcessed
<1>4. ASSUME ProcessRequestImpl PROVE Rest'
  <2>1. PICK m \in msgIn, out \in msgOut :
          /\ msgOut' = IF m.msg.responsePort # 0 /\ ~m.fConnectionOriented
                       THEN {[out EXCEPT !.addrDest.port = m.msg.responsePort]} ELSE msgOut
          /\ \/ pc' = "ValidateAuth"
             \/ pc' = "BuildErrorResponse" /\ error' = [error EXCEPT !.errorcode = 400]
    BY <1>4 DEF ProcessRequestImpl
  <2>2. out \in OutType
    BY DEF HandlerInv, TypeOK, OutType
  <2>3. out.response.kind # "Success"
    BY <1>4 DEF ProcessRequestImpl, HandlerInv, SuccessAtReturn
  <2>4. [out EXCEPT !.addrDest.port = m.msg.responsePort].response = out.response
    BY <2>2 DEF OutType
  <2>5. \A o \in msgOut' : o.response.kind # "Success"
    BY <1>4, <2>1, <2>3, <2>4 DEF ProcessRequestImpl, HandlerInv, SuccessAtReturn
  <2>6. error \in ErrorType
    BY DEF HandlerInv, TypeOK, ErrorType
  <2>7. ErrorHasCode' /\ IdleIsClean'
    BY <2>1, <2>6 DEF ErrorHasCode, IdleIsClean, ErrorType
  <2>8. OneRequest' /\ GrantedWhereProcessed'
    BY <1>4, <2>1 DEF ProcessRequestImpl, HandlerInv, OneRequest, GrantedWhereProcessed
  <2>9. QED
    BY <1>a, <2>5, <2>7, <2>8
<1>5. ASSUME ValidateAuth PROVE Rest'
  <2>1. PICK m \in msgIn, a \in auth :
          /\ error'.errorcode = AuthErrorCode(m, a)
          /\ integrity' = IF a.responseType = "AllowConditional" /\ AuthErrorCode(m, a) = 0
                          THEN a.authCredMech ELSE integrity
          /\ pc' = IF AuthErrorCode(m, a) = 0 THEN "ProcessBindingRequest"
                   ELSE "BuildErrorResponse"
    <3>1. error \in ErrorType
      BY DEF HandlerInv, TypeOK, ErrorType
    <3>2. PICK m \in msgIn, a \in auth :
            /\ error' = IF AuthErrorCode(m, a) \in {401, 438}
                        THEN [errorcode |-> AuthErrorCode(m, a), fRealm |-> a.fRealm,
                              fNonce |-> a.fNonce]
                        ELSE [error EXCEPT !.errorcode = AuthErrorCode(m, a)]
            /\ integrity' = IF a.responseType = "AllowConditional" /\ AuthErrorCode(m, a) = 0
                            THEN a.authCredMech ELSE integrity
            /\ pc' = IF AuthErrorCode(m, a) = 0 THEN "ProcessBindingRequest"
                     ELSE "BuildErrorResponse"
      BY <1>5, Zenon DEF ValidateAuth
    <3>3. error'.errorcode = AuthErrorCode(m, a)
      BY <3>1, <3>2 DEF ErrorType
    <3>4. QED
      BY <3>2, <3>3
  <2>2. m \in StunMessageIn /\ a \in AuthResponses
    BY DEF HandlerInv, TypeOK
  <2>3. \A out \in msgOut' : out.response.kind # "Success"
    BY <1>5 DEF ValidateAuth, HandlerInv, SuccessAtReturn
  <2>4. ErrorHasCode' /\ OneRequest' /\ IdleIsClean'
    BY <1>5, <2>1 DEF ValidateAuth, HandlerInv, ErrorHasCode, OneRequest, IdleIsClean
  <2>5. msgIn' = msgIn /\ auth' = auth /\ integrity = "None"
    BY <1>5 DEF ValidateAuth, HandlerInv, GrantedWhereProcessed
  <2>6. \A n \in msgIn, b \in auth : n = m /\ b = a
    BY DEF HandlerInv, OneRequest
  <2>7. AuthErrorCode(m, a) = 0 => Granted(m, a)'
    BY <2>1, <2>2, <2>5, NoErrorCodeGrants DEF Granted
  <2>8. GrantedWhereProcessed'
    BY <2>1, <2>5, <2>6, <2>7 DEF GrantedWhereProcessed
  <2>9. QED
    BY <1>a, <2>3, <2>4, <2>8
<1>6. ASSUME RefuseBindingRequest PROVE Rest'
  <2>1. \A out \in msgOut' : out.response.kind # "Success"
    BY <1>6 DEF RefuseBindingRequest, HandlerInv, SuccessAtReturn
  <2>2. error \in ErrorType
    BY DEF HandlerInv, TypeOK, ErrorType
  <2>3. ErrorHasCode'
    BY <1>6, <2>2 DEF RefuseBindingRequest, ErrorHasCode, ErrorType
  <2>4. QED
    BY <1>a, <1>6, <2>1, <2>3 DEF HandlerInv, RefuseBindingRequest, OneRequest, IdleIsClean,
       GrantedWhereProcessed
<1>7. ASSUME ProcessBindingRequest PROVE Rest'
  <2>1. PICK m \in msgIn, out \in msgOut :
          msgOut' = {[socketrole |-> SocketOutput(m), addrDest |-> out.addrDest,
                      response |-> [kind |-> "Success", mapped |-> m.addrRemote,
                                    origin |-> AddrOrigin(m), other |-> AddrOther(m),
                                    signed |-> integrity]]}
    BY <1>7, Zenon DEF ProcessBindingRequest
  <2>2. UNCHANGED <<addrSet, msgIn, auth>>
    BY <1>7 DEF ProcessBindingRequest
  <2>3. \A o \in msgOut' : o.response.signed = integrity /\ o.response.other = AddrOther(m)
    BY <2>1
  <2>4. \A n \in msgIn, b \in auth : Granted(n, b)
    BY <1>7 DEF ProcessBindingRequest, HandlerInv, GrantedWhereProcessed
  <2>5. SuccessIsAuthorised'
    BY <2>2, <2>3, <2>4 DEF SuccessIsAuthorised, Successes, Granted
  <2>6. AddrOther(m) # NoAddr =>
          /\ \A r \in Roles : HasAddress(r)
          /\ ~S!IsIPAddressZero(AddrOther(m))
          /\ \E r \in Roles : addrSet[r].addr = AddrOther(m)
    <3>1. m \in StunMessageIn
      BY DEF HandlerInv, TypeOK
    <3>2. SocketRoleSwapIP(SocketRoleSwapPort(m.socketrole)) \in Roles
      BY <3>1 DEF SocketRoleSwapIP, SocketRoleSwapPort, Roles, StunMessageIn
    <3>3. QED
      BY <3>2 DEF AddrOther, IsIPAddressZeroOrInvalid
  <2>7. \A r : HasAddress(r)' <=> HasAddress(r)
    BY <2>2 DEF HasAddress
  <2>8. OtherAddressUsable'
    BY <2>2, <2>3, <2>6, <2>7, SocketOutputIsRole DEF OtherAddressUsable, Successes
  <2>9. (ErrorHasCode /\ OneRequest /\ SuccessAtReturn /\ IdleIsClean
            /\ GrantedWhereProcessed)'
    BY <1>7 DEF ProcessBindingRequest, HandlerInv, ErrorHasCode, OneRequest, SuccessAtReturn,
       IdleIsClean, GrantedWhereProcessed
  <2>10. QED
    BY <2>5, <2>8, <2>9
<1>8. ASSUME BuildErrorResponse PROVE Rest'
  <2>1. PICK out \in msgOut :
          msgOut' = {[out EXCEPT !.response =
            [kind |-> "Error", code |-> error.errorcode,
             fNonce |-> error.errorcode \in {401, 438} /\ error.fNonce,
             fRealm |-> error.errorcode \in {401, 438} /\ error.fRealm]]}
    BY <1>8, Zenon DEF BuildErrorResponse
  <2>2. out \in OutType
    BY DEF HandlerInv, TypeOK, OutType
  <2>3. \A o \in msgOut' : o.response.kind # "Success"
    BY <2>1, <2>2 DEF OutType
  <2>4. QED
    BY <1>a, <1>8, <2>3 DEF HandlerInv, BuildErrorResponse, ErrorHasCode, OneRequest,
       IdleIsClean, GrantedWhereProcessed
<1>9. ASSUME Return PROVE Rest'
  <2>1. \A out \in msgOut' : out.response.kind # "Success"
    BY <1>9 DEF Return
  <2>2. QED
    BY <1>a, <1>9, <2>1 DEF Return, ErrorHasCode, OneRequest, IdleIsClean,
       GrantedWhereProcessed
<1>10. ASSUME UNCHANGED vars PROVE Rest'
  <2>1. UNCHANGED <<addrSet, pc, msgIn, auth, error, integrity, msgOut>>
    BY <1>10 DEF vars
  <2>2. SuccessIsAuthorised'
    BY <2>1 DEF HandlerInv, SuccessIsAuthorised, Successes
  <2>3. OtherAddressUsable'
    BY <2>1 DEF HandlerInv, OtherAddressUsable, Successes, HasAddress
  <2>4. QED
    BY <2>1, <2>2, <2>3 DEF HandlerInv, ErrorHasCode, OneRequest, SuccessAtReturn,
       IdleIsClean, GrantedWhereProcessed, Granted
<1>11. QED
  BY <1>0, <1>1, <1>2, <1>3, <1>4, <1>5, <1>6, <1>7, <1>8, <1>9, <1>10 DEF Next, HandlerInv

-----------------------------------------------------------------------------
(* The theorems                                                            *)

(* The handler keeps its types through every request ProcessRequest is     *)
(* given: in particular BuildErrorResponse only ever sends 400, 401 or     *)
(* 438, never the zero its constructor left in the error code.             *)
THEOREM HandlerTypeCorrect == Spec => []TypeOK
<1>1. HandlerInv => TypeOK
  BY DEF HandlerInv
<1>2. QED
  BY InitHandlerInv, NextHandlerInv, <1>1, PTL DEF Spec

(* Every success ProcessBindingRequest builds was allowed by the provider  *)
(* ValidateAuth asked, and is signed exactly when, and as, that request    *)
(* proved itself, for every message and every verdict.                     *)
THEOREM SuccessIsAuthorisedHolds == Spec => []SuccessIsAuthorised
<1>1. HandlerInv => SuccessIsAuthorised
  BY DEF HandlerInv
<1>2. QED
  BY InitHandlerInv, NextHandlerInv, <1>1, PTL DEF Spec

(* For every configuration of the four sockets, an OTHER-ADDRESS that      *)
(* ProcessBindingRequest announces is the real address of an open socket,  *)
(* and every change request over UDP finds its socket.                     *)
THEOREM OtherAddressUsableHolds == Spec => []OtherAddressUsable
<1>1. HandlerInv => OtherAddressUsable
  BY DEF HandlerInv
<1>2. QED
  BY InitHandlerInv, NextHandlerInv, <1>1, PTL DEF Spec

-----------------------------------------------------------------------------
(* What the handler has worked out of a request when it is about to run    *)
(* the function pc, in terms of what the service promises                  *)
WorkedOut(m, a, out) ==
    /\ out.socketrole = m.socketrole /\ out.response = Empty
    /\ pc = "ProcessRequestImpl" => out.addrDest = m.addrRemote /\ error = NoError
    /\ pc # "ProcessRequestImpl" =>
          /\ m.msg.class = "Request"
          /\ out.addrDest = Service!Destination(RequestOf(m, a))
          /\ fRequestHasResponsePort <=> m.msg.responsePort # 0
    /\ pc \in {"ValidateAuth", "ProcessBindingRequest"} =>
          ~Service!Malformed(RequestOf(m, a))
    /\ pc = "ProcessBindingRequest" => Service!AuthError(RequestOf(m, a)) = 0
    /\ pc = "BuildErrorResponse" =>
          /\ error.errorcode = Service!ErrorCode(RequestOf(m, a), AbstractSockets)
          /\ error.errorcode \in {401, 438} =>
                (error.fRealm <=> a.fRealm) /\ (error.fNonce <=> a.fNonce)

RequestInHand ==
    pc \notin {"Idle", "Return"} =>
        \E m \in StunMessageIn, a \in AuthResponses, out \in OutType :
            msgIn = {m} /\ auth = {a} /\ msgOut = {out} /\ WorkedOut(m, a, out)

-----------------------------------------------------------------------------
(* Roles and sockets                                                       *)

LEMMA RolesAreSockets ==
    ASSUME NEW r \in Roles
    PROVE  /\ SocketOf(r) \in Service!Socket
           /\ RoleOf(SocketOf(r)) = r
BY DEF Roles, SocketOf, RoleOf, Service!Socket, Service!Side

LEMMA SocketsAreRoles ==
    ASSUME NEW s \in Service!Socket
    PROVE  /\ RoleOf(s) \in Roles
           /\ SocketOf(RoleOf(s)) = s
<1>1. PICK x \in Service!Side, y \in Service!Side : s = [ip |-> x, port |-> y]
  BY DEF Service!Socket
<1>2. x \in {"Primary", "Alternate"} /\ y \in {"Primary", "Alternate"}
  BY DEF Service!Side
<1>3. QED
  BY <1>1, <1>2 DEF Roles, SocketOf, RoleOf

LEMMA OpenSockets ==
    ASSUME NEW r \in Roles
    PROVE  /\ SocketOf(r) \in AbstractSockets <=> HasAddress(r)
           /\ AbstractAddrs[SocketOf(r)] = addrSet[r].addr
<1>1. /\ SocketOf(r) \in Service!Socket
      /\ RoleOf(SocketOf(r)) = r
  BY RolesAreSockets
<1>2. S!Socket = Service!Socket
  BY DEF S!Socket, Service!Socket, S!Side, Service!Side
<1>3. QED
  BY <1>1, <1>2 DEF AbstractSockets, AbstractAddrs

(* The bits the code flips in a role are the sides of a socket             *)
LEMMA SwappedSides ==
    ASSUME NEW r \in Roles
    PROVE  /\ SocketRoleSwapIP(r) \in Roles /\ SocketRoleSwapPort(r) \in Roles
           /\ SocketOf(SocketRoleSwapIP(r)) =
                [SocketOf(r) EXCEPT !.ip = Service!Other(SocketOf(r).ip)]
           /\ SocketOf(SocketRoleSwapPort(r)) =
                [SocketOf(r) EXCEPT !.port = Service!Other(SocketOf(r).port)]
<1>1. r = 0 \/ r = 1 \/ r = 2 \/ r = 3
  BY DEF Roles
<1>2. CASE r = 0
  BY <1>2 DEF Roles, SocketRoleSwapIP, SocketRoleSwapPort, SocketOf, Service!Other
<1>3. CASE r = 1
  BY <1>3 DEF Roles, SocketRoleSwapIP, SocketRoleSwapPort, SocketOf, Service!Other
<1>4. CASE r = 2
  BY <1>4 DEF Roles, SocketRoleSwapIP, SocketRoleSwapPort, SocketOf, Service!Other
<1>5. CASE r = 3
  BY <1>5 DEF Roles, SocketRoleSwapIP, SocketRoleSwapPort, SocketOf, Service!Other
<1>6. QED
  BY <1>1, <1>2, <1>3, <1>4, <1>5

LEMMA OutputIsSender ==
    ASSUME NEW m \in StunMessageIn, NEW a
    PROVE  /\ SocketOf(SocketOutput(m)) = Service!Sender(RequestOf(m, a))
           /\ Service!Sender(RequestOf(m, a)) # SocketOf(m.socketrole) <=> ChangesAddress(m)
<1> DEFINE r == m.socketrole
           q == IF m.msg.change.fChangeIP THEN SocketRoleSwapIP(r) ELSE r
<1>1. r \in Roles
  BY DEF StunMessageIn
<1>2. q \in Roles
  BY <1>1, SwappedSides
<1>3. SocketOf(q) = [ip |-> IF m.msg.change.fChangeIP THEN Service!Other(SocketOf(r).ip)
                            ELSE SocketOf(r).ip,
                     port |-> SocketOf(r).port]
  <2>1. SocketOf(SocketRoleSwapIP(r)) =
           [SocketOf(r) EXCEPT !.ip = Service!Other(SocketOf(r).ip)]
    BY <1>1, SwappedSides
  <2> HIDE DEF r
  <2>2. CASE m.msg.change.fChangeIP
    BY <2>1, <2>2 DEF SocketOf
  <2>3. CASE ~m.msg.change.fChangeIP
    BY <2>3 DEF SocketOf
  <2>4. QED
    BY <2>2, <2>3
<1>4. SocketOf(SocketOutput(m)) =
        [ip |-> SocketOf(q).ip,
         port |-> IF m.msg.change.fChangePort THEN Service!Other(SocketOf(q).port)
                  ELSE SocketOf(q).port]
  <2>1. SocketOutput(m) = IF m.msg.change.fChangePort THEN SocketRoleSwapPort(q) ELSE q
    BY DEF SocketOutput
  <2> HIDE DEF q
  <2>2. SocketOf(SocketRoleSwapPort(q)) =
           [SocketOf(q) EXCEPT !.port = Service!Other(SocketOf(q).port)]
    BY <1>2, SwappedSides
  <2>3. QED
    BY <2>1, <2>2 DEF SocketOf
<1>5. /\ RequestOf(m, a).socket = SocketOf(r)
      /\ RequestOf(m, a).msg = m.msg
  BY DEF RequestOf
<1>6. Service!Sender(RequestOf(m, a)) = SocketOf(SocketOutput(m))
  BY <1>3, <1>4, <1>5 DEF Service!Sender
<1>7. \A side \in {"Primary", "Alternate"} : Service!Other(side) # side
  BY DEF Service!Other
<1>8. SocketOf(r) = [ip |-> SocketOf(r).ip, port |-> SocketOf(r).port]
      /\ SocketOf(r).ip \in {"Primary", "Alternate"}
      /\ SocketOf(r).port \in {"Primary", "Alternate"}
  BY DEF SocketOf
<1>9. Service!Sender(RequestOf(m, a)) # SocketOf(r) <=> ChangesAddress(m)
  BY <1>5, <1>7, <1>8 DEF Service!Sender, ChangesAddress
<1>10. QED
  BY <1>6, <1>9

LEMMA OppositeIsOther ==
    ASSUME NEW m \in StunMessageIn
    PROVE  LET r == SocketRoleSwapIP(SocketRoleSwapPort(m.socketrole))
               s == SocketOf(m.socketrole)
           IN  /\ r \in Roles
               /\ SocketOf(r) = [ip |-> Service!Other(s.ip), port |-> Service!Other(s.port)]
<1> DEFINE r == m.socketrole
           q == SocketRoleSwapPort(r)
<1>1. r \in Roles
  BY DEF StunMessageIn
<1>2. q \in Roles /\ SocketOf(q) = [SocketOf(r) EXCEPT !.port = Service!Other(SocketOf(r).port)]
  BY <1>1, SwappedSides
<1> HIDE DEF q
<1>3. /\ SocketRoleSwapIP(q) \in Roles
      /\ SocketOf(SocketRoleSwapIP(q)) =
             [SocketOf(q) EXCEPT !.ip = Service!Other(SocketOf(q).ip)]
  BY <1>2, SwappedSides
<1> HIDE DEF r
<1>4. SocketOf(SocketRoleSwapIP(q)) =
         [ip |-> Service!Other(SocketOf(r).ip), port |-> Service!Other(SocketOf(r).port)]
  BY <1>2, <1>3 DEF SocketOf
<1>5. QED
  BY <1>3, <1>4 DEF q, r

LEMMA AllSocketsOpen == AbstractSockets = Service!Socket <=> \A r \in Roles : HasAddress(r)
<1>1. S!Socket = Service!Socket
  BY DEF S!Socket, Service!Socket, S!Side, Service!Side
<1>2. ASSUME \A r \in Roles : HasAddress(r)
      PROVE  AbstractSockets = Service!Socket
  BY <1>1, <1>2, SocketsAreRoles DEF AbstractSockets
<1>3. ASSUME AbstractSockets = Service!Socket
      PROVE  \A r \in Roles : HasAddress(r)
  BY <1>3, RolesAreSockets, OpenSockets
<1>4. QED
  BY <1>2, <1>3

-----------------------------------------------------------------------------
(* What the handler computes is what the service promises                  *)

LEMMA AuthErrorIsCode ==
    ASSUME NEW m \in StunMessageIn, NEW a \in AuthResponses
    PROVE  Service!AuthError(RequestOf(m, a)) = AuthErrorCode(m, a)
<1>1. a.responseType \in {"NoProvider", "ProviderFails", "Allow", "AllowConditional",
                           "StaleNonce", "Reject", "Unauthorized"}
  BY MessageAssumption DEF S!AuthResponse
<1>2. RequestOf(m, a).auth = a /\ RequestOf(m, a).msg = m.msg
  BY DEF RequestOf
<1>3. QED
  BY <1>1, <1>2 DEF AuthErrorCode, Service!AuthError

LEMMA RefusedIsImpossible ==
    ASSUME NEW m \in StunMessageIn, NEW a,
           fRequestHasResponsePort <=> m.msg.responsePort # 0
    PROVE  BindingRefused(m) <=> Service!Impossible(RequestOf(m, a), AbstractSockets)
<1>1. /\ RequestOf(m, a).msg = m.msg
      /\ RequestOf(m, a).socket = SocketOf(m.socketrole)
      /\ RequestOf(m, a).fConnectionOriented = m.fConnectionOriented
  BY DEF RequestOf
<1>2. /\ SocketOf(SocketOutput(m)) = Service!Sender(RequestOf(m, a))
      /\ Service!Sender(RequestOf(m, a)) # SocketOf(m.socketrole) <=> ChangesAddress(m)
  BY OutputIsSender
<1>3. SocketOf(SocketOutput(m)) \in AbstractSockets <=> HasAddress(SocketOutput(m))
  BY OpenSockets, SocketOutputIsRole
<1>4. QED
  BY <1>1, <1>2, <1>3 DEF BindingRefused, Service!Impossible

LEMMA OriginIsSame ==
    ASSUME NEW m \in StunMessageIn, NEW a
    PROVE  AddrOrigin(m) = Service!Origin(RequestOf(m, a), AbstractAddrs)
<1>1. /\ RequestOf(m, a).socket = SocketOf(m.socketrole)
      /\ RequestOf(m, a).addrLocal = m.addrLocal
  BY DEF RequestOf
<1>2. SocketOf(SocketOutput(m)) = Service!Sender(RequestOf(m, a))
  BY OutputIsSender
<1>3. /\ SocketOutput(m) \in Roles /\ m.socketrole \in Roles
  BY SocketOutputIsRole DEF StunMessageIn
<1>4. AbstractAddrs[SocketOf(SocketOutput(m))] = addrSet[SocketOutput(m)].addr
  BY <1>3, OpenSockets
<1>5. SocketOf(SocketOutput(m)) = SocketOf(m.socketrole) <=> SocketOutput(m) = m.socketrole
  BY <1>3, RolesAreSockets
<1>6. QED
  BY <1>1, <1>2, <1>4, <1>5
  DEF AddrOrigin, Service!Origin, S!IsIPAddressZero, Service!IsIPAddressZero

LEMMA OtherIsSame ==
    ASSUME NEW m \in StunMessageIn, NEW a
    PROVE  AddrOther(m) = Service!OtherAddress(RequestOf(m, a), AbstractSockets, AbstractAddrs)
<1> DEFINE r == SocketRoleSwapIP(SocketRoleSwapPort(m.socketrole))
           s == SocketOf(m.socketrole)
           opposite == [ip |-> Service!Other(s.ip), port |-> Service!Other(s.port)]
<1>1. r \in Roles /\ SocketOf(r) = opposite
  BY OppositeIsOther
<1>2. RequestOf(m, a).socket = s
  BY DEF RequestOf
<1>3. AbstractAddrs[opposite] = addrSet[r].addr
  BY <1>1, OpenSockets
<1>4. AbstractSockets = Service!Socket <=> \A x \in Roles : HasAddress(x)
  BY AllSocketsOpen
<1>5. AddrOther(m) = IF /\ \A x \in Roles : HasAddress(x)
                        /\ HasAddress(r) /\ ~S!IsIPAddressZero(addrSet[r].addr)
                     THEN addrSet[r].addr ELSE NoAddr
  BY DEF AddrOther, IsIPAddressZeroOrInvalid
<1>6. Service!OtherAddress(RequestOf(m, a), AbstractSockets, AbstractAddrs) =
         IF AbstractSockets = Service!Socket /\ ~Service!IsIPAddressZero(AbstractAddrs[opposite])
         THEN AbstractAddrs[opposite] ELSE NoAddr
  BY <1>2 DEF Service!OtherAddress
<1> HIDE DEF r, opposite
<1>7. QED
  BY <1>1, <1>3, <1>4, <1>5, <1>6 DEF S!IsIPAddressZero, Service!IsIPAddressZero

-----------------------------------------------------------------------------
(* The invariant, action by action                                         *)

LEMMA SocketsStay ==
    ASSUME addrSet' = addrSet
    PROVE  AbstractSockets' = AbstractSockets /\ AbstractAddrs' = AbstractAddrs
BY DEF AbstractSockets, AbstractAddrs, HasAddress

LEMMA HandOver ==
    ASSUME NEW m \in StunMessageIn, NEW a \in AuthResponses, NEW out \in OutType,
           msgIn' = {m}, auth' = {a}, msgOut' = {out}, WorkedOut(m, a, out)'
    PROVE  RequestInHand'
BY DEF RequestInHand

LEMMA RequestStep == RequestInHand /\ HandlerInv /\ [Next]_vars => RequestInHand'
<1> SUFFICES ASSUME RequestInHand, HandlerInv, [Next]_vars PROVE RequestInHand'
  OBVIOUS
<1>1. ASSUME NEW m \in StunMessageIn, NEW a \in AuthResponses, ProcessRequest(m, a)
      PROVE  RequestInHand'
  <2> DEFINE out == [socketrole |-> m.socketrole, addrDest |-> m.addrRemote,
                     response |-> Empty]
  <2>1. msgIn' = {m} /\ auth' = {a} /\ msgOut' = {out}
    BY <1>1 DEF ProcessRequest
  <2>2. pc' = "ProcessRequestImpl" /\ error' = NoError
    BY <1>1 DEF ProcessRequest
  <2>3. out \in OutType
    <3>1. m.socketrole \in Roles /\ m.addrRemote \in S!RealAddr /\ Empty \in Responses
      BY AddressAssumption DEF StunMessageIn, Responses
    <3>2. QED
      BY <3>1, OutIsTyped
  <2>4. WorkedOut(m, a, out)'
    BY <2>2 DEF WorkedOut
  <2> HIDE DEF out
  <2>5. QED
    BY <2>1, <2>3, <2>4, HandOver
<1>2. ASSUME NEW m \in StunMessageIn, NEW a \in AuthResponses, RefuseRequest(m, a)
      PROVE  RequestInHand'
  BY <1>2 DEF RefuseRequest, RequestInHand
<1>3. CASE IgnoreMessage
  BY <1>3 DEF IgnoreMessage, RequestInHand
<1>4. CASE ProcessRequestImpl
  <2>1. PICK m \in StunMessageIn, a \in AuthResponses, out \in OutType :
          msgIn = {m} /\ auth = {a} /\ msgOut = {out} /\ WorkedOut(m, a, out)
    BY <1>4 DEF ProcessRequestImpl, RequestInHand
  <2> DEFINE req == RequestOf(m, a)
             fPort == m.msg.responsePort # 0
             moved == [out EXCEPT !.addrDest.port = m.msg.responsePort]
             out2 == IF fPort /\ ~m.fConnectionOriented THEN moved ELSE out
  <2>2. /\ m.msg.class = "Request"
        /\ fRequestHasResponsePort' = fPort
        /\ msgOut' = {out2}
        /\ error' = IF Service!Malformed(req) THEN [error EXCEPT !.errorcode = 400] ELSE error
        /\ pc' = IF Service!Malformed(req) THEN "BuildErrorResponse" ELSE "ValidateAuth"
        /\ msgIn' = {m} /\ auth' = {a} /\ addrSet' = addrSet
    BY <1>4, <2>1 DEF ProcessRequestImpl, Service!Malformed, RequestOf
  <2>3. out.socketrole = m.socketrole /\ out.response = Empty /\ out.addrDest = m.addrRemote
    BY <1>4, <2>1 DEF WorkedOut, ProcessRequestImpl
  <2>4. /\ out2 \in OutType
        /\ out2.socketrole = m.socketrole /\ out2.response = Empty
        /\ out2.addrDest = Service!Destination(req)
    <3>1. m.msg.responsePort \in Ports \cup {0}
      BY MessageAssumption DEF StunMessageIn, S!Message
    <3>2. fPort => /\ moved \in OutType
                   /\ moved.socketrole = out.socketrole /\ moved.response = out.response
                   /\ moved.addrDest = [out.addrDest EXCEPT !.port = m.msg.responsePort]
      BY <3>1 DEF OutType, S!RealAddr
    <3>3. Service!Destination(req) = IF fPort /\ ~m.fConnectionOriented
                                    THEN [m.addrRemote EXCEPT !.port = m.msg.responsePort]
                                    ELSE m.addrRemote
      BY DEF Service!Destination, RequestOf
    <3> HIDE DEF moved, req
    <3>4. QED
      BY <2>3, <3>2, <3>3
  <2>5. Service!Malformed(req) =>
            Service!ErrorCode(req, AbstractSockets) = 400 /\ error'.errorcode = 400
    <3>1. error \in ErrorType
      BY DEF HandlerInv, TypeOK, ErrorType
    <3>2. QED
      BY <2>2, <3>1 DEF Service!ErrorCode, ErrorType
  <2>6. AbstractSockets' = AbstractSockets
    BY <2>2, SocketsStay
  <2> HIDE DEF out2, req
  <2>7. /\ pc' = "BuildErrorResponse" \/ pc' = "ValidateAuth"
        /\ pc' = "BuildErrorResponse" => error'.errorcode = Service!ErrorCode(req, AbstractSockets')
        /\ pc' = "BuildErrorResponse" => error'.errorcode = 400
        /\ pc' = "ValidateAuth" => ~Service!Malformed(req)
        /\ fRequestHasResponsePort' <=> m.msg.responsePort # 0
    BY <2>2, <2>5, <2>6
  <2>8. WorkedOut(m, a, out2)'
    BY <2>2, <2>4, <2>7 DEF WorkedOut, req
  <2>9. QED
    BY <2>2, <2>4, <2>8, HandOver
<1>5. CASE ValidateAuth
  <2>1. PICK m \in StunMessageIn, a \in AuthResponses, out \in OutType :
          msgIn = {m} /\ auth = {a} /\ msgOut = {out} /\ WorkedOut(m, a, out)
    BY <1>5 DEF ValidateAuth, RequestInHand
  <2> DEFINE req == RequestOf(m, a)
             code == AuthErrorCode(m, a)
  <2>2. /\ error' = IF code \in {401, 438}
                    THEN [errorcode |-> code, fRealm |-> a.fRealm, fNonce |-> a.fNonce]
                    ELSE [error EXCEPT !.errorcode = code]
        /\ pc' = IF code = 0 THEN "ProcessBindingRequest" ELSE "BuildErrorResponse"
        /\ UNCHANGED <<addrSet, msgIn, auth, fRequestHasResponsePort, msgOut>>
    BY <1>5, <2>1 DEF ValidateAuth
  <2>3. code = Service!AuthError(req)
    BY AuthErrorIsCode
  <2>4. /\ ~Service!Malformed(req)
        /\ m.msg.class = "Request"
        /\ out.socketrole = m.socketrole /\ out.response = Empty
        /\ out.addrDest = Service!Destination(req)
        /\ fRequestHasResponsePort <=> m.msg.responsePort # 0
    BY <1>5, <2>1 DEF WorkedOut, ValidateAuth
  <2>5. code # 0 => Service!ErrorCode(req, AbstractSockets) = code
    BY <2>3, <2>4 DEF Service!ErrorCode
  <2>6. AbstractSockets' = AbstractSockets
    BY <2>2, SocketsStay
  <2>7. error \in ErrorType
    BY DEF HandlerInv, TypeOK, ErrorType
  <2> HIDE DEF req, code
  <2>8. error'.errorcode = code
    BY <2>2, <2>7 DEF ErrorType
  <2>9. code \in {401, 438} => error'.fRealm = a.fRealm /\ error'.fNonce = a.fNonce
    BY <2>2
  <2>10. WorkedOut(m, a, out)'
    BY <2>2, <2>3, <2>4, <2>5, <2>6, <2>8, <2>9 DEF WorkedOut, req
  <2>11. QED
    BY <2>1, <2>2, <2>10, HandOver
<1>6. CASE RefuseBindingRequest
  <2>1. PICK m \in StunMessageIn, a \in AuthResponses, out \in OutType :
          msgIn = {m} /\ auth = {a} /\ msgOut = {out} /\ WorkedOut(m, a, out)
    BY <1>6 DEF RefuseBindingRequest, RequestInHand
  <2>2. /\ BindingRefused(m)
        /\ error' = [error EXCEPT !.errorcode = 400]
        /\ pc' = "BuildErrorResponse"
        /\ UNCHANGED <<addrSet, msgIn, auth, fRequestHasResponsePort, msgOut>>
    BY <1>6, <2>1 DEF RefuseBindingRequest
  <2> DEFINE req == RequestOf(m, a)
  <2>3. /\ ~Service!Malformed(req) /\ Service!AuthError(req) = 0
        /\ m.msg.class = "Request"
        /\ out.socketrole = m.socketrole /\ out.response = Empty
        /\ out.addrDest = Service!Destination(req)
        /\ fRequestHasResponsePort <=> m.msg.responsePort # 0
    BY <1>6, <2>1 DEF WorkedOut, RefuseBindingRequest
  <2>4. Service!Impossible(req, AbstractSockets)
    BY <2>2, <2>3, RefusedIsImpossible
  <2>5. Service!ErrorCode(req, AbstractSockets) = 400
    BY <2>3, <2>4 DEF Service!ErrorCode
  <2>6. error'.errorcode = 400
    BY <2>2 DEF HandlerInv, TypeOK
  <2>7. AbstractSockets' = AbstractSockets
    BY <2>2, SocketsStay
  <2> HIDE DEF req
  <2>8. WorkedOut(m, a, out)'
    BY <2>2, <2>3, <2>5, <2>6, <2>7 DEF WorkedOut, req
  <2>9. QED
    BY <2>1, <2>2, <2>8, HandOver
<1>7. CASE ProcessBindingRequest
  BY <1>7 DEF ProcessBindingRequest, RequestInHand
<1>8. CASE BuildErrorResponse
  BY <1>8 DEF BuildErrorResponse, RequestInHand
<1>9. CASE Return
  BY <1>9 DEF Return, RequestInHand
<1>10. CASE UNCHANGED vars
  <2>1. /\ pc' = pc /\ msgIn' = msgIn /\ auth' = auth /\ error' = error
        /\ fRequestHasResponsePort' = fRequestHasResponsePort /\ msgOut' = msgOut
    BY <1>10 DEF vars
  <2>2. AbstractSockets' = AbstractSockets
    BY <1>10, SocketsStay DEF vars
  <2>3. \A m, a, out : WorkedOut(m, a, out) => WorkedOut(m, a, out)'
    BY <2>1, <2>2 DEF WorkedOut
  <2>4. QED
    BY <2>1, <2>3 DEF RequestInHand
<1>11. QED
  BY <1>1, <1>2, <1>3, <1>4, <1>5, <1>6, <1>7, <1>8, <1>9, <1>10 DEF Next

-----------------------------------------------------------------------------
(* Every step is a step of the service, or none                            *)

LEMMA InHand ==
    ASSUME NEW m, NEW a, msgIn = {m}, auth = {a}, pc \notin {"Idle", "Return"}
    PROVE  AbstractPending = {RequestOf(m, a)} /\ AbstractAnswer = Service!NoAnswer
BY DEF AbstractPending, AbstractAnswer, S!NoAnswer, Service!NoAnswer

LEMMA Answered ==
    ASSUME NEW out, msgOut' = {out}, pc' = "Return"
    PROVE  AbstractPending' = {} /\ AbstractAnswer' = AnswerOf(out)
BY DEF AbstractPending, AbstractAnswer

LEMMA NothingInHand ==
    /\ pc \in {"Idle", "Return"} => AbstractPending = {}
    /\ pc # "Return" \/ msgOut = {} => AbstractAnswer = Service!NoAnswer
BY DEF AbstractPending, AbstractAnswer, S!NoAnswer, Service!NoAnswer

LEMMA NothingInHandNext ==
    /\ pc' \in {"Idle", "Return"} => AbstractPending' = {}
    /\ pc' # "Return" \/ msgOut' = {} => AbstractAnswer' = Service!NoAnswer
BY DEF AbstractPending, AbstractAnswer, S!NoAnswer, Service!NoAnswer

LEMMA RequestIsTyped ==
    ASSUME NEW m \in StunMessageIn, NEW a \in AuthResponses
    PROVE  RequestOf(m, a) \in Service!Request
<1>1. SocketOf(m.socketrole) \in Service!Socket
  BY RolesAreSockets DEF StunMessageIn
<1>2. m.addrLocal \in Service!RealAddr /\ m.addrRemote \in Service!RealAddr
  BY AddressAssumption DEF StunMessageIn, S!RealAddr, Service!RealAddr
<1>3. m.msg \in Service!Message
  <2>1. S!Message = Service!Message
    BY DEF S!Message, Service!Message, S!ChangeRequest, Service!ChangeRequest
  <2>2. QED
    BY <2>1, MessageAssumption DEF StunMessageIn
<1>4. a \in Service!AuthResponse
  <2>1. S!AuthResponse = Service!AuthResponse
    BY DEF S!AuthResponse, Service!AuthResponse
  <2>2. QED
    BY <2>1, MessageAssumption
<1>5. m.fConnectionOriented \in BOOLEAN
  BY DEF StunMessageIn
<1>6. QED
  BY <1>1, <1>2, <1>3, <1>4, <1>5, Zenon DEF RequestOf, Service!Request

LEMMA SomeChallenge ==
    ASSUME NEW req
    PROVE  \E c \in Service!Challenges(req, AbstractSockets) : TRUE
BY DEF Service!Challenges

LEMMA InitPromise == Init => Service!Init
<1> SUFFICES ASSUME Init PROVE Service!Init
  OBVIOUS
<1>1. S!Socket = Service!Socket /\ S!Addr = Service!Addr
  BY DEF S!Socket, Service!Socket, S!Side, Service!Side, S!Addr, Service!Addr,
         S!RealAddr, Service!RealAddr
<1>2. AbstractSockets \in SUBSET Service!Socket
  BY <1>1 DEF AbstractSockets
<1>3. \A r \in Roles : addrSet[r].addr \in S!Addr
  BY AddressSetAssumption DEF Init, TransportAddress
<1>4. AbstractAddrs \in [Service!Socket -> Service!Addr]
  BY <1>1, <1>3, SocketsAreRoles DEF AbstractAddrs
<1>5. AbstractPending = {} /\ AbstractAnswer = Service!NoAnswer
  BY NothingInHand DEF Init
<1>6. QED
  BY <1>2, <1>4, <1>5 DEF Service!Init

LEMMA StepPromise ==
    RequestInHand /\ HandlerInv /\ [Next]_vars => [Service!Next]_(Service!vars)
<1> SUFFICES ASSUME RequestInHand, HandlerInv, [Next]_vars
             PROVE  Service!Next \/ UNCHANGED Service!vars
  OBVIOUS
<1>0. UNCHANGED addrSet
  BY DEF Next, ProcessRequest, RefuseRequest, IgnoreMessage, ProcessRequestImpl, ValidateAuth,
         RefuseBindingRequest, ProcessBindingRequest, BuildErrorResponse, Return, vars
<1>a. AbstractSockets' = AbstractSockets /\ AbstractAddrs' = AbstractAddrs
  BY <1>0, SocketsStay
<1>b. ASSUME pc \notin {"Idle", "Return"}, pc' \notin {"Idle", "Return"},
             UNCHANGED <<msgIn, auth>>
      PROVE  UNCHANGED Service!vars
  BY <1>a, <1>b DEF AbstractPending, AbstractAnswer, Service!vars
<1>c. ASSUME pc \notin {"Idle", "Return"}, pc' = "Return",
             NEW m \in StunMessageIn, NEW a \in AuthResponses, msgIn = {m}, auth = {a},
             NEW out, msgOut' = {out},
             NEW c \in Service!Challenges(RequestOf(m, a), AbstractSockets),
             AnswerOf(out) = Service!Answer(RequestOf(m, a), AbstractSockets,
                                            AbstractAddrs, c)
      PROVE  Service!Next
  <2>1. AbstractPending = {RequestOf(m, a)} /\ AbstractPending' = {}
    BY <1>c, InHand, Answered
  <2>2. AbstractAnswer' = Service!Answer(RequestOf(m, a), AbstractSockets, AbstractAddrs, c)
    BY <1>c, Answered
  <2>3. Service!Reply
    BY <1>a, <2>1, <2>2 DEF Service!Reply
  <2>4. QED
    BY <2>3 DEF Service!Next
<1>1. ASSUME NEW m \in StunMessageIn, NEW a \in AuthResponses, ProcessRequest(m, a)
      PROVE  Service!Next
  <2>1. pc = "Idle" /\ pc' = "ProcessRequestImpl" /\ HasAddress(m.socketrole)
        /\ msgIn' = {m} /\ auth' = {a}
    BY <1>1 DEF ProcessRequest, ArrivesOn
  <2>2. /\ AbstractPending = {} /\ AbstractAnswer = Service!NoAnswer
        /\ AbstractAnswer' = Service!NoAnswer
    BY <2>1, NothingInHand, NothingInHandNext
  <2>3. AbstractPending' = {RequestOf(m, a)}
    BY <2>1 DEF AbstractPending
  <2>4. RequestOf(m, a) \in Service!Request
    BY RequestIsTyped
  <2>5. RequestOf(m, a).socket \in AbstractSockets
    <3>1. m.socketrole \in Roles
      BY DEF StunMessageIn
    <3>2. SocketOf(m.socketrole) \in AbstractSockets
      BY <2>1, <3>1, OpenSockets
    <3>3. QED
      BY <3>2 DEF RequestOf
  <2>6. Service!Receive
    BY <1>a, <2>2, <2>3, <2>4, <2>5 DEF Service!Receive
  <2>7. QED
    BY <2>6 DEF Service!Next
<1>2. ASSUME NEW m \in StunMessageIn, NEW a \in AuthResponses, RefuseRequest(m, a)
      PROVE  UNCHANGED Service!vars
  <2>1. pc = "Idle" /\ pc' = "Return" /\ msgOut = {} /\ msgOut' = {}
    BY <1>2 DEF RefuseRequest, HandlerInv, IdleIsClean
  <2>2. QED
    BY <1>a, <2>1, NothingInHand, NothingInHandNext DEF Service!vars
<1>3. CASE IgnoreMessage
  <2>1. PICK m \in StunMessageIn, a \in AuthResponses, out \in OutType :
          msgIn = {m} /\ auth = {a} /\ msgOut = {out} /\ WorkedOut(m, a, out)
    BY <1>3 DEF IgnoreMessage, RequestInHand
  <2>2. m.msg.class # "Request" /\ pc = "ProcessRequestImpl" /\ pc' = "Return"
        /\ msgOut' = {out}
    BY <1>3, <2>1 DEF IgnoreMessage
  <2>3. AnswerOf(out) = Service!NoAnswer
    BY <2>1 DEF WorkedOut, AnswerOf, Empty, S!NoAnswer, Service!NoAnswer
  <2>4. PICK c \in Service!Challenges(RequestOf(m, a), AbstractSockets) : TRUE
    BY SomeChallenge
  <2>5. Service!Answer(RequestOf(m, a), AbstractSockets, AbstractAddrs, c) = Service!NoAnswer
    BY <2>2 DEF Service!Answer, RequestOf
  <2>6. QED
    BY <1>c, <2>1, <2>2, <2>3, <2>4, <2>5
<1>4. CASE ProcessRequestImpl
  BY <1>4, <1>b DEF ProcessRequestImpl
<1>5. CASE ValidateAuth
  BY <1>5, <1>b DEF ValidateAuth
<1>6. CASE RefuseBindingRequest
  BY <1>6, <1>b DEF RefuseBindingRequest
<1>7. CASE ProcessBindingRequest
  <2>1. PICK m \in StunMessageIn, a \in AuthResponses, out \in OutType :
          msgIn = {m} /\ auth = {a} /\ msgOut = {out} /\ WorkedOut(m, a, out)
    BY <1>7 DEF ProcessBindingRequest, RequestInHand
  <2> DEFINE req == RequestOf(m, a)
             success == [kind |-> "Success", mapped |-> m.addrRemote,
                         origin |-> AddrOrigin(m), other |-> AddrOther(m),
                         signed |-> integrity]
             sent == [socketrole |-> SocketOutput(m), addrDest |-> out.addrDest,
                      response |-> success]
  <2>2. /\ pc = "ProcessBindingRequest" /\ pc' = "Return" /\ ~BindingRefused(m)
        /\ msgOut' = {sent}
    BY <1>7, <2>1 DEF ProcessBindingRequest
  <2>3. /\ ~Service!Malformed(req) /\ Service!AuthError(req) = 0
        /\ m.msg.class = "Request"
        /\ out.addrDest = Service!Destination(req)
        /\ fRequestHasResponsePort <=> m.msg.responsePort # 0
    BY <2>1, <2>2 DEF WorkedOut
  <2>4. ~Service!Impossible(req, AbstractSockets)
    BY <2>2, <2>3, RefusedIsImpossible
  <2>5. Service!ErrorCode(req, AbstractSockets) = 0
    BY <2>3, <2>4 DEF Service!ErrorCode
  <2>6. integrity = IF a.responseType = "AllowConditional" THEN a.authCredMech ELSE "None"
    BY <2>1, <2>2 DEF HandlerInv, GrantedWhereProcessed, Granted
  <2>7. /\ AddrOrigin(m) = Service!Origin(req, AbstractAddrs)
        /\ AddrOther(m) = Service!OtherAddress(req, AbstractSockets, AbstractAddrs)
        /\ SocketOf(SocketOutput(m)) = Service!Sender(req)
    BY OriginIsSame, OtherIsSame, OutputIsSender
  <2>8. req.msg = m.msg /\ req.auth = a /\ req.addrRemote = m.addrRemote
    BY DEF RequestOf
  <2>9. AnswerOf(sent) = [from |-> SocketOf(SocketOutput(m)), to |-> out.addrDest,
                          response |-> success]
    BY DEF AnswerOf
  <2> HIDE DEF req
  <2>c. PICK c \in Service!Challenges(req, AbstractSockets) : TRUE
    BY SomeChallenge
  <2>10. Service!Answer(req, AbstractSockets, AbstractAddrs, c) =
            [from |-> Service!Sender(req), to |-> Service!Destination(req),
             response |-> [kind |-> "Success", mapped |-> m.addrRemote,
                origin |-> Service!Origin(req, AbstractAddrs),
                other |-> Service!OtherAddress(req, AbstractSockets, AbstractAddrs),
                signed |-> IF a.responseType = "AllowConditional"
                           THEN a.authCredMech ELSE "None"]]
    BY <2>3, <2>5, <2>8 DEF Service!Answer
  <2>11. AnswerOf(sent) = Service!Answer(req, AbstractSockets, AbstractAddrs, c)
    BY <2>3, <2>6, <2>7, <2>9, <2>10
  <2> HIDE DEF sent
  <2>12. QED
    BY <1>c, <2>1, <2>2, <2>c, <2>11 DEF req
<1>8. CASE BuildErrorResponse
  <2>1. PICK m \in StunMessageIn, a \in AuthResponses, out \in OutType :
          msgIn = {m} /\ auth = {a} /\ msgOut = {out} /\ WorkedOut(m, a, out)
    BY <1>8 DEF BuildErrorResponse, RequestInHand
  <2> DEFINE req == RequestOf(m, a)
             code == error.errorcode
             response == [kind |-> "Error", code |-> code,
                          fNonce |-> code \in {401, 438} /\ error.fNonce,
                          fRealm |-> code \in {401, 438} /\ error.fRealm]
             sent == [out EXCEPT !.response = response]
  <2>2. pc = "BuildErrorResponse" /\ pc' = "Return" /\ msgOut' = {sent}
    BY <1>8, <2>1, Zenon DEF BuildErrorResponse
  <2>3. /\ m.msg.class = "Request"
        /\ out.socketrole = m.socketrole
        /\ out.addrDest = Service!Destination(req)
        /\ code = Service!ErrorCode(req, AbstractSockets)
        /\ code \in {401, 438} => (error.fRealm <=> a.fRealm) /\ (error.fNonce <=> a.fNonce)
    BY <2>1, <2>2 DEF WorkedOut
  <2>4. code # 0
    BY <2>2 DEF HandlerInv, ErrorHasCode
  <2>5. req.msg = m.msg /\ req.auth = a /\ req.socket = SocketOf(m.socketrole)
    BY DEF RequestOf
  <2>v. a.fNonce \in BOOLEAN /\ a.fRealm \in BOOLEAN
    BY MessageAssumption DEF S!AuthResponse
  <2>6. sent.response = response /\ sent.socketrole = out.socketrole
        /\ sent.addrDest = out.addrDest
    BY DEF OutType
  <2> DEFINE c == [fNonce |-> response.fNonce, fRealm |-> response.fRealm]
  <2>7. c \in Service!Challenges(req, AbstractSockets)
    <3>1. CASE code \notin {401, 438}
      <4>1. c = Service!NoChallenge
        BY <3>1 DEF Service!NoChallenge
      <4>2. QED
        BY <2>3, <3>1, <4>1 DEF Service!Challenges
    <3>2. CASE code \in {401, 438}
      <4>1. (code \in {401, 438} /\ error.fNonce) = a.fNonce
        BY <2>3, <2>v, <3>2, Zenon
      <4>2. (code \in {401, 438} /\ error.fRealm) = a.fRealm
        BY <2>3, <2>v, <3>2, Zenon
      <4>3. c = [fNonce |-> a.fNonce, fRealm |-> a.fRealm]
        BY <4>1, <4>2, Zenon
      <4> HIDE DEF c, code
      <4>4. QED
        BY <2>3, <2>5, <3>2, <4>3 DEF Service!Challenges
    <3>3. QED
      BY <3>1, <3>2
  <2>8. response.kind = "Error" /\ response.code = code
        /\ response = [kind |-> "Error", code |-> code,
                       fNonce |-> c.fNonce, fRealm |-> c.fRealm]
    OBVIOUS
  <2> HIDE DEF response, sent, code, req, c
  <2>9. AnswerOf(sent) = [from |-> SocketOf(m.socketrole), to |-> out.addrDest,
                          response |-> response]
    BY <2>3, <2>6, <2>8 DEF AnswerOf
  <2>10. Service!Answer(req, AbstractSockets, AbstractAddrs, c) =
            [from |-> SocketOf(m.socketrole), to |-> Service!Destination(req),
             response |-> [kind |-> "Error", code |-> code,
                           fNonce |-> c.fNonce, fRealm |-> c.fRealm]]
    BY <2>3, <2>4, <2>5, Zenon DEF Service!Answer
  <2>11. AnswerOf(sent) = Service!Answer(req, AbstractSockets, AbstractAddrs, c)
    BY <2>3, <2>8, <2>9, <2>10, Zenon
  <2>12. QED
    BY <1>c, <2>1, <2>2, <2>7, <2>11 DEF req
<1>9. CASE Return
  <2>1. pc = "Return" /\ pc' = "Idle"
    BY <1>9 DEF Return
  <2>2. AbstractPending = {} /\ AbstractPending' = {} /\ AbstractAnswer' = Service!NoAnswer
    BY <2>1, NothingInHand, NothingInHandNext
  <2>3. Service!Send
    BY <1>a, <2>2 DEF Service!Send
  <2>4. QED
    BY <2>3 DEF Service!Next
<1>10. CASE UNCHANGED vars
  BY <1>10, <1>a DEF vars, AbstractPending, AbstractAnswer, Service!vars
<1>11. QED
  BY <1>1, <1>2, <1>3, <1>4, <1>5, <1>6, <1>7, <1>8, <1>9, <1>10 DEF Next

-----------------------------------------------------------------------------
(* ProcessRequest answers every request as StunService promises, from the  *)
(* request and the sockets alone, for every set of addresses, messages,    *)
(* verdicts of the provider and socket configurations: nothing of an       *)
(* earlier request, and no early return of the functions it calls, can be  *)
(* seen in an answer.                                                      *)
THEOREM HandlerImplementsService == Spec => ImplementsService
<1>1. Init => RequestInHand
  BY DEF Init, RequestInHand
<1>2. QED
  BY InitHandlerInv, NextHandlerInv, InitPromise, StepPromise, RequestStep, <1>1, PTL
     DEF Spec, ImplementsService, Service!Spec
=============================================================================
