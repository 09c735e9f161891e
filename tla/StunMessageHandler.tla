------------------------ MODULE StunMessageHandler ------------------------
(***************************************************************************)
(* CStunRequestHandler (messagehandler.cpp) and the socket roles           *)
(* (socketrole.h): the life of one request, from ProcessRequest through    *)
(* ProcessRequestImpl, ValidateAuth, ProcessBindingRequest and             *)
(* BuildErrorResponse.  The handler object lives as long as one request:   *)
(* what its constructor initialises, ProcessRequest sets here, and the     *)
(* values a finished request leaves behind are what would leak into the    *)
(* next one if it did not.                                                 *)
(***************************************************************************)
EXTENDS Naturals

CONSTANTS
    IPs, Ports, ZeroIP, NoAddr,
    Clients,         \* the addresses requests come from
    Messages,        \* the messages clients may send
    AuthResponses,   \* the verdicts of the authentication provider
    AddressSets      \* the socket configurations of the server

(* The vocabulary of requests and answers                                  *)
S == INSTANCE StunService
        WITH sockets <- {}, addrs <- <<>>, pending <- {}, answer <- <<>>

Roles == 0 .. 3      \* RolePP, RolePA, RoleAP, RoleAA
SocketRoleSwapPort(r) == IF r % 2 = 0 THEN r + 1 ELSE r - 1    \* r ^ 1
SocketRoleSwapIP(r)   == IF r < 2 THEN r + 2 ELSE r - 2        \* r ^ 2

TransportAddress == [addr : S!Addr, fValid : BOOLEAN]

ASSUME AddressSetAssumption == AddressSets \subseteq [Roles -> TransportAddress]
ASSUME MessageAssumption    == /\ Messages \subseteq S!Message
                               /\ AuthResponses \subseteq S!AuthResponse
ASSUME AddressAssumption    == /\ ZeroIP \notin IPs
                               /\ 0 \notin Ports
                               /\ Clients \subseteq S!RealAddr

StunMessageIn == [socketrole : Roles, addrLocal : S!RealAddr, addrRemote : Clients,
                  fConnectionOriented : BOOLEAN, msg : Messages]

VARIABLES
    addrSet,                   \* TransportAddressSet, fixed
    pc,                        \* the function about to run
    msgIn, auth,               \* the request and what the provider says of it
    error,                     \* StunErrorCode: errorcode, szRealm, szNonce
    fRequestHasResponsePort,
    integrity,                 \* StunMessageIntegrity: the mechanism to sign with
    msgOut                     \* StunMessageOut: socketrole, addrDest, response

vars == <<addrSet, pc, msgIn, auth, error, fRequestHasResponsePort,
          integrity, msgOut>>

NoError == [errorcode |-> 0, fRealm |-> FALSE, fNonce |-> FALSE]
Empty   == [kind |-> "Silence"]

HasAddress(r) == addrSet[r].fValid
IsIPAddressZeroOrInvalid(r) == ~(HasAddress(r) /\ ~S!IsIPAddressZero(addrSet[r].addr))

Init ==
    /\ addrSet \in AddressSets
    /\ pc = "Idle"
    /\ msgIn = {}
    /\ auth = {}
    /\ error = NoError
    /\ fRequestHasResponsePort = FALSE
    /\ integrity = "None"
    /\ msgOut = {}

-----------------------------------------------------------------------------
(* ProcessRequest                                                          *)

(* A message arrives on a socket the server has, at that socket's address  *)
(* or, if the socket is bound to INADDR_ANY, at any local one.             *)
ArrivesOn(m) ==
    /\ HasAddress(m.socketrole)
    /\ \/ m.addrLocal = addrSet[m.socketrole].addr
       \/ S!IsIPAddressZero(addrSet[m.socketrole].addr)

(* Mutant: the handler object is reused, and signs as the last one did     *)
ProcessRequestReused(m, a) ==
    /\ pc = "Idle"
    /\ ArrivesOn(m)
    /\ m.msg.class # "Invalid"
    /\ msgIn' = {m}
    /\ auth' = {a}
    /\ error' = NoError
    /\ fRequestHasResponsePort' = FALSE
    /\ msgOut' = {[socketrole |-> m.socketrole, addrDest |-> m.addrRemote,
                   response |-> Empty]}
    /\ pc' = "ProcessRequestImpl"
    /\ UNCHANGED <<addrSet, integrity>>

(* The constructor, and ProcessRequest up to its call of ProcessRequestImpl *)
ProcessRequest(m, a) ==
    /\ pc = "Idle"
    /\ ArrivesOn(m)
    /\ m.msg.class # "Invalid"
    /\ msgIn' = {m}
    /\ auth' = {a}
    /\ error' = NoError
    /\ fRequestHasResponsePort' = FALSE
    /\ integrity' = "None"
    /\ msgOut' = {[socketrole |-> m.socketrole, addrDest |-> m.addrRemote,
                   response |-> Empty]}
    /\ pc' = "ProcessRequestImpl"
    /\ UNCHANGED addrSet

(* A message the reader could not validate gets no answer at all           *)
RefuseRequest(m, a) ==
    /\ pc = "Idle"
    /\ ArrivesOn(m)
    /\ m.msg.class = "Invalid"
    /\ msgIn' = {m}
    /\ auth' = {a}
    /\ pc' = "Return"
    /\ UNCHANGED <<addrSet, error, fRequestHasResponsePort, integrity, msgOut>>

(* ProcessRequestImpl ignores what is not a request, and checks the        *)
(* response port and the message type itself                               *)
IgnoreMessage ==
    /\ pc = "ProcessRequestImpl"
    /\ \E m \in msgIn : m.msg.class # "Request"
    /\ pc' = "Return"
    /\ UNCHANGED <<addrSet, msgIn, auth, error, fRequestHasResponsePort,
                   integrity, msgOut>>

ProcessRequestImpl ==
    /\ pc = "ProcessRequestImpl"
    /\ \E m \in msgIn, out \in msgOut :
         LET fPort == m.msg.responsePort # 0
             fBad  == (fPort /\ m.fConnectionOriented) \/ m.msg.type # "Binding"
         IN  /\ m.msg.class = "Request"
             /\ fRequestHasResponsePort' = fPort
             /\ msgOut' = IF fPort /\ ~m.fConnectionOriented
                          THEN {[out EXCEPT !.addrDest.port = m.msg.responsePort]}
                          ELSE msgOut
             /\ error' = IF fBad THEN [error EXCEPT !.errorcode = 400] ELSE error
             /\ pc' = IF fBad THEN "BuildErrorResponse" ELSE "ValidateAuth"
    /\ UNCHANGED <<addrSet, msgIn, auth, integrity>>

(* Mutant: a provider that fails lets the request through                  *)
AuthErrorCodeFailsOpen(m, a) ==
    CASE a.responseType = "StaleNonce"   -> 438
      [] a.responseType = "Unauthorized" -> 401
      [] a.responseType = "Reject"       -> 400
      [] a.responseType = "AllowConditional" ->
            IF m.msg.integrity = a.authCredMech THEN 0 ELSE 401
      [] a.responseType \in {"Allow", "NoProvider", "ProviderFails"} -> 0

(* The error code ValidateAuth leaves behind.  A provider that fails sets  *)
(* none, and ProcessRequestImpl turns that into a 400.                     *)
AuthErrorCode(m, a) ==
    CASE a.responseType = "StaleNonce"   -> 438
      [] a.responseType = "Unauthorized" -> 401
      [] a.responseType \in {"Reject", "ProviderFails"} -> 400
      [] a.responseType = "AllowConditional" ->
            IF m.msg.integrity = a.authCredMech THEN 0 ELSE 401
      [] a.responseType \in {"Allow", "NoProvider"} -> 0

ValidateAuth ==
    /\ pc = "ValidateAuth"
    /\ \E m \in msgIn, a \in auth :
         LET code == AuthErrorCode(m, a) IN
         /\ error' = IF code \in {401, 438}
                     THEN [errorcode |-> code, fRealm |-> a.fRealm, fNonce |-> a.fNonce]
                     ELSE [error EXCEPT !.errorcode = code]
         /\ integrity' = IF a.responseType = "AllowConditional" /\ code = 0
                         THEN a.authCredMech ELSE integrity
         /\ pc' = IF code = 0 THEN "ProcessBindingRequest" ELSE "BuildErrorResponse"
    /\ UNCHANGED <<addrSet, msgIn, auth, fRequestHasResponsePort, msgOut>>

-----------------------------------------------------------------------------
(* ProcessBindingRequest and BuildErrorResponse                            *)

ChangesAddress(m) == m.msg.change.fChangeIP \/ m.msg.change.fChangePort

SocketOutput(m) ==
    LET r == IF m.msg.change.fChangeIP THEN SocketRoleSwapIP(m.socketrole)
                                       ELSE m.socketrole
    IN  IF m.msg.change.fChangePort THEN SocketRoleSwapPort(r) ELSE r

BindingRefused(m) ==
    \/ fRequestHasResponsePort /\ m.msg.fHasPadding
    \/ /\ ChangesAddress(m)
       /\ ~HasAddress(SocketOutput(m)) \/ m.fConnectionOriented

(* Mutant: only the socket that is announced has to exist                  *)
AddrOtherUnchecked(m) ==
    LET socketOther == SocketRoleSwapIP(SocketRoleSwapPort(m.socketrole))
    IN  IF ~IsIPAddressZeroOrInvalid(socketOther)
        THEN addrSet[socketOther].addr ELSE NoAddr

AddrOther(m) ==
    LET socketOther == SocketRoleSwapIP(SocketRoleSwapPort(m.socketrole))
    IN  IF (\A r \in Roles : HasAddress(r)) /\ ~IsIPAddressZeroOrInvalid(socketOther)
        THEN addrSet[socketOther].addr ELSE NoAddr

AddrOrigin(m) ==
    LET addr == addrSet[SocketOutput(m)].addr
    IN  IF ~S!IsIPAddressZero(addr) THEN addr
        ELSE IF SocketOutput(m) = m.socketrole THEN m.addrLocal ELSE NoAddr

RefuseBindingRequest ==
    /\ pc = "ProcessBindingRequest"
    /\ \E m \in msgIn : BindingRefused(m)
    /\ error' = [error EXCEPT !.errorcode = 400]
    /\ pc' = "BuildErrorResponse"
    /\ UNCHANGED <<addrSet, msgIn, auth, fRequestHasResponsePort, integrity, msgOut>>

ProcessBindingRequest ==
    /\ pc = "ProcessBindingRequest"
    /\ \E m \in msgIn, out \in msgOut :
         /\ ~BindingRefused(m)
         /\ msgOut' = {[socketrole |-> SocketOutput(m), addrDest |-> out.addrDest,
                        response |-> [kind |-> "Success", mapped |-> m.addrRemote,
                                      origin |-> AddrOrigin(m), other |-> AddrOther(m),
                                      signed |-> integrity]]}
    /\ pc' = "Return"
    /\ UNCHANGED <<addrSet, msgIn, auth, error, fRequestHasResponsePort, integrity>>

BuildErrorResponse ==
    /\ pc = "BuildErrorResponse"
    /\ \E out \in msgOut :
         msgOut' = {[out EXCEPT !.response =
            [kind |-> "Error", code |-> error.errorcode,
             fNonce |-> error.errorcode \in {401, 438} /\ error.fNonce,
             fRealm |-> error.errorcode \in {401, 438} /\ error.fRealm]]}
    /\ pc' = "Return"
    /\ UNCHANGED <<addrSet, msgIn, auth, error, fRequestHasResponsePort, integrity>>

(* ProcessRequest returns, its caller sends what is in msgOut and forgets  *)
(* the request                                                             *)
Return ==
    /\ pc = "Return"
    /\ pc' = "Idle"
    /\ msgIn' = {} /\ auth' = {} /\ msgOut' = {}
    /\ UNCHANGED <<addrSet, error, fRequestHasResponsePort, integrity>>

Next ==
    \/ \E m \in StunMessageIn, a \in AuthResponses : ProcessRequest(m, a)
    \/ \E m \in StunMessageIn, a \in AuthResponses : RefuseRequest(m, a)
    \/ IgnoreMessage
    \/ ProcessRequestImpl
    \/ ValidateAuth
    \/ RefuseBindingRequest
    \/ ProcessBindingRequest
    \/ BuildErrorResponse
    \/ Return

Spec == Init /\ [][Next]_vars

-----------------------------------------------------------------------------
Responses ==
    {Empty}
    \cup [kind : {"Error"}, code : {400, 401, 438}, fNonce : BOOLEAN, fRealm : BOOLEAN]
    \cup [kind : {"Success"}, mapped : Clients,
          origin : S!Addr \cup {NoAddr}, other : S!Addr \cup {NoAddr},
          signed : {"None", "ShortTerm", "LongTerm"}]

TypeOK ==
    /\ addrSet \in AddressSets
    /\ pc \in {"Idle", "ProcessRequestImpl", "ValidateAuth",
               "ProcessBindingRequest", "BuildErrorResponse", "Return"}
    /\ msgIn \in SUBSET StunMessageIn
    /\ auth \in SUBSET AuthResponses
    /\ error \in [errorcode : {0, 400, 401, 438}, fRealm : BOOLEAN, fNonce : BOOLEAN]
    /\ fRequestHasResponsePort \in BOOLEAN
    /\ integrity \in {"None", "ShortTerm", "LongTerm"}
    /\ msgOut \in SUBSET [socketrole : Roles, addrDest : S!RealAddr,
                          response : Responses]

Successes == {out \in msgOut : out.response.kind = "Success"}

(* No way around the provider: a success goes only to a request it allows, *)
(* it is signed only with the credentials that request itself proved to    *)
(* know, and is never unsigned if they were asked for, whatever the        *)
(* requests handled before left in the handler.                            *)
SuccessIsAuthorised ==
    \A out \in Successes, m \in msgIn, a \in auth :
        /\ a.responseType \in {"NoProvider", "Allow", "AllowConditional"}
        /\ a.responseType = "AllowConditional" =>
              out.response.signed = a.authCredMech /\ m.msg.integrity = a.authCredMech
        /\ a.responseType # "AllowConditional" => out.response.signed = "None"

(* A client that is told another address can run all its tests against it: *)
(* it is the real address of an open socket, and no later change request   *)
(* over UDP can be refused for want of a socket.                           *)
OtherAddressUsable ==
    \A out \in Successes :
        out.response.other # NoAddr =>
            /\ ~S!IsIPAddressZero(out.response.other)
            /\ \E r \in Roles : HasAddress(r) /\ addrSet[r].addr = out.response.other
            /\ \A m \in StunMessageIn : HasAddress(SocketOutput(m))

(* stunauth.h of a verdict's realm and nonce: "Ignored if _authCredMech is *)
(* not AuthCredLongTerm".  A client that knows only short-term credentials *)
(* is then never sent into a long-term exchange by a 401 or 438.           *)
ChallengeIsLongTerm ==
    \A out \in msgOut, a \in auth :
        out.response.kind = "Error" /\ (out.response.fRealm \/ out.response.fNonce) =>
            a.authCredMech = "LongTerm"

-----------------------------------------------------------------------------
(* The promise, kept                                                       *)

SocketOf(r) == [ip   |-> IF r < 2 THEN "Primary" ELSE "Alternate",
                port |-> IF r % 2 = 0 THEN "Primary" ELSE "Alternate"]
RoleOf(s)   == (IF s.ip = "Primary" THEN 0 ELSE 2) + (IF s.port = "Primary" THEN 0 ELSE 1)

RequestOf(m, a) ==
    [socket |-> SocketOf(m.socketrole), addrLocal |-> m.addrLocal,
     addrRemote |-> m.addrRemote, fConnectionOriented |-> m.fConnectionOriented,
     msg |-> m.msg, auth |-> a]

AnswerOf(out) ==
    IF out.response.kind = "Silence" THEN S!NoAnswer
    ELSE [from |-> SocketOf(out.socketrole), to |-> out.addrDest,
          response |-> out.response]

AbstractSockets == {s \in S!Socket : HasAddress(RoleOf(s))}
AbstractAddrs   == [s \in S!Socket |-> addrSet[RoleOf(s)].addr]
AbstractPending == IF pc \in {"Idle", "Return"} THEN {}
                   ELSE {RequestOf(m, a) : m \in msgIn, a \in auth}
AbstractAnswer  == IF pc # "Return" \/ msgOut = {} THEN S!NoAnswer
                   ELSE AnswerOf(CHOOSE out \in msgOut : TRUE)

Service == INSTANCE StunService WITH
    sockets <- AbstractSockets, addrs <- AbstractAddrs,
    pending <- AbstractPending, answer <- AbstractAnswer

(* Each request is answered as the service promises, from the request and  *)
(* the sockets alone: no earlier request, and no order of the handler's    *)
(* own steps, can be seen in an answer.                                    *)
ImplementsService == Service!Spec
=============================================================================
