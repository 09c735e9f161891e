---------------------------- MODULE StunService ----------------------------
(***************************************************************************)
(* What a STUN server with up to four sockets promises its clients: one    *)
(* answer per request, decided by the request and the sockets alone.       *)
(* CStunRequestHandler (messagehandler.cpp) implements it, which module    *)
(* StunMessageHandler shows; the client loops are composed with it.        *)
(*                                                                         *)
(* A socket is named by the side, primary or alternate, its IP address     *)
(* and its port belong to.                                                 *)
(***************************************************************************)
EXTENDS Naturals

CONSTANTS IPs, Ports, ZeroIP, NoAddr

RealAddr == [ip : IPs, port : Ports]
Addr     == RealAddr \cup [ip : {ZeroIP}, port : Ports]
IsIPAddressZero(a) == a.ip = ZeroIP

Side     == {"Primary", "Alternate"}
Socket   == [ip : Side, port : Side]
Other(s) == IF s = "Primary" THEN "Alternate" ELSE "Primary"

ChangeRequest == [fChangeIP : BOOLEAN, fChangePort : BOOLEAN]

(* What the handler reads of a message.  `integrity' says with which       *)
(* credentials its MESSAGE-INTEGRITY attribute validates, if any.          *)
Message == [class : {"Request", "Indication", "Invalid"},
            type : {"Binding", "SharedSecret"},
            responsePort : Ports \cup {0}, fHasPadding : BOOLEAN,
            change : ChangeRequest,
            integrity : {"None", "ShortTerm", "LongTerm"}]

(* The verdict of the authentication provider, "NoProvider" without one    *)
AuthResponse == [responseType : {"NoProvider", "ProviderFails", "Allow",
                                 "AllowConditional", "StaleNonce", "Reject",
                                 "Unauthorized"},
                 authCredMech : {"ShortTerm", "LongTerm"},
                 fRealm : BOOLEAN, fNonce : BOOLEAN]

Request == [socket : Socket, addrLocal : RealAddr, addrRemote : RealAddr,
            fConnectionOriented : BOOLEAN, msg : Message, auth : AuthResponse]

NoAnswer == [response |-> [kind |-> "Silence"]]

-----------------------------------------------------------------------------
(* The promise                                                             *)

Destination(req) ==
    IF req.msg.responsePort # 0 /\ ~req.fConnectionOriented
    THEN [req.addrRemote EXCEPT !.port = req.msg.responsePort]
    ELSE req.addrRemote

Sender(req) ==
    [ip   |-> IF req.msg.change.fChangeIP   THEN Other(req.socket.ip)   ELSE req.socket.ip,
     port |-> IF req.msg.change.fChangePort THEN Other(req.socket.port) ELSE req.socket.port]

Malformed(req) ==
    \/ req.msg.type # "Binding"
    \/ req.fConnectionOriented /\ req.msg.responsePort # 0

AuthError(req) ==
    CASE req.auth.responseType = "StaleNonce"   -> 438
      [] req.auth.responseType = "Unauthorized" -> 401
      [] req.auth.responseType = "AllowConditional" ->
            IF req.msg.integrity = req.auth.authCredMech THEN 0 ELSE 401
      [] req.auth.responseType \in {"Reject", "ProviderFails"} -> 400
      [] OTHER -> 0

(* Sockets is the set of sockets the server has, addrs their addresses     *)
Impossible(req, sockets) ==
    \/ req.msg.responsePort # 0 /\ req.msg.fHasPadding
    \/ /\ Sender(req) # req.socket
       /\ req.fConnectionOriented \/ Sender(req) \notin sockets

ErrorCode(req, sockets) ==
    IF Malformed(req) THEN 400
    ELSE IF AuthError(req) # 0 THEN AuthError(req)
    ELSE IF Impossible(req, sockets) THEN 400 ELSE 0

Origin(req, addrs) ==
    IF ~IsIPAddressZero(addrs[Sender(req)]) THEN addrs[Sender(req)]
    ELSE IF Sender(req) = req.socket THEN req.addrLocal
    ELSE NoAddr

(* The address opposite to the one the request came in on, announced only  *)
(* by a server that could answer from all four                             *)
OtherAddress(req, sockets, addrs) ==
    LET opposite == [ip |-> Other(req.socket.ip), port |-> Other(req.socket.port)]
    IN  IF sockets = Socket /\ ~IsIPAddressZero(addrs[opposite])
        THEN addrs[opposite] ELSE NoAddr

(* The realm and nonce a 401 or 438 challenges the client with are those   *)
(* the provider gave.  stunauth.h has them ignored for any mechanism but   *)
(* AuthCredLongTerm; the service leaves open whether they are.             *)
NoChallenge == [fNonce |-> FALSE, fRealm |-> FALSE]

Challenges(req, sockets) ==
    LET given == [fNonce |-> req.auth.fNonce, fRealm |-> req.auth.fRealm]
    IN  IF ErrorCode(req, sockets) \notin {401, 438} THEN {NoChallenge}
        ELSE IF req.auth.authCredMech = "LongTerm" THEN {given}
        ELSE {NoChallenge, given}

Answer(req, sockets, addrs, challenge) ==
    LET code == ErrorCode(req, sockets) IN
    IF req.msg.class # "Request" THEN NoAnswer
    ELSE IF code # 0
    THEN [from |-> req.socket, to |-> Destination(req), response |->
            [kind |-> "Error", code |-> code,
             fNonce |-> challenge.fNonce, fRealm |-> challenge.fRealm]]
    ELSE [from |-> Sender(req), to |-> Destination(req), response |->
            [kind |-> "Success", mapped |-> req.addrRemote,
             origin |-> Origin(req, addrs),
             other |-> OtherAddress(req, sockets, addrs),
             signed |-> IF req.auth.responseType = "AllowConditional"
                        THEN req.auth.authCredMech ELSE "None"]]

-----------------------------------------------------------------------------
(* The server as a state machine                                           *)

VARIABLES sockets, addrs, pending, answer

vars == <<sockets, addrs, pending, answer>>

Init ==
    /\ sockets \in SUBSET Socket
    /\ addrs \in [Socket -> Addr]
    /\ pending = {}
    /\ answer = NoAnswer

Receive ==
    /\ pending = {} /\ answer = NoAnswer
    /\ \E req \in pending' : pending' = {req} /\ req \in Request /\ req.socket \in sockets
    /\ UNCHANGED <<sockets, addrs, answer>>

Reply ==
    /\ \E req \in pending : \E challenge \in Challenges(req, sockets) :
          answer' = Answer(req, sockets, addrs, challenge)
    /\ pending' = {}
    /\ UNCHANGED <<sockets, addrs>>

Send ==
    /\ pending = {}
    /\ answer' = NoAnswer
    /\ UNCHANGED <<sockets, addrs, pending>>

Next == Receive \/ Reply \/ Send

Spec == Init /\ [][Next]_vars
=============================================================================
