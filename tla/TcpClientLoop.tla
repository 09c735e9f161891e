--------------------------- MODULE TcpClientLoop ---------------------------
(***************************************************************************)
(* TcpClientLoop (clientmain.cpp): one connection per request, each on a   *)
(* new socket bound to the local port the user gave or, if he gave none,   *)
(* to one the system picks; connect, send and recv block.                  *)
(***************************************************************************)
EXTENDS StunWorld

CONSTANT LocalPortOptions   \* the --localport options, 0 for none

ASSUME TcpAssumption == 0 \notin LocalPorts /\ LocalPortOptions \subseteq LocalPorts \cup {0}

ASSUME CommandLineAssumption == Configs \subseteq TcpConfigs

VARIABLES
    loop,        \* where TcpClientLoop is
    now,         \* GetMillisecondCounter, in ticks
    localport,   \* socketconfig.addrLocal: the port to bind to, 0 for any
    stunsocket,  \* the local port of the socket, 0 when it is closed
    portsUsed,   \* the local ports earlier sockets had
    request,     \* the request on the connection, {} before there is one
    answeredAll  \* history: each response so far was a success response

fixedVars == <<nat, sockets, localport>>
tcpVars   == <<vars, loop, now, stunsocket, portsUsed, request, answeredAll, fixedVars>>

(* Time may pass in a blocking call                                        *)
TimePasses == now' \in 0 .. ClockModulus - 1

TcpInit ==
    /\ Init
    /\ loop = "Start"
    /\ now = 0
    /\ stunsocket = 0
    /\ portsUsed = {}
    /\ request = {}
    /\ answeredAll = TRUE
    /\ localport \in LocalPortOptions
    /\ nat \in Nats
    /\ sockets \in Servers

Start ==
    /\ loop = "Start"
    /\ \E c \in Configs : Initialize(c)
    /\ loop' = "TCPInit"
    /\ UNCHANGED <<now, stunsocket, portsUsed, request, answeredAll, fixedVars>>

(* stunsocket.Close and TCPInit: the port the user gave, or one that none  *)
(* of the earlier connections, which linger, occupies                      *)
TCPInit ==
    /\ loop = "TCPInit"
    /\ \E l \in LocalPorts :
         /\ IF localport = 0 THEN l \notin portsUsed ELSE l = localport
         /\ stunsocket' = l
         /\ portsUsed' = portsUsed \cup {l}
    /\ loop' = "GetNextMessage"
    /\ request' = {}
    /\ UNCHANGED <<vars, now, answeredAll, fixedVars>>

(* A socket that cannot be created, connected, written to or read from     *)
(* ends the program without results                                        *)
SystemCallFails ==
    /\ loop \in {"TCPInit", "Send", "Receive"}
    /\ loop' = "Failed"
    /\ stunsocket' = 0
    /\ UNCHANGED <<vars, now, portsUsed, request, answeredAll, fixedVars>>

CallLogic ==
    /\ loop = "GetNextMessage"
    /\ CallGetNextMessage(now)
    /\ loop' = "Result"
    /\ UNCHANGED <<now, stunsocket, portsUsed, request, answeredAll, fixedVars>>

LogicStep ==
    /\ loop = "Result"
    /\ GetNextMessageStep
    /\ UNCHANGED <<loop, now, stunsocket, portsUsed, request, answeredAll, fixedVars>>

Returned(code) == loop = "Result" /\ pc = "idle" /\ hr = code

Break ==
    /\ Returned("RESULTS_READY")
    /\ loop' = "Done"
    /\ stunsocket' = 0
    /\ UNCHANGED <<vars, now, portsUsed, request, answeredAll, fixedVars>>

(* The assertion that this does not happen; built without it the program   *)
(* ends without results                                                    *)
StillWaiting ==
    /\ Returned("STILL_WAITING")
    /\ loop' = "Failed"
    /\ stunsocket' = 0
    /\ UNCHANGED <<vars, now, portsUsed, request, answeredAll, fixedVars>>

HasRequest ==
    /\ Returned("S_OK")
    /\ loop' = "Send"
    /\ UNCHANGED <<vars, now, stunsocket, portsUsed, request, answeredAll, fixedVars>>

(* connect, and the loop of send                                           *)
Send ==
    /\ loop = "Send"
    /\ \E m \in spMsg :
         request' = {[src |-> Mapped(stunsocket, m.dest), dst |-> m.dest, msg |-> m]}
    /\ TimePasses
    /\ loop' = "Receive"
    /\ UNCHANGED <<vars, stunsocket, portsUsed, answeredAll, fixedVars>>

(* Mutant: the local address is the one the socket was to be bound to      *)
ReceiveConfiguredAddr ==
    /\ loop = "Receive"
    /\ \E p \in request : \E a \in Answers(p, TRUE) :
         ProcessResponse(a.msg, LocalAddr(localport))
    /\ TimePasses
    /\ loop' = "TCPInit"
    /\ UNCHANGED <<stunsocket, portsUsed, request, answeredAll, fixedVars>>

(* The loop of recv, and ProcessResponse                                   *)
Receive ==
    /\ loop = "Receive"
    /\ \E p \in request : \E a \in Answers(p, TRUE) :
         ProcessResponse(a.msg, LocalAddr(stunsocket))
    /\ TimePasses
    /\ loop' = "TCPInit"
    /\ UNCHANGED <<stunsocket, portsUsed, request, answeredAll, fixedVars>>

(* The server answers with an error, which has no mapped address, or it    *)
(* closes the connection early: then recv returns 0 and ProcessResponse is *)
(* given a part of a message, or the request still in the buffer.  None of *)
(* them has what a test wants.                                             *)
ReceiveNoSuccess ==
    /\ loop = "Receive"
    /\ \E tid \in Tests \cup {ForeignTid} :
         RejectResponse([tid |-> tid, mapped |-> NoAddr, other |-> NoAddr])
    /\ answeredAll' = FALSE
    /\ TimePasses
    /\ loop' = "TCPInit"
    /\ UNCHANGED <<stunsocket, portsUsed, request, fixedVars>>

Stopped == loop \in {"Done", "Failed"} /\ UNCHANGED tcpVars

LoopStep == Start \/ TCPInit \/ CallLogic \/ LogicStep \/ Break \/ StillWaiting
                \/ HasRequest \/ Send \/ Receive

TcpNext ==
    \/ Start \/ TCPInit \/ SystemCallFails \/ CallLogic \/ LogicStep
    \/ Break \/ StillWaiting \/ HasRequest
    \/ Send \/ Receive \/ ReceiveNoSuccess
    \/ Stopped

(* The process runs, and a server that has accepted a connection answers   *)
(* or closes it: recv has no timeout of its own                            *)
TcpSpec == TcpInit /\ [][TcpNext]_tcpVars /\ WF_tcpVars(LoopStep)

-----------------------------------------------------------------------------
(* The local address in the results is that of the connection whose answer *)
(* gave the mapped address, so that `direct' compares two views of one     *)
(* socket although every test has its own.                                 *)
DirectIsDirect ==
    results.fBindingTestSuccess =>
        /\ results.fIsDirect <=> nat.mapping = "Direct"
        /\ \E l \in LocalPorts :
              /\ results.addrLocal = LocalAddr(l)
              /\ results.addrMapped = Mapped(l, config.addrServer)

(* With a local port of the user's, a mapping class is never reported      *)
(* unless it is the NAT's.  Without one each test has a mapping of its own *)
(* and any NAT but a direct connection looks dependent on address and port. *)
TcpMappingSound ==
    results.fBehaviorTestSuccess =>
        IF localport # 0 THEN results.behavior = nat.mapping
        ELSE results.behavior = (IF nat.mapping = "Direct" THEN "Direct"
                                 ELSE "AddressAndPortDependent")

(* A server that answers every request leads to a complete result, however *)
(* slow it is: nothing but a failing system call stands in the way.        *)
ResultsUnlessFailure ==
    (answeredAll /\ loop \notin {"Start", "Failed"}) =>
        /\ ~Returned("STILL_WAITING")
        /\ loop = "Done" => results.fBindingTestSuccess
        /\ (loop = "Done" /\ config.fBehaviorTest /\ sockets = Server!Socket) =>
              results.fBehaviorTestSuccess

(* clientmain.cpp: "we should never get a `still waiting' return with TCP" *)
NeverStillWaiting == ~Returned("STILL_WAITING")

Terminates == <>(loop \in {"Done", "Failed"})
=============================================================================
