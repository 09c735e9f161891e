------------------------ MODULE TcpClientLoop_proofs ------------------------
(***************************************************************************)
(* What the TCP client reports of a NAT, for every set of addresses and    *)
(* ports, every clock and every server.                                    *)
(***************************************************************************)
EXTENDS TcpClientLoop, StunClientLogic_proofs

(* There is a socket whose request has not been answered yet               *)
InLoop == loop \in {"GetNextMessage", "Result", "Send", "Receive"}

(* The ports of the sockets whose requests may have been answered: none of *)
(* them is the current one's, if each socket has a port of its own         *)
Earlier == IF localport = 0 /\ InLoop THEN portsUsed \ {stunsocket} ELSE portsUsed

Connection ==
    /\ portsUsed \subseteq LocalPorts
    /\ localport # 0 => portsUsed \subseteq {localport}
    /\ InLoop => stunsocket \in portsUsed
    /\ loop = "Receive" => \A p \in request : SentFrom(p, stunsocket)
    /\ now \in 0 .. ClockModulus - 1

TcpInv == IInv /\ WorldOK /\ Connection /\ Evidence(Earlier, localport = 0)

-----------------------------------------------------------------------------
LEMMA TcpStart == \A c \in Configs : c.addrServer = DestOf("test1")
BY CommandLineAssumption DEF TcpConfigs, CreateConfigFromCommandLine, DestOf

LEMMA InitTcpInv == TcpInit => TcpInv
<1> SUFFICES ASSUME TcpInit
             PROVE  TcpInv
  OBVIOUS
<1>1. IInv
  BY InitIInv DEF TcpInit
<1>2. /\ results = InitResults /\ answered = {} /\ spMsg = {} /\ ~fInitialized
      /\ transid = [t \in Tests |-> NoTid]
      /\ nat \in Nats /\ sockets \in Servers
      /\ portsUsed = {} /\ request = {} /\ loop = "Start" /\ now = 0
  BY DEF TcpInit, Init
<1>3. WorldOK
  BY <1>2, WorldAssumption, ServerAssumption DEF WorldOK, InitResults
<1>4. Connection
  BY <1>2, ClockAssumption DEF Connection, InLoop
<1>5. Evidence(Earlier, localport = 0)
  <2>1. PICK l : l \in LocalPorts
    BY WorldAssumption
  <2> DEFINE port == [t \in MappingTests |-> l]
  <2>2. port \in [MappingTests -> LocalPorts]
    BY <2>1
  <2>3. ~results.fBindingTestSuccess
    BY <1>2 DEF InitResults
  <2> HIDE DEF port
  <2>4. QED
    BY <1>2, <2>2, <2>3 DEF Evidence
<1>6. QED
  BY <1>1, <1>3, <1>4, <1>5 DEF TcpInv

(* The same evidence, of a set of ports that is written out                *)
LEMMA SameEvidence ==
    ASSUME NEW P, NEW own \in BOOLEAN, P = Earlier, own <=> localport = 0
    PROVE  Evidence(P, own) <=> Evidence(Earlier, localport = 0)
BY DEF Evidence

LEMMA EvidenceGrows ==
    ASSUME NEW P, NEW own \in BOOLEAN, Evidence(P, own)',
           P \subseteq Earlier', own <=> localport' = 0
    PROVE  Evidence(Earlier, localport = 0)'
<1>1. PICK port \in [MappingTests -> LocalPorts] :
          /\ \A t \in MappingTests \cap answered' : port[t] \in P
          /\ own => \A t, u \in MappingTests \cap answered' :
                       port[t] = port[u] => t = u
          /\ results'.fBindingTestSuccess =>
                /\ results'.addrLocal = LocalAddr(port["test1"])
                /\ results'.addrMapped = Mapped(port["test1"], DestOf("test1"))'
          /\ "behavior2" \in answered' =>
                results'.addrMappingAP = Mapped(port["behavior2"], DestOf("behavior2"))'
          /\ "behavior3" \in answered' =>
                results'.addrMappingAA = Mapped(port["behavior3"], DestOf("behavior3"))'
  BY DEF Evidence
<1>2. QED
  BY <1>1 DEF Evidence

-----------------------------------------------------------------------------
(* The steps that accept no response                                       *)
Silent ==
    \/ \E c \in Configs : Initialize(c)
    \/ \E t \in 0 .. ClockModulus - 1 : CallGetNextMessage(t)
    \/ GetNextMessageStep
    \/ \E m \in Response : RejectResponse(m)
    \/ UNCHANGED vars

LEMMA SilentInv ==
    ASSUME TcpInv, Silent, UNCHANGED fixedVars, Earlier \subseteq Earlier'
    PROVE  (IInv /\ WorldOK /\ Evidence(Earlier, localport = 0))'
<1>1. IInv'
  BY StepIInv DEF Silent, Next, GetNextMessageStep, TcpInv
<1>2. PICK P : P = Earlier
  OBVIOUS
<1>3. PICK own \in BOOLEAN : own <=> localport = 0
  OBVIOUS
<1>4. Evidence(P, own)
  BY <1>2, <1>3, SameEvidence DEF TcpInv
<1>5. \/ \E c \in Configs : Initialize(c) /\ c.addrServer = DestOf("test1")
      \/ \E t \in 0 .. ClockModulus - 1 : CallGetNextMessage(t)
      \/ GetNextMessageStep
      \/ \E m \in Response : RejectResponse(m)
      \/ UNCHANGED vars
  BY TcpStart DEF Silent
<1>6. WorldOK' /\ Evidence(P, own)'
  BY <1>1, <1>4, <1>5, SilentStep DEF TcpInv, fixedVars
<1>7. Evidence(Earlier, localport = 0)'
  BY <1>2, <1>3, <1>6, EvidenceGrows DEF fixedVars
<1>8. QED
  BY <1>1, <1>6, <1>7

(* Everything but Send and Receive                                         *)
LEMMA OwnSteps ==
    ASSUME TcpInv,
           \/ Start \/ TCPInit \/ SystemCallFails \/ CallLogic \/ LogicStep
           \/ Break \/ StillWaiting \/ HasRequest \/ ReceiveNoSuccess \/ UNCHANGED tcpVars
    PROVE  TcpInv'
<1>1. /\ UNCHANGED fixedVars
      /\ Silent
  <2>1. CASE Start
    BY <2>1 DEF Start, Silent
  <2>2. CASE CallLogic
    BY <2>2 DEF CallLogic, Silent, TcpInv, Connection
  <2>3. CASE LogicStep
    BY <2>3 DEF LogicStep, Silent
  <2>4. CASE ReceiveNoSuccess
    BY <2>4 DEF ReceiveNoSuccess, Silent, Response
  <2>5. CASE TCPInit \/ SystemCallFails \/ Break \/ StillWaiting \/ HasRequest
                \/ UNCHANGED tcpVars
    BY <2>5 DEF TCPInit, SystemCallFails, Break, StillWaiting, HasRequest, Silent, tcpVars
  <2>6. QED
    BY <2>1, <2>2, <2>3, <2>4, <2>5
<1>2. Connection' /\ Earlier \subseteq Earlier'
  <2> USE DEF TcpInv, Connection, Earlier, InLoop
  <2>1. CASE TCPInit
    BY <2>1 DEF TCPInit, fixedVars
  <2>2. CASE Start
    BY <2>2 DEF Start, fixedVars
  <2>3. CASE SystemCallFails
    BY <2>3 DEF SystemCallFails, fixedVars
  <2>4. CASE CallLogic
    BY <2>4 DEF CallLogic, fixedVars
  <2>5. CASE LogicStep
    BY <2>5 DEF LogicStep, fixedVars
  <2>6. CASE Break
    BY <2>6 DEF Break, Returned, fixedVars
  <2>7. CASE StillWaiting
    BY <2>7 DEF StillWaiting, Returned, fixedVars
  <2>8. CASE HasRequest
    BY <2>8 DEF HasRequest, Returned, fixedVars
  <2>9. CASE ReceiveNoSuccess
    BY <2>9 DEF ReceiveNoSuccess, TimePasses, fixedVars
  <2>10. CASE UNCHANGED tcpVars
    <3>1. \A p, l : SentFrom(p, l)' <=> SentFrom(p, l)
      BY <2>10 DEF SentFrom, Mapped, tcpVars, fixedVars
    <3>2. QED
      BY <2>10, <3>1 DEF tcpVars, fixedVars
  <2>11. QED
    BY <2>1, <2>2, <2>3, <2>4, <2>5, <2>6, <2>7, <2>8, <2>9, <2>10
<1>3. QED
  BY <1>1, <1>2, SilentInv DEF TcpInv

LEMMA SendStep ==
    ASSUME TcpInv, Send
    PROVE  TcpInv'
<1>1. /\ Silent /\ UNCHANGED fixedVars /\ Earlier' = Earlier
  BY DEF Send, Silent, Earlier, InLoop, fixedVars
<1>2. PICK m \in spMsg :
        request' = {[src |-> Mapped(stunsocket, m.dest), dst |-> m.dest, msg |-> m]}
  BY DEF Send
<1>3. PICK l : l = stunsocket
  OBVIOUS
<1>4. SentFrom([src |-> Mapped(l, m.dest), dst |-> m.dest, msg |-> m], l)
  BY RequestSent DEF TcpInv
<1>5. \A p \in request' : SentFrom(p, l)
  BY <1>2, <1>3, <1>4
<1>6. \A p : SentFrom(p, l) => SentFrom(p, stunsocket)'
  BY <1>3 DEF Send, SentFrom, Mapped, fixedVars
<1>7. Connection'
  BY <1>5, <1>6 DEF TcpInv, Connection, InLoop, Send, TimePasses, fixedVars
<1>8. QED
  BY <1>1, <1>7, SilentInv DEF TcpInv

(* The response of the current connection joins the evidence of the        *)
(* earlier ones.                                                           *)
LEMMA ReceiveStep ==
    ASSUME TcpInv, Receive
    PROVE  TcpInv'
<1>0. PICK p \in request : \E a \in Answers(p, TRUE) :
                               ProcessResponse(a.msg, LocalAddr(stunsocket))
  BY DEF Receive
<1>1. PICK a \in Answers(p, TRUE) : ProcessResponse(a.msg, LocalAddr(stunsocket))
  BY <1>0
<1>2. PICK l : l = stunsocket
  OBVIOUS
<1>3. PICK m : m = a.msg
  OBVIOUS
<1>4. /\ l \in LocalPorts /\ l \in portsUsed /\ SentFrom(p, l)
  BY <1>2 DEF Receive, TcpInv, Connection, InLoop
<1>5. Faithful(m, l)
  BY <1>3, <1>4, AnswerFaithful DEF TcpInv
<1>6. m \in Response
  BY <1>5 DEF Faithful
<1>7. UNCHANGED fixedVars /\ Connection' /\ Earlier' = portsUsed
  BY DEF Receive, TimePasses, TcpInv, Connection, Earlier, InLoop, fixedVars
<1>8. CASE RejectResponse(m)
  <2>1. Silent /\ Earlier \subseteq Earlier'
    BY <1>6, <1>7, <1>8 DEF Silent, Earlier
  <2>2. QED
    BY <1>7, <2>1, SilentInv DEF TcpInv
<1>9. CASE AcceptResponse(m, LocalAddr(l))
  <2>1. IInv'
    <3>1. LocalAddr(l) \in RealAddr
      BY <1>4, WorldAssumption DEF LocalAddr, RealAddr
    <3>2. QED
      BY <1>6, <1>9, <3>1, StepIInv DEF Next, TcpInv
  <2>2. PICK P : P = Earlier
    OBVIOUS
  <2>3. PICK own \in BOOLEAN : own <=> localport = 0
    OBVIOUS
  <2>4. Evidence(P, own)
    BY <2>2, <2>3, SameEvidence DEF TcpInv
  <2>5. own => l \notin P
    BY <1>2, <2>2, <2>3 DEF Receive, Earlier, InLoop
  <2>6. WorldOK' /\ Evidence(P \cup {l}, own)'
    BY <1>4, <1>5, <1>7, <1>9, <2>4, <2>5, AcceptedStep DEF TcpInv, fixedVars
  <2>7. P \cup {l} \subseteq Earlier'
    BY <1>4, <1>7, <2>2 DEF Earlier
  <2>8. Evidence(Earlier, localport = 0)'
    BY <1>7, <2>3, <2>6, <2>7, EvidenceGrows DEF fixedVars
  <2>9. QED
    BY <1>7, <2>1, <2>6, <2>8 DEF TcpInv
<1>10. QED
  BY <1>1, <1>2, <1>3, <1>8, <1>9 DEF ProcessResponse

LEMMA StepTcpInv == TcpInv /\ [TcpNext]_tcpVars => TcpInv'
<1> SUFFICES ASSUME TcpInv, [TcpNext]_tcpVars
             PROVE  TcpInv'
  OBVIOUS
<1>1. CASE \/ Start \/ TCPInit \/ SystemCallFails \/ CallLogic \/ LogicStep
           \/ Break \/ StillWaiting \/ HasRequest \/ ReceiveNoSuccess
           \/ UNCHANGED tcpVars
  BY <1>1, OwnSteps
<1>2. CASE Send
  BY <1>2, SendStep
<1>3. CASE Receive
  BY <1>3, ReceiveStep
<1>4. QED
  BY <1>1, <1>2, <1>3 DEF TcpNext, Stopped

LEMMA TcpInductive == TcpSpec => []TcpInv
<1>1. QED
  BY InitTcpInv, StepTcpInv, PTL DEF TcpSpec

-----------------------------------------------------------------------------
LEMMA TcpMappingFollows == TcpInv => TcpMappingSound
<1> SUFFICES ASSUME TcpInv, results.fBehaviorTestSuccess
             PROVE  /\ localport # 0 => results.behavior = nat.mapping
                    /\ localport = 0 /\ nat.mapping = "Direct" => results.behavior = "Direct"
                    /\ localport = 0 /\ nat.mapping # "Direct" =>
                          results.behavior = "AddressAndPortDependent"
  BY DEF TcpMappingSound
<1>1. PICK P : P = Earlier
  OBVIOUS
<1>2. PICK own \in BOOLEAN : own <=> localport = 0
  OBVIOUS
<1>3. Evidence(P, own)
  BY <1>1, <1>2, SameEvidence DEF TcpInv
<1>4. PICK l : l = localport
  OBVIOUS
<1>5. localport # 0 => P \subseteq {l}
  BY <1>1, <1>4 DEF TcpInv, Connection, Earlier
<1>6. /\ P \subseteq {l} => results.behavior = nat.mapping
      /\ nat.mapping = "Direct" => results.behavior = "Direct"
      /\ own /\ nat.mapping # "Direct" => results.behavior = "AddressAndPortDependent"
  BY <1>3, MappingFollows DEF TcpInv
<1>7. QED
  BY <1>2, <1>5, <1>6

LEMMA DirectFollows == TcpInv => DirectIsDirect
<1> SUFFICES ASSUME TcpInv, results.fBindingTestSuccess
             PROVE  /\ results.fIsDirect <=> nat.mapping = "Direct"
                    /\ \E l \in LocalPorts :
                          /\ results.addrLocal = LocalAddr(l)
                          /\ results.addrMapped = Mapped(l, config.addrServer)
  BY DEF DirectIsDirect
<1>1. PICK l \in LocalPorts : /\ results.addrLocal = LocalAddr(l)
                              /\ results.addrMapped = Mapped(l, DestOf("test1"))
  BY DEF TcpInv, Evidence, MappingTests
<1>2. fInitialized
  BY DEF TcpInv, IInv, Setup, InitResults
<1>3. config.addrServer = DestOf("test1") /\ nat \in NatClass
  BY <1>2 DEF TcpInv, WorldOK
<1>4. results.fIsDirect <=> results.addrMapped = results.addrLocal
  BY DEF TcpInv, IInv, Binding
<1>5. "test1" \in Tests
  BY DEF Tests
<1>6. results.fIsDirect <=> nat.mapping = "Direct"
  BY <1>1, <1>3, <1>4, <1>5, DirectIsSeen
<1>7. QED
  BY <1>1, <1>3, <1>6

(* With a local port of the user's the TCP client (TcpClientLoop) never    *)
(* reports a mapping class that is not the NAT's; with new ports for every *)
(* test it reports the class that these imitate.                           *)
THEOREM TcpMappingIsSound == TcpSpec => []TcpMappingSound
<1>1. QED
  BY TcpInductive, TcpMappingFollows, PTL

(* `Direct' is what TcpClientLoop says of a connection that is direct, and *)
(* of no other: it compares two views of one and the same socket.          *)
THEOREM DirectIsRight == TcpSpec => []DirectIsDirect
<1>1. QED
  BY TcpInductive, DirectFollows, PTL

-----------------------------------------------------------------------------
(* Complete results.  While every request has been answered with success,  *)
(* the only one without an answer is the one on the connection.            *)

Pending == loop \in {"Send", "Receive"} \/ Returned("S_OK")

(* A request of the current test, which has nothing yet                    *)
AsksCurrent(m) ==
    /\ m.tid = CurrentTest
    /\ m.changeIP <=> m.tid = "filtering2"
    /\ m.changePort <=> m.tid \in {"filtering2", "filtering3"}

Served ==
    /\ answeredAll /\ loop # "Failed" =>
          \A t \in Tests : requests[t] > 0 => t \in answered \/ (Pending /\ t = CurrentTest)
    /\ Pending => /\ HasCurrentTest /\ ~fCompleted[CurrentTest] /\ fInitialized
                  /\ transid[CurrentTest] = CurrentTest
                  /\ \A m \in spMsg : AsksCurrent(m)
    /\ loop = "Receive" => \A p \in request : AsksCurrent(p.msg)
    /\ results.fBindingTestSuccess /\ sockets = Server!Socket => results.fHasOtherAddress
    /\ Returned("RESULTS_READY") \/ loop = "Done" => fInitialized /\ ~HasCurrentTest
    /\ answeredAll => ~Returned("STILL_WAITING")

ServedInv == TcpInv /\ Served

(* The server answers a test that asks for no change with success          *)
LEMMA AnswerSucceeds ==
    ASSUME WorldOK, NEW p, NEW l \in LocalPorts, SentFrom(p, l),
           ~p.msg.changeIP, ~p.msg.changePort, NEW a \in Answers(p, TRUE)
    PROVE  /\ a.msg.tid = p.msg.tid /\ a.msg.mapped # NoAddr
           /\ sockets = Server!Socket => a.msg.other # NoAddr
<1>1. PICK s \in sockets : ServerAddr(s) = p.dst /\ a = ResponseTo(s, p, TRUE)
  BY DEF Answers
<1>2. s \in Server!Socket
  BY <1>1 DEF WorldOK
<1> DEFINE addrs    == [t \in Server!Socket |-> ServerAddr(t)]
           req      == RequestAt(s, p, TRUE)
           answer   == Server!Answer(req, sockets, addrs, Server!NoChallenge)
           opposite == [ip |-> Server!Other(s.ip), port |-> Server!Other(s.port)]
<1>3. /\ a.msg.tid = p.msg.tid
      /\ answer.response.kind = "Success" => /\ a.msg.mapped = answer.response.mapped
                                             /\ a.msg.other = answer.response.other
  BY <1>1 DEF ResponseTo
<1>4. /\ req.msg.class = "Request" /\ req.msg.type = "Binding" /\ req.msg.responsePort = 0
      /\ req.socket = s /\ req.addrRemote = p.src
      /\ req.auth.responseType = "NoProvider"
      /\ ~req.msg.change.fChangeIP /\ ~req.msg.change.fChangePort
  BY DEF RequestAt
<1> HIDE DEF req
<1>5. Server!Sender(req) = s
  BY <1>2, <1>4 DEF Server!Sender, Server!Socket
<1>6. Server!AuthError(req) = 0
  BY <1>4 DEF Server!AuthError
<1>7. Server!ErrorCode(req, sockets) = 0
  BY <1>4, <1>5, <1>6 DEF Server!ErrorCode, Server!Malformed, Server!Impossible
<1>8. /\ answer.response.kind = "Success" /\ answer.response.mapped = p.src
      /\ answer.response.other = Server!OtherAddress(req, sockets, addrs)
  BY <1>4, <1>7 DEF Server!Answer
<1> HIDE DEF answer
<1>9. p.src \in RealAddr
  BY <1>1, MappedPort DEF SentFrom, WorldOK
<1>10. opposite \in Server!Socket
  BY <1>2 DEF Server!Socket, Server!Side, Server!Other
<1>11. ServerAddr(opposite) \in RealAddr
  BY WorldAssumption DEF ServerAddr, RealAddr
<1>12. sockets = Server!Socket => Server!OtherAddress(req, sockets, addrs) = ServerAddr(opposite)
  BY <1>4, <1>10, <1>11, AddressAssumption
  DEF Server!OtherAddress, Server!IsIPAddressZero, RealAddr
<1>13. \A x \in RealAddr : x # NoAddr
  BY AddressAssumption, RealIsSent
<1>14. QED
  BY <1>3, <1>8, <1>9, <1>11, <1>12, <1>13

-----------------------------------------------------------------------------
LEMMA InitServed == TcpInit => ServedInv
<1> SUFFICES ASSUME TcpInit
             PROVE  ServedInv
  OBVIOUS
<1>1. TcpInv
  BY InitTcpInv
<1>2. /\ loop = "Start" /\ ~results.fBindingTestSuccess
      /\ \A t \in Tests : ~(requests[t] > 0)
  BY DEF TcpInit, Init, InitResults
<1>3. QED
  BY <1>1, <1>2 DEF ServedInv, Served, Pending, Returned

(* The steps that leave the logic alone, or end the program                *)
LEMMA QuietServed ==
    ASSUME ServedInv, TcpInv',
           \/ TCPInit \/ SystemCallFails \/ Break \/ StillWaiting \/ HasRequest \/ Send
           \/ UNCHANGED tcpVars
    PROVE  ServedInv'
<1>1. UNCHANGED vars /\ UNCHANGED <<sockets, answeredAll>>
  BY DEF TCPInit, SystemCallFails, Break, StillWaiting, HasRequest, Send, tcpVars, fixedVars
<1>2. /\ requests' = requests /\ answered' = answered /\ results' = results
      /\ fInitialized' = fInitialized /\ fCompleted' = fCompleted /\ transid' = transid
      /\ spMsg' = spMsg /\ pc' = pc /\ hr' = hr
      /\ CurrentTest' = CurrentTest
      /\ HasCurrentTest' <=> HasCurrentTest
  BY <1>1 DEF vars, logicVars, callVars, history, CurrentTest, HasCurrentTest
<1>3. \A m : AsksCurrent(m) => AsksCurrent(m)'
  <2>1. CurrentTest' = CurrentTest
    BY <1>2
  <2>2. QED
    BY <2>1, Zenon DEF AsksCurrent
<1> USE DEF ServedInv, Served, Pending, Returned
<1>4. CASE TCPInit
  BY <1>1, <1>2, <1>3, <1>4 DEF TCPInit
<1>5. CASE SystemCallFails
  BY <1>1, <1>2, <1>3, <1>5 DEF SystemCallFails
<1>6. CASE Break
  BY <1>1, <1>2, <1>3, <1>6 DEF Break
<1>7. CASE StillWaiting
  BY <1>1, <1>2, <1>3, <1>7 DEF StillWaiting
<1>8. CASE HasRequest
  BY <1>1, <1>2, <1>3, <1>8 DEF HasRequest
<1>9. CASE Send
  BY <1>1, <1>2, <1>3, <1>9 DEF Send
<1>10. CASE UNCHANGED tcpVars
  BY <1>1, <1>2, <1>3, <1>10 DEF tcpVars
<1>11. QED
  BY <1>4, <1>5, <1>6, <1>7, <1>8, <1>9, <1>10

(* The steps of the logic up to the next request                           *)
LEMMA LogicServed ==
    ASSUME ServedInv, TcpInv', Start \/ CallLogic \/ LogicStep
    PROVE  ServedInv'
<1> USE DEF ServedInv
<1>1. /\ answered' = answered
      /\ results'.fHasOtherAddress = results.fHasOtherAddress
      /\ results'.fBindingTestSuccess => results.fBindingTestSuccess
      /\ UNCHANGED <<sockets, answeredAll>>
  <2>1. Silent
    BY DEF Start, CallLogic, LogicStep, Silent, TcpInv, Connection
  <2>2. QED
    BY <2>1, SilentKeeps DEF Silent, TcpInv, Start, CallLogic, LogicStep, fixedVars
<1>2. CASE Start
  <2>1. requests' = requests /\ loop = "Start" /\ loop' = "TCPInit"
    BY <1>2 DEF Start, Initialize, history
  <2>2. QED
    BY <1>1, <2>1 DEF Served, Pending, Returned
<1>3. CASE CallLogic
  <2>1. /\ requests' = requests /\ pc' = "next"
        /\ loop = "GetNextMessage" /\ loop' = "Result"
    BY <1>3 DEF CallLogic, CallGetNextMessage, history
  <2>2. QED
    BY <1>1, <2>1 DEF Served, Pending, Returned
<1>4. CASE LogicStep
  <2>1. /\ loop = "Result" /\ loop' = "Result" /\ pc = "next" /\ ~Pending
        /\ fInitialized
    BY <1>4
    DEF LogicStep, GetNextMessageStep, ResultsReady, PreRunCheck, NextTest, KeepWaiting,
        NotifyTimeout, SendRequest, InTest, Pending, Returned, TcpInv, IInv, Setup
  <2>2. answeredAll => \A t \in Tests : requests[t] > 0 => t \in answered
    BY <2>1 DEF Served
  <2>3. CASE PreRunCheck \/ NextTest \/ NotifyTimeout
    <3>1. requests' = requests /\ pc' = "next"
      BY <2>1, <2>3 DEF PreRunCheck, NextTest, NotifyTimeout, callVars, history
    <3>2. QED
      BY <1>1, <2>1, <2>2, <3>1 DEF Served, Pending, Returned
  <2>4. CASE ResultsReady
    <3>1. /\ requests' = requests /\ hr' = "RESULTS_READY" /\ ~HasCurrentTest' /\ fInitialized'
      BY <2>1, <2>4 DEF ResultsReady, Return, history, logicVars, HasCurrentTest
    <3>2. QED
      BY <1>1, <2>1, <2>2, <3>1 DEF Served, Pending, Returned
  <2>5. CASE KeepWaiting
    <3>1. /\ requests' = requests /\ hr' = "STILL_WAITING" /\ HasCurrentTest
          /\ ~fCompleted[CurrentTest] /\ sendCount # 0
      BY <2>5 DEF KeepWaiting, Return, history, InTest, IsReadyToRun, InWait
    <3>2. /\ CurrentTest \in Tests /\ requests[CurrentTest] = sendCount
          /\ CurrentTest \notin answered /\ sendCount \in Nat
      BY <3>1, CurrentTestType DEF TcpInv, IInv, TypeOK, Progress, IsCurrent
    <3>3. ~answeredAll
      BY <2>2, <3>1, <3>2
    <3>4. QED
      BY <1>1, <2>1, <3>1, <3>3 DEF Served, Pending, Returned
  <2>6. CASE SendRequest
    <3>1. CurrentTest \in Tests /\ InTest /\ IsReadyToRun(CurrentTest)
      BY <2>6, CurrentTestType DEF SendRequest, InTest, TcpInv, IInv
    <3>2. /\ requests' = [requests EXCEPT ![CurrentTest] = @ + 1]
          /\ spMsg' = {GetMessage(CurrentTest)}
          /\ pc' = "idle" /\ hr' = "S_OK"
          /\ fCompleted' = fCompleted /\ fInitialized' = fInitialized
          /\ CurrentTest' = CurrentTest /\ HasCurrentTest'
          /\ transid' = [transid EXCEPT ![CurrentTest] = IF @ = NoTid THEN CurrentTest ELSE @]
      BY <2>6, <3>1 DEF SendRequest, InTest, Return, CurrentTest, HasCurrentTest
    <3>3. transid'[CurrentTest] = CurrentTest
      BY <3>1, <3>2 DEF TcpInv, WorldOK, IInv, TypeOK
    <3>4. ~fCompleted'[CurrentTest]
      BY <3>1, <3>2 DEF IsReadyToRun
    <3>5. \A m \in spMsg' : AsksCurrent(m)'
      <4>1. AsksCurrent(GetMessage(CurrentTest))
        BY DEF AsksCurrent, GetMessage
      <4>2. \A m : AsksCurrent(m) => AsksCurrent(m)'
        <5>1. CurrentTest' = CurrentTest
          BY <3>2
        <5>2. QED
          BY <5>1, Zenon DEF AsksCurrent
      <4>3. QED
        BY <3>2, <4>1, <4>2
    <3>6. Pending'
      BY <2>1, <3>2 DEF Pending, Returned
    <3>7. answeredAll => \A t \in Tests : requests'[t] > 0 => t \in answered \/ t = CurrentTest'
      BY <2>2, <3>1, <3>2 DEF TcpInv, IInv, TypeOK
    <3>8. QED
      BY <1>1, <2>1, <3>2, <3>3, <3>4, <3>5, <3>6, <3>7 DEF Served, Returned
  <2>7. QED
    BY <1>4, <2>3, <2>4, <2>5, <2>6 DEF LogicStep, GetNextMessageStep
<1>5. QED
  BY <1>2, <1>3, <1>4

(* A success is accepted; after anything else nothing is promised          *)
LEMMA ReceiveServed ==
    ASSUME ServedInv, TcpInv', Receive \/ ReceiveNoSuccess
    PROVE  ServedInv'
<1> USE DEF ServedInv
<1>1. loop' = "TCPInit" /\ loop = "Receive" /\ UNCHANGED sockets
  BY DEF Receive, ReceiveNoSuccess, fixedVars
<1>2. CASE ReceiveNoSuccess
  <2>1. ~answeredAll' /\ results' = results
    BY <1>2 DEF ReceiveNoSuccess, RejectResponse, logicVars
  <2>2. QED
    BY <1>1, <2>1 DEF Served, Pending, Returned
<1>3. CASE Receive
  <2>1. PICK p \in request : \E a \in Answers(p, TRUE) :
                                ProcessResponse(a.msg, LocalAddr(stunsocket))
    BY <1>3 DEF Receive
  <2>2. PICK a \in Answers(p, TRUE) : ProcessResponse(a.msg, LocalAddr(stunsocket))
    BY <2>1
  <2>3. PICK l : l = stunsocket
    OBVIOUS
  <2>4. l \in LocalPorts /\ SentFrom(p, l)
    BY <1>1, <2>3 DEF TcpInv, Connection, InLoop
  <2>5. /\ AsksCurrent(p.msg) /\ HasCurrentTest /\ ~fCompleted[CurrentTest]
        /\ transid[CurrentTest] = CurrentTest
    BY <1>1 DEF Served, Pending
  <2>6. Faithful(a.msg, l) /\ a.msg.tid = CurrentTest
    <3>1. Faithful(a.msg, l)
      BY <2>4, AnswerFaithful DEF TcpInv
    <3>2. PICK s \in sockets : a = ResponseTo(s, p, TRUE)
      BY DEF Answers
    <3>3. a.msg.tid = p.msg.tid
      BY <3>2 DEF ResponseTo
    <3>4. QED
      BY <2>5, <3>1, <3>3 DEF AsksCurrent
  <2>7. CurrentTest \notin {"filtering2", "filtering3"} =>
           /\ a.msg.mapped # NoAddr
           /\ sockets = Server!Socket => a.msg.other # NoAddr
    BY <2>4, <2>5, AnswerSucceeds DEF AsksCurrent, TcpInv
  <2>8. Accepts(CurrentTest, a.msg)
    BY <2>5, <2>6, <2>7 DEF Accepts
  <2>9. AcceptResponse(a.msg, LocalAddr(stunsocket))
    BY <2>2, <2>5, <2>8 DEF ProcessResponse, RejectResponse, CanProcess
  <2>10. /\ answered' = answered \cup {CurrentTest} /\ requests' = requests
         /\ results' = ResponseResults(CurrentTest, a.msg, LocalAddr(stunsocket))
         /\ results \in Results /\ CurrentTest \in Tests
         /\ answeredAll' = answeredAll
    BY <1>3, <2>9, <2>5, CurrentTestType DEF AcceptResponse, Receive, TcpInv, IInv, TypeOK
  <2>11. results'.fBindingTestSuccess /\ sockets' = Server!Socket => results'.fHasOtherAddress
    <3>1. CASE CurrentTest = "test1"
      <4>1. results' = BindingResults(a.msg, LocalAddr(stunsocket))
        BY <2>10, <3>1 DEF ResponseResults
      <4>2. a.msg.other # NoAddr => results'.fHasOtherAddress
        BY <2>10, <4>1 DEF BindingResults, Results
      <4>3. QED
        BY <1>1, <2>7, <3>1, <4>2
    <3>2. CASE CurrentTest # "test1"
      <4>1. /\ results'.fHasOtherAddress = results.fHasOtherAddress
            /\ results'.fBindingTestSuccess = results.fBindingTestSuccess
        BY <2>10, <3>2
        DEF ResponseResults, Behavior2Results, Behavior3Results, Filtering2Results,
            Filtering3Results, Results, Tests
      <4>2. QED
        BY <1>1, <4>1 DEF Served
    <3>3. QED
      BY <3>1, <3>2
  <2>12. QED
    BY <1>1, <2>10, <2>11 DEF Served, Pending, Returned
<1>4. QED
  BY <1>2, <1>3

LEMMA StepServed == ServedInv /\ [TcpNext]_tcpVars => ServedInv'
<1> SUFFICES ASSUME ServedInv, [TcpNext]_tcpVars
             PROVE  ServedInv'
  OBVIOUS
<1>1. TcpInv'
  BY StepTcpInv DEF ServedInv
<1>2. CASE \/ TCPInit \/ SystemCallFails \/ Break \/ StillWaiting \/ HasRequest \/ Send
           \/ UNCHANGED tcpVars
  BY <1>1, <1>2, QuietServed
<1>3. CASE Start \/ CallLogic \/ LogicStep
  BY <1>1, <1>3, LogicServed
<1>4. CASE Receive \/ ReceiveNoSuccess
  BY <1>1, <1>4, ReceiveServed
<1>5. QED
  BY <1>2, <1>3, <1>4 DEF TcpNext, Stopped

(* Whatever is missing at the end has used up its attempts                 *)
LEMMA ServedFollows == ServedInv => ResultsUnlessFailure
<1> SUFFICES ASSUME ServedInv, answeredAll, loop \notin {"Start", "Failed"}
             PROVE  /\ ~Returned("STILL_WAITING")
                    /\ loop = "Done" => results.fBindingTestSuccess
                    /\ loop = "Done" /\ config.fBehaviorTest /\ sockets = Server!Socket =>
                          results.fBehaviorTestSuccess
  BY DEF ResultsUnlessFailure
<1>1. ~Returned("STILL_WAITING")
  BY DEF ServedInv, Served
<1>2. ASSUME loop = "Done"
      PROVE  /\ results.fBindingTestSuccess
             /\ config.fBehaviorTest /\ sockets = Server!Socket => results.fBehaviorTestSuccess
  <2>1. fInitialized /\ ~HasCurrentTest /\ ~Pending
    BY <1>2 DEF ServedInv, Served, Pending, Returned
  <2>2. \A t \in Tests : ~Exhausted(t)
    <3>1. \A t \in Tests : requests[t] > 0 => t \in answered
      BY <1>2, <2>1 DEF ServedInv, Served
    <3>2. config.uMaxAttempts > 0
      BY <2>1 DEF ServedInv, TcpInv, IInv, Setup
    <3>3. QED
      BY <3>1, <3>2 DEF Exhausted
  <2>3. ConclusiveAtEnd
    BY ConclusiveAtEndFollows DEF ServedInv, TcpInv
  <2>4. results.fBindingTestSuccess
    BY <2>1, <2>2, <2>3 DEF ConclusiveAtEnd, Tests
  <2>5. sockets = Server!Socket => results.fHasOtherAddress
    BY <2>4 DEF ServedInv, Served
  <2>6. "behavior2" \in answered => ~IsIPAddressZero(results.addrMappingAP)
    <3>1. (localport = 0) \in BOOLEAN
      OBVIOUS
    <3>2. QED
      BY <3>1, MappingNotZero DEF ServedInv, TcpInv
  <2>7. QED
    BY <2>1, <2>2, <2>3, <2>4, <2>5, <2>6 DEF ConclusiveAtEnd, Tests
<1>3. QED
  BY <1>1, <1>2

(* A server that answers every request with success leads TcpClientLoop to *)
(* a complete result, at whatever speed, unless a system call fails: the   *)
(* return that its assertion excludes does not happen then.                *)
THEOREM ServedMeansComplete == TcpSpec => []ResultsUnlessFailure
<1>1. QED
  BY InitServed, StepServed, ServedFollows, PTL DEF TcpSpec
=============================================================================
