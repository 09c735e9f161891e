------------------------ MODULE UdpClientLoop_proofs ------------------------
(***************************************************************************)
(* What the UDP client reports of a NAT, for every set of addresses, every *)
(* clock, every server and every network: its mapping and its filtering,   *)
(* whatever is lost, late, duplicated or out of order; how long it waits;  *)
(* and that it misses nothing where nothing is lost.                       *)
(***************************************************************************)
EXTENDS UdpClientLoop, StunClientLogic_proofs

(* Whatever is in flight says the truth, however old it is                 *)
Network ==
    /\ \A p \in toServer : SentFrom(p, 1)
    /\ \A p \in toClient : Faithful(p.msg, 1)

UdpInv == /\ IInv /\ WorldOK /\ Network /\ Evidence({1}, FALSE)
          /\ now \in 0 .. ClockModulus - 1

-----------------------------------------------------------------------------
LEMMA UdpStart == \A c \in Configs : c.addrServer = DestOf("test1")
BY CommandLineAssumption DEF UdpConfigs, CreateConfigFromCommandLine, DestOf

LEMMA InitUdpInv == UdpInit => UdpInv
<1> SUFFICES ASSUME UdpInit
             PROVE  UdpInv
  OBVIOUS
<1>1. IInv
  BY InitIInv DEF UdpInit
<1>2. /\ results = InitResults /\ answered = {} /\ spMsg = {} /\ ~fInitialized
      /\ transid = [t \in Tests |-> NoTid]
      /\ nat \in Nats /\ sockets \in Servers
      /\ toServer = {} /\ toClient = {} /\ now \in 0 .. ClockModulus - 1
  BY UdpAssumption DEF UdpInit, Init
<1>3. WorldOK
  BY <1>2, WorldAssumption, ServerAssumption DEF WorldOK, InitResults
<1>4. Evidence({1}, FALSE)
  <2> DEFINE port == [t \in MappingTests |-> 1]
  <2>1. port \in [MappingTests -> LocalPorts]
    BY UdpAssumption
  <2>2. ~results.fBindingTestSuccess
    BY <1>2 DEF InitResults
  <2> HIDE DEF port
  <2>3. QED
    BY <1>2, <2>1, <2>2 DEF Evidence
<1>5. QED
  BY <1>1, <1>2, <1>3, <1>4 DEF UdpInv, Network

(* What is in flight stays true as long as the NAT is the same             *)
LEMMA NetworkStep ==
    ASSUME UNCHANGED nat
    PROVE  /\ \A p : SentFrom(p, 1) <=> SentFrom(p, 1)'
           /\ \A m : Faithful(m, 1) <=> Faithful(m, 1)'
BY DEF SentFrom, Faithful, Mapped

-----------------------------------------------------------------------------
(* The steps that accept no response                                       *)
Silent ==
    \/ \E c \in Configs : Initialize(c)
    \/ \E t \in 0 .. ClockModulus - 1 : CallGetNextMessage(t)
    \/ GetNextMessageStep
    \/ \E m \in Response : RejectResponse(m)
    \/ UNCHANGED vars

LEMMA SilentInv ==
    ASSUME UdpInv, Silent, UNCHANGED fixedVars
    PROVE  (IInv /\ WorldOK /\ Evidence({1}, FALSE))'
<1>1. IInv'
  BY StepIInv DEF Silent, Next, GetNextMessageStep, UdpInv
<1>2. \/ \E c \in Configs : Initialize(c) /\ c.addrServer = DestOf("test1")
      \/ \E t \in 0 .. ClockModulus - 1 : CallGetNextMessage(t)
      \/ GetNextMessageStep
      \/ \E m \in Response : RejectResponse(m)
      \/ UNCHANGED vars
  BY UdpStart DEF Silent
<1>3. WorldOK' /\ Evidence({1}, FALSE)'
  BY <1>1, <1>2, SilentStep DEF UdpInv, fixedVars
<1>4. QED
  BY <1>1, <1>3

(* The steps of the loop that leave the network alone, and those of time   *)
LEMMA OwnSteps ==
    ASSUME UdpInv,
           \/ Start \/ CallLogic \/ LogicStep \/ StillWaiting \/ Break
           \/ SelectTimeout \/ ClockSet \/ UNCHANGED udpVars
    PROVE  UdpInv'
<1>1. UNCHANGED fixedVars /\ UNCHANGED <<toServer, toClient>>
  BY DEF Start, CallLogic, LogicStep, StillWaiting, Break, SelectTimeout, ClockSet,
         udpVars, worldVars, fixedVars
<1>2. Silent
  <2>1. CASE Start
    BY <2>1 DEF Start, Silent
  <2>2. CASE CallLogic
    BY <2>2 DEF CallLogic, Silent, UdpInv
  <2>3. CASE LogicStep
    BY <2>3 DEF LogicStep, Silent
  <2>4. CASE StillWaiting \/ Break \/ SelectTimeout \/ ClockSet \/ UNCHANGED udpVars
    BY <2>4 DEF StillWaiting, Break, SelectTimeout, ClockSet, udpVars, Silent
  <2>5. QED
    BY <2>1, <2>2, <2>3, <2>4
<1>3. now' \in 0 .. ClockModulus - 1
  <2>1. CASE SelectTimeout
    <3>1. HalfSecond \in Nat
      BY ClockAssumption DEF HalfSecond
    <3>2. QED
      BY <2>1, <3>1, ClockAssumption DEF SelectTimeout, UdpInv
  <2>2. CASE ClockSet
    BY <2>2 DEF ClockSet
  <2>3. CASE UNCHANGED now
    BY <2>3 DEF UdpInv
  <2>4. QED
    BY <2>1, <2>2, <2>3 DEF Start, CallLogic, LogicStep, StillWaiting, Break, udpVars
<1>4. Network'
  BY <1>1, NetworkStep DEF UdpInv, Network, fixedVars
<1>5. QED
  BY <1>1, <1>2, <1>3, <1>4, SilentInv DEF UdpInv

(* Requests that are sent, and answers of the server                       *)
LEMMA NetworkSteps ==
    ASSUME UdpInv, Sendto \/ ServerAnswers \/ NatDrops
    PROVE  UdpInv'
<1>1. UNCHANGED fixedVars /\ Silent /\ UNCHANGED now
  BY DEF Sendto, ServerAnswers, NatDrops, Silent, fixedVars
<1>2. /\ \A p \in toServer' : SentFrom(p, 1)
      /\ \A p \in toClient' : Faithful(p.msg, 1)
  <2>1. CASE Sendto
    <3>1. \A m \in spMsg :
            SentFrom([src |-> Mapped(1, m.dest), dst |-> m.dest, msg |-> m], 1)
      BY RequestSent DEF UdpInv
    <3>2. QED
      BY <2>1, <3>1 DEF Sendto, UdpInv, Network
  <2>2. CASE ServerAnswers
    <3>1. PICK p \in toServer : /\ toServer' = toServer \ {p}
                                /\ toClient' = toClient \cup Answers(p, FALSE)
      BY <2>2 DEF ServerAnswers
    <3>2. \A a \in Answers(p, FALSE) : Faithful(a.msg, 1)
      BY UdpAssumption, AnswerFaithful DEF UdpInv, Network
    <3>3. QED
      BY <3>1, <3>2 DEF UdpInv, Network
  <2>3. CASE NatDrops
    BY <2>3 DEF NatDrops, UdpInv, Network
  <2>4. QED
    BY <2>1, <2>2, <2>3
<1>3. Network'
  BY <1>1, <1>2, NetworkStep DEF Network, fixedVars
<1>4. QED
  BY <1>1, <1>3, SilentInv DEF UdpInv

(* A response that is accepted is one more view of the one socket          *)
LEMMA ReceiveStep ==
    ASSUME UdpInv, ReceiveDatagram
    PROVE  UdpInv'
<1>1. PICK p \in toClient : ProcessResponse(p.msg, LocalAddr(1))
  BY DEF ReceiveDatagram
<1>2. /\ UNCHANGED fixedVars /\ now' = now /\ toServer' = toServer
      /\ toClient' \subseteq toClient
  BY DEF ReceiveDatagram, fixedVars
<1>3. Network'
  BY <1>2, NetworkStep DEF UdpInv, Network, fixedVars
<1>4. Faithful(p.msg, 1) /\ p.msg \in Response
  BY DEF UdpInv, Network, Faithful
<1>5. CASE RejectResponse(p.msg)
  BY <1>2, <1>3, <1>4, <1>5, SilentInv DEF Silent, UdpInv
<1>6. CASE AcceptResponse(p.msg, LocalAddr(1))
  <2>1. LocalAddr(1) \in RealAddr /\ 1 \in LocalPorts
    BY UdpAssumption, WorldAssumption DEF LocalAddr, RealAddr
  <2>2. IInv'
    BY <1>4, <1>6, <2>1, StepIInv DEF Next, UdpInv
  <2>3. WorldOK' /\ Evidence({1} \cup {1}, FALSE)'
    BY <1>2, <1>4, <1>6, <2>1, AcceptedStep DEF UdpInv, fixedVars
  <2>4. {1} \cup {1} = {1}
    OBVIOUS
  <2>5. Evidence({1}, FALSE)'
    BY <2>3, <2>4
  <2>6. QED
    BY <1>2, <1>3, <2>2, <2>3, <2>5 DEF UdpInv
<1>7. QED
  BY <1>1, <1>5, <1>6 DEF ProcessResponse

LEMMA StepUdpInv == UdpInv /\ [UdpNext]_udpVars => UdpInv'
<1> SUFFICES ASSUME UdpInv, [UdpNext]_udpVars
             PROVE  UdpInv'
  OBVIOUS
<1>1. CASE \/ Start \/ CallLogic \/ LogicStep \/ StillWaiting \/ Break
           \/ SelectTimeout \/ ClockSet \/ UNCHANGED udpVars
  BY <1>1, OwnSteps
<1>2. CASE Sendto \/ ServerAnswers \/ NatDrops
  BY <1>2, NetworkSteps
<1>3. CASE ReceiveDatagram
  BY <1>3, ReceiveStep
<1>4. QED
  BY <1>1, <1>2, <1>3 DEF UdpNext, Stopped

LEMMA UdpInductive == UdpSpec => []UdpInv
<1>1. QED
  BY InitUdpInv, StepUdpInv, PTL DEF UdpSpec

-----------------------------------------------------------------------------
(* The UDP client (UdpClientLoop, CBehaviorTest) never reports a class of  *)
(* mapping that is not the NAT's, whatever becomes of the datagrams and    *)
(* whatever is done to the clock.                                          *)
THEOREM MappingIsSound == UdpSpec => []MappingSound
<1>1. UdpInv => MappingSound
  BY MappingFollows DEF UdpInv, MappingSound
<1>2. QED
  BY <1>1, UdpInductive, PTL

-----------------------------------------------------------------------------
(* What is printed.  The loop is over only when the list of tests is, and  *)
(* an answer to behavior2 was possible only with another address to ask.   *)
OverAtEnd == Returned("RESULTS_READY") \/ loop = "Done" => fInitialized /\ ~HasCurrentTest

OtherWasKnown == "behavior2" \in answered => results.fHasOtherAddress

ReportInv == UdpInv /\ OverAtEnd /\ OtherWasKnown

LEMMA LogicOver ==
    ASSUME UdpInv, LogicStep
    PROVE  OverAtEnd'
<1>1. loop = "Result" /\ loop' = "Result"
  BY DEF LogicStep
<1>2. pc = "next" /\ fInitialized /\ fInitialized' = fInitialized
  BY DEF LogicStep, GetNextMessageStep, ResultsReady, PreRunCheck, NextTest, KeepWaiting,
         NotifyTimeout, SendRequest, InTest, UdpInv, IInv, Setup, logicVars
<1>3. CASE ResultsReady
  BY <1>1, <1>2, <1>3 DEF ResultsReady, logicVars, HasCurrentTest, OverAtEnd
<1>4. CASE PreRunCheck \/ NextTest \/ NotifyTimeout
  BY <1>1, <1>2, <1>4 DEF PreRunCheck, NextTest, NotifyTimeout, callVars, Returned, OverAtEnd
<1>5. CASE KeepWaiting \/ SendRequest
  BY <1>1, <1>5 DEF KeepWaiting, SendRequest, Return, Returned, OverAtEnd
<1>6. QED
  BY <1>3, <1>4, <1>5 DEF LogicStep, GetNextMessageStep

LEMMA StepOver ==
    ASSUME UdpInv, OverAtEnd, [UdpNext]_udpVars
    PROVE  OverAtEnd'
<1>1. CASE LogicStep
  BY <1>1, LogicOver
<1>2. CASE Start \/ CallLogic \/ ReceiveDatagram
  BY <1>2 DEF Start, CallLogic, CallGetNextMessage, ReceiveDatagram, Returned, OverAtEnd
<1>3. CASE \/ Sendto \/ StillWaiting \/ Break \/ SelectTimeout \/ ClockSet
           \/ ServerAnswers \/ NatDrops \/ UNCHANGED udpVars
  <2>1. UNCHANGED <<logicVars, callVars>>
    BY <1>3 DEF Sendto, StillWaiting, Break, SelectTimeout, ClockSet, ServerAnswers, NatDrops,
                udpVars, vars
  <2>2. Returned("RESULTS_READY")' \/ loop' = "Done" => Returned("RESULTS_READY") \/ loop = "Done"
    BY <1>3, <2>1
    DEF Sendto, StillWaiting, Break, SelectTimeout, ClockSet, ServerAnswers, NatDrops, udpVars,
        callVars, Returned
  <2>3. QED
    BY <2>1, <2>2 DEF OverAtEnd, logicVars, HasCurrentTest
<1>4. QED
  BY <1>1, <1>2, <1>3 DEF UdpNext, Stopped

LEMMA StepOther ==
    ASSUME UdpInv, OtherWasKnown, [UdpNext]_udpVars
    PROVE  OtherWasKnown'
<1>1. CASE Silent
  <2>1. answered' = answered /\ results'.fHasOtherAddress = results.fHasOtherAddress
    BY <1>1, SilentKeeps DEF Silent, UdpInv
  <2>2. QED
    BY <2>1 DEF OtherWasKnown
<1>2. CASE ReceiveDatagram
  <2>1. PICK p \in toClient : ProcessResponse(p.msg, LocalAddr(1))
    BY <1>2 DEF ReceiveDatagram
  <2>2. p.msg \in Response
    BY DEF UdpInv, Network, Faithful
  <2>3. CASE RejectResponse(p.msg)
    BY <1>1, <2>2, <2>3 DEF Silent
  <2>4. CASE AcceptResponse(p.msg, LocalAddr(1))
    <3>1. /\ CurrentTest \in Tests
          /\ CurrentTest = "test1" => answered \cap MappingTests = {}
          /\ CurrentTest # "test1" => results.fHasOtherAddress
      BY <2>2, <2>4, AcceptedBy DEF UdpInv
    <3>2. /\ results' = ResponseResults(CurrentTest, p.msg, LocalAddr(1)) /\ results \in Results
          /\ answered' = answered \cup {CurrentTest}
      BY <2>4 DEF AcceptResponse, UdpInv, IInv, TypeOK
    <3>3. CASE CurrentTest = "test1"
      BY <3>1, <3>2, <3>3 DEF OtherWasKnown, MappingTests
    <3>4. CASE CurrentTest # "test1"
      <4>1. results'.fHasOtherAddress = results.fHasOtherAddress
        BY <3>1, <3>2, <3>4
        DEF ResponseResults, Behavior2Results, Behavior3Results, Filtering2Results,
            Filtering3Results, Results, Tests
      <4>2. QED
        BY <3>1, <3>4, <4>1 DEF OtherWasKnown
    <3>5. QED
      BY <3>3, <3>4
  <2>5. QED
    BY <2>1, <2>3, <2>4 DEF ProcessResponse
<1>3. CASE Start \/ CallLogic \/ LogicStep
  BY <1>1, <1>3 DEF Start, CallLogic, LogicStep, Silent, UdpInv
<1>4. CASE \/ Sendto \/ StillWaiting \/ Break \/ SelectTimeout \/ ClockSet
           \/ ServerAnswers \/ NatDrops \/ UNCHANGED udpVars
  BY <1>1, <1>4
  DEF Sendto, StillWaiting, Break, SelectTimeout, ClockSet, ServerAnswers, NatDrops, udpVars,
      Silent
<1>5. QED
  BY <1>2, <1>3, <1>4 DEF UdpNext, Stopped

(* A behaviour test that succeeded had a connection without translation or *)
(* an answer to behavior2; with either the filtering tests could run.      *)
LEMMA BehaviorThenFiltering ==
    ASSUME ReportInv, loop = "Done", config.fFilteringTest, results.fBehaviorTestSuccess
    PROVE  results.fFilteringTestSuccess
<1>1. IInv /\ fInitialized /\ ~HasCurrentTest /\ OtherWasKnown
  BY DEF ReportInv, UdpInv, OverAtEnd
<1>2. results.fBindingTestSuccess /\ fCompleted["behavior2"]
  BY <1>1 DEF IInv, BehaviorTests
<1>3. results.fIsDirect \/ "behavior2" \in answered
  BY <1>1, <1>2 DEF IInv, BehaviorTests, Binding, BehaviorEvidence, TypeOK, Results, Behavior
<1>4. QED
  BY <1>1, <1>2, <1>3, ConclusiveAtEndFollows DEF ConclusiveAtEnd, OtherWasKnown

(* DumpResults (clientmain.cpp) prints the filtering verdict that was      *)
(* found, unless the behaviour test failed, whose flag it asks for; then   *)
(* it prints "fail".  It never prints a class that was not concluded.      *)
THEOREM DumpIsHonest == UdpSpec => []DumpMatchesResults
<1>1. UdpInit => ReportInv
  <2> SUFFICES ASSUME UdpInit
               PROVE  ReportInv
    OBVIOUS
  <2>1. loop = "Start" /\ answered = {}
    BY DEF UdpInit, Init
  <2>2. QED
    BY <2>1, InitUdpInv DEF ReportInv, OverAtEnd, OtherWasKnown, Returned
<1>2. ReportInv /\ [UdpNext]_udpVars => ReportInv'
  BY StepUdpInv, StepOver, StepOther DEF ReportInv
<1>3. ReportInv => DumpMatchesResults
  <2> SUFFICES ASSUME ReportInv, loop = "Done", config.fFilteringTest
               PROVE  IF DumpedByWrongFlag THEN DumpResults.filtering = "fail"
                      ELSE DumpResults.filtering = (IF results.fFilteringTestSuccess
                                                    THEN results.filtering ELSE "fail")
    BY DEF DumpMatchesResults
  <2>1. DumpResults.filtering = IF results.fBehaviorTestSuccess THEN results.filtering ELSE "fail"
    BY DEF DumpResults
  <2>2. results.fBehaviorTestSuccess => results.fFilteringTestSuccess
    BY BehaviorThenFiltering
  <2>3. QED
    BY <2>1, <2>2 DEF DumpedByWrongFlag
<1>4. QED
  BY <1>1, <1>2, <1>3, PTL DEF UdpSpec

-----------------------------------------------------------------------------
(* Filtering.  Only a request of behavior3 can open a filter for the       *)
(* address that filtering2 is answered from, and it is sent only behind a  *)
(* mapping through which that answer does not come.                        *)

Translates == nat.mapping # "Direct"

(* On a direct connection the filtering tests are not sent: the pre-run    *)
(* check of filtering2 has concluded                                       *)
NotAskedWhenDirect ==
    DirectPath => requests["filtering2"] = 0 /\ requests["filtering3"] = 0

ThirdNeeded == Mapped(1, DestOf("behavior2")) # Mapped(1, DestOf("test1"))

(* A request asks for the change its test is about                         *)
Asked(m) ==
    /\ m \in Request
    /\ m.changeIP <=> m.tid = "filtering2"
    /\ m.changePort <=> m.tid \in {"filtering2", "filtering3"}
    /\ m.tid = "behavior3" => ThirdNeeded

(* An answer to a filtering test comes from where it was asked to come     *)
CameFrom(p) ==
    /\ p.msg.other # NoAddr => sockets = Server!Socket
    /\ sockets = Server!Socket =>
          /\ p.msg.tid = "filtering2" =>
                p.src = DestOf("behavior3") /\ p.dst = Mapped(1, DestOf("test1"))
          /\ p.msg.tid = "filtering3" => p.src = [ip |-> ServerIP, port |-> 2]

Filter ==
    /\ NotAskedWhenDirect
    /\ results.fBindingTestSuccess /\ results.fHasOtherAddress => sockets = Server!Socket
    /\ \A m \in spMsg : Asked(m)
    /\ \A p \in toServer : Asked(p.msg)
    /\ \A p \in toClient : CameFrom(p)
    /\ \A d \in natSent : \E t \in Tests : d = DestOf(t)
    /\ DestOf("behavior3") \in natSent => ThirdNeeded
    /\ Translates /\ "filtering2" \in answered =>
          nat.filtering = "EndpointIndependent" \/ OpenedByBehaviorTest
    /\ Translates /\ "filtering3" \in answered => nat.filtering # "AddressAndPortDependent"

FilterInv == UdpInv /\ Filter

-----------------------------------------------------------------------------
LEMMA InitFilter == UdpInit => FilterInv
<1> SUFFICES ASSUME UdpInit
             PROVE  FilterInv
  OBVIOUS
<1>1. UdpInv
  BY InitUdpInv
<1>2. /\ answered = {} /\ spMsg = {} /\ natSent = {} /\ toServer = {} /\ toClient = {}
      /\ nat \in Nats /\ ~results.fBindingTestSuccess
  BY DEF UdpInit, Init, InitResults
<1>3. QED
  BY <1>1, <1>2 DEF FilterInv, Filter, NotAskedWhenDirect, DirectPath

(* behavior3 runs when the second mapping was seen to differ from the first *)
LEMMA ThirdIsNeeded ==
    ASSUME UdpInv, IsReadyToRun("behavior3")
    PROVE  ThirdNeeded
<1>1. /\ results.fBindingTestSuccess /\ ~results.fBehaviorTestSuccess
      /\ ~IsIPAddressZero(results.addrMappingAP)
  BY DEF IsReadyToRun
<1>2. "test1" \in answered /\ "behavior2" \in answered
  BY <1>1 DEF UdpInv, IInv, Binding, BehaviorTests, IsIPAddressZero, ZeroAddr
<1>3. results.addrMappingAP # results.addrMapped
  BY <1>1, <1>2 DEF UdpInv, IInv, BehaviorTests
<1>4. /\ results.addrMapped = Mapped(1, DestOf("test1"))
      /\ results.addrMappingAP = Mapped(1, DestOf("behavior2"))
  BY <1>1, <1>2 DEF UdpInv, Evidence, MappingTests
<1>5. QED
  BY <1>3, <1>4 DEF ThirdNeeded

LEMMA SendAsks ==
    ASSUME UdpInv, SendRequest
    PROVE  Asked(GetMessage(CurrentTest))
<1>1. CurrentTest \in Tests /\ IsReadyToRun(CurrentTest)
  BY CurrentTestType DEF SendRequest, InTest, UdpInv, IInv
<1>2. GetMessage(CurrentTest) \in Request
  BY <1>1, GetMessageType DEF UdpInv, IInv, TypeOK
<1>3. CurrentTest = "behavior3" => ThirdNeeded
  BY <1>1, ThirdIsNeeded
<1>4. QED
  BY <1>2, <1>3 DEF Asked, GetMessage

(* The server announces an other address only if it has all four sockets,  *)
(* and then it can make every change                                       *)
LEMMA AnswerCameFrom ==
    ASSUME WorldOK, NEW p, SentFrom(p, 1), Asked(p.msg), NEW a \in Answers(p, FALSE)
    PROVE  CameFrom(a)
<1>1. PICK s \in sockets : ServerAddr(s) = p.dst /\ a = ResponseTo(s, p, FALSE)
  BY DEF Answers
<1>2. s \in Server!Socket
  BY <1>1 DEF WorldOK
<1> DEFINE addrs  == [t \in Server!Socket |-> ServerAddr(t)]
           req    == RequestAt(s, p, FALSE)
           answer == Server!Answer(req, sockets, addrs, Server!NoChallenge)
<1>3. /\ a.msg.tid = p.msg.tid /\ a.src = ServerAddr(answer.from) /\ a.dst = answer.to
      /\ a.msg.other # NoAddr => /\ answer.response.kind = "Success"
                                 /\ a.msg.other = answer.response.other
  BY <1>1 DEF ResponseTo
<1>4. /\ req.msg.class = "Request" /\ req.msg.type = "Binding" /\ req.msg.responsePort = 0
      /\ req.socket = s /\ req.addrRemote = p.src
      /\ ~req.fConnectionOriented
      /\ req.auth.responseType = "NoProvider"
      /\ req.msg.change.fChangeIP <=> p.msg.changeIP
      /\ req.msg.change.fChangePort <=> p.msg.changePort
  BY DEF RequestAt
<1> HIDE DEF req
<1>5. answer.response.kind = "Success" /\ answer.response.other # NoAddr =>
         sockets = Server!Socket
  BY <1>4 DEF Server!Answer, Server!OtherAddress
<1>6. ASSUME sockets = Server!Socket, p.msg.tid \in {"filtering2", "filtering3"}
      PROVE  /\ answer.to = Mapped(1, DestOf("test1"))
             /\ answer.from = [ip   |-> IF p.msg.tid = "filtering2" THEN "Alternate"
                                                                     ELSE "Primary",
                               port |-> "Alternate"]
  <2>1. s = [ip |-> "Primary", port |-> "Primary"]
    BY <1>1, <1>2, <1>6, ServerAssumption
    DEF SentFrom, DestOf, ServerAddr, Server!Socket, Server!Side
  <2>2. /\ req.msg.change.fChangePort
        /\ req.msg.change.fChangeIP <=> p.msg.tid = "filtering2"
    BY <1>4, <1>6 DEF Asked
  <2>3. Server!Sender(req) = [ip   |-> IF p.msg.tid = "filtering2" THEN "Alternate"
                                                                    ELSE "Primary",
                              port |-> "Alternate"]
    BY <1>4, <2>1, <2>2 DEF Server!Sender, Server!Other
  <2>4. Server!Sender(req) \in sockets
    BY <1>6, <2>3 DEF Server!Socket, Server!Side
  <2>5. Server!AuthError(req) = 0
    BY <1>4 DEF Server!AuthError
  <2>6. Server!ErrorCode(req, sockets) = 0
    BY <1>4, <2>4, <2>5 DEF Server!ErrorCode, Server!Malformed, Server!Impossible
  <2>7. Server!Destination(req) = p.src
    BY <1>4 DEF Server!Destination
  <2>8. answer.from = Server!Sender(req) /\ answer.to = Server!Destination(req)
    BY <1>4, <2>6 DEF Server!Answer
  <2>9. p.src = Mapped(1, DestOf("test1"))
    BY <1>6 DEF SentFrom, DestOf
  <2>10. QED
    BY <2>3, <2>7, <2>8, <2>9
<1> HIDE DEF answer
<1>7. a.msg.other # NoAddr => sockets = Server!Socket
  BY <1>3, <1>5
<1>8. ASSUME sockets = Server!Socket, p.msg.tid \in {"filtering2", "filtering3"}
      PROVE  /\ a.dst = Mapped(1, DestOf("test1"))
             /\ p.msg.tid = "filtering2" => a.src = DestOf("behavior3")
             /\ p.msg.tid = "filtering3" => a.src = [ip |-> ServerIP, port |-> 2]
  BY <1>3, <1>6, <1>8 DEF ServerAddr, DestOf
<1>9. QED
  BY <1>3, <1>7, <1>8 DEF CameFrom

-----------------------------------------------------------------------------
(* What is let in, and is the answer to a filtering test, says something    *)
(* about the filter                                                        *)
LEMMA LetInTells ==
    ASSUME FilterInv, NEW p \in toClient, LetIn(p), sockets = Server!Socket,
           results.fBindingTestSuccess, results.fHasOtherAddress, Translates
    PROVE  /\ p.msg.tid = "filtering2" =>
                 nat.filtering = "EndpointIndependent" \/ OpenedByBehaviorTest
           /\ p.msg.tid = "filtering3" => nat.filtering # "AddressAndPortDependent"
<1>1. PICK d \in natSent : /\ Mapped(1, d) = p.dst
                           /\ nat.filtering = "AddressDependent" => d.ip = p.src.ip
                           /\ nat.filtering = "AddressAndPortDependent" => d = p.src
  BY DEF LetIn
<1>2. PICK t \in Tests : d = DestOf(t)
  BY DEF FilterInv, Filter
<1>3. /\ DestOf("behavior2") = [ip |-> AlternateIP, port |-> 1]
      /\ DestOf("behavior3") = [ip |-> AlternateIP, port |-> 2]
      /\ t \notin {"behavior2", "behavior3"} => d = [ip |-> ServerIP, port |-> 1]
      /\ ServerIP # AlternateIP
  BY <1>2, ServerAssumption DEF DestOf
<1>4. nat.filtering \in {"EndpointIndependent", "AddressDependent",
                         "AddressAndPortDependent"}
  BY DEF FilterInv, UdpInv, WorldOK, NatClass, Filtering
<1>5. CASE p.msg.tid = "filtering3"
  <2>1. p.src = [ip |-> ServerIP, port |-> 2]
    BY <1>5 DEF FilterInv, Filter, CameFrom
  <2>2. d # p.src
    BY <1>2, <1>3, <2>1
  <2>3. QED
    BY <1>1, <1>5, <2>2
<1>6. CASE p.msg.tid = "filtering2" /\ nat.filtering # "EndpointIndependent"
  <2>1. p.src = DestOf("behavior3") /\ p.dst = Mapped(1, DestOf("test1"))
    BY <1>6 DEF FilterInv, Filter, CameFrom
  <2>2. nat.mapping # "Direct" /\ nat \in NatClass /\ 1 \in LocalPorts
    BY <1>6, UdpAssumption DEF Translates, FilterInv, UdpInv, WorldOK
  <2>3. d.ip = AlternateIP
    BY <1>1, <1>3, <1>4, <1>6, <2>1
  <2>4. d \in {DestOf("behavior2"), DestOf("behavior3")}
    BY <1>2, <1>3, <2>3
  <2>5. d # DestOf("behavior3")
    <3>1. SUFFICES ASSUME d = DestOf("behavior3")
                   PROVE  FALSE
      OBVIOUS
    <3>2. ThirdNeeded
      BY <3>1 DEF FilterInv, Filter
    <3>3. nat.mapping = "EndpointIndependent"
      BY <1>1, <2>1, <2>2, <3>1, ClassIsSeen
    <3>4. Mapped(1, DestOf("behavior2")) = Mapped(1, DestOf("test1"))
      BY <2>2, <3>3, ClassIsSeen
    <3>5. QED
      BY <3>2, <3>4 DEF ThirdNeeded
  <2>6. d = DestOf("behavior2")
    BY <2>4, <2>5
  <2>7. nat.mapping = "EndpointIndependent"
    BY <1>1, <2>1, <2>2, <2>6, ClassIsSeen
  <2>8. nat.filtering = "AddressDependent"
    BY <1>1, <1>3, <1>4, <1>6, <2>1, <2>6
  <2>9. results.addrAP \in natSent
    BY <2>6 DEF FilterInv, UdpInv, WorldOK
  <2>10. QED
    BY <1>6, <2>7, <2>8, <2>9 DEF OpenedByBehaviorTest
<1>7. QED
  BY <1>5, <1>6

-----------------------------------------------------------------------------
(* The parts of Filter that depend on nothing but the NAT, and those that  *)
(* a step which accepts no response leaves                                 *)
LEMMA SameWorld ==
    ASSUME UNCHANGED <<nat, sockets>>
    PROVE  /\ ThirdNeeded' <=> ThirdNeeded
           /\ \A m : Asked(m)' <=> Asked(m)
           /\ \A p : CameFrom(p)' <=> CameFrom(p)
BY DEF ThirdNeeded, Asked, CameFrom, Mapped

LEMMA DirectSkips ==
    ASSUME IInv, SendRequest, DirectPath
    PROVE  CurrentTest \notin {"filtering2", "filtering3"}
BY Ready DEF SendRequest, InTest

LEMMA SilentFilter ==
    ASSUME FilterInv, Silent, UNCHANGED fixedVars, natSent \subseteq natSent'
    PROVE  /\ NotAskedWhenDirect'
           /\ results'.fBindingTestSuccess /\ results'.fHasOtherAddress =>
                 sockets' = Server!Socket
           /\ \A m \in spMsg' : Asked(m)
           /\ Translates' /\ "filtering2" \in answered' =>
                 nat'.filtering = "EndpointIndependent" \/ OpenedByBehaviorTest'
           /\ Translates' /\ "filtering3" \in answered' => nat'.filtering # "AddressAndPortDependent"
<1>1. /\ nat' = nat /\ sockets' = sockets
  BY DEF fixedVars
<1>2. /\ answered' = answered
      /\ results'.addrAP = results.addrAP
      /\ results'.fHasOtherAddress = results.fHasOtherAddress
      /\ results'.fBindingTestSuccess => results.fBindingTestSuccess
  BY SilentKeeps DEF Silent, FilterInv, UdpInv
<1>3. OpenedByBehaviorTest => OpenedByBehaviorTest'
  BY <1>1, <1>2 DEF OpenedByBehaviorTest
<1>4. \A m \in spMsg' : Asked(m)
  <2>1. CASE SendRequest
    BY <2>1, SendAsks DEF SendRequest, FilterInv
  <2>2. CASE UNCHANGED spMsg
    BY <2>2 DEF FilterInv, Filter
  <2>3. QED
    BY <2>1, <2>2 DEF Silent, Initialize, CallGetNextMessage, GetNextMessageStep, RejectResponse,
                  vars, ResultsReady, NextTest, KeepWaiting, PreRunCheck, NotifyTimeout, callVars
<1>5. NotAskedWhenDirect'
  <2>1. DirectPath' => DirectPath
    BY <1>2, SilentKeeps DEF Silent, FilterInv, UdpInv, DirectPath
  <2>2. CASE SendRequest
    <3>1. /\ requests' = [requests EXCEPT ![CurrentTest] = @ + 1]
          /\ requests \in [Tests -> Nat]
      BY <2>2 DEF SendRequest, FilterInv, UdpInv, IInv, TypeOK
    <3>2. DirectPath => CurrentTest \notin {"filtering2", "filtering3"}
      BY <2>2, DirectSkips DEF FilterInv, UdpInv
    <3>3. DirectPath => /\ requests'["filtering2"] = requests["filtering2"]
                        /\ requests'["filtering3"] = requests["filtering3"]
      BY <3>1, <3>2 DEF Tests
    <3>4. QED
      BY <2>1, <3>3 DEF FilterInv, Filter, NotAskedWhenDirect
  <2>3. CASE UNCHANGED requests
    BY <2>1, <2>3 DEF FilterInv, Filter, NotAskedWhenDirect
  <2>4. QED
    BY <2>2, <2>3 DEF Silent, Initialize, CallGetNextMessage, GetNextMessageStep, RejectResponse,
                  vars, ResultsReady, NextTest, KeepWaiting, PreRunCheck, NotifyTimeout, history
<1>6. QED
  BY <1>1, <1>2, <1>3, <1>4, <1>5 DEF FilterInv, Filter, Translates

LEMMA OwnFilter ==
    ASSUME FilterInv, UdpInv',
           \/ Start \/ CallLogic \/ LogicStep \/ StillWaiting \/ Break
           \/ SelectTimeout \/ ClockSet \/ UNCHANGED udpVars
    PROVE  FilterInv'
<1>1. UNCHANGED fixedVars /\ UNCHANGED <<natSent, toServer, toClient>>
  BY DEF Start, CallLogic, LogicStep, StillWaiting, Break, SelectTimeout, ClockSet,
         udpVars, worldVars, fixedVars
<1>2. Silent
  BY DEF FilterInv, UdpInv, Silent, Start, CallLogic, LogicStep, StillWaiting, Break, SelectTimeout,
         ClockSet, udpVars
<1>3. /\ \A m : Asked(m)' <=> Asked(m)
      /\ \A p : CameFrom(p)' <=> CameFrom(p)
      /\ ThirdNeeded' <=> ThirdNeeded
  BY <1>1, SameWorld DEF fixedVars
<1>4. QED
  BY <1>1, <1>2, <1>3, SilentFilter DEF FilterInv, Filter

LEMMA NetworkFilter ==
    ASSUME FilterInv, UdpInv', Sendto \/ ServerAnswers \/ NatDrops
    PROVE  FilterInv'
<1>1. UNCHANGED fixedVars /\ Silent /\ natSent \subseteq natSent'
  BY DEF Sendto, ServerAnswers, NatDrops, Silent, fixedVars
<1>2. /\ \A m : Asked(m)' <=> Asked(m)
      /\ \A p : CameFrom(p)' <=> CameFrom(p)
      /\ ThirdNeeded' <=> ThirdNeeded
  BY <1>1, SameWorld DEF fixedVars
<1>3. /\ \A p \in toServer' : Asked(p.msg)
      /\ \A p \in toClient' : CameFrom(p)
      /\ \A d \in natSent' : \E t \in Tests : d = DestOf(t)
      /\ DestOf("behavior3") \in natSent' => ThirdNeeded
  <2>1. CASE Sendto
    <3>1. /\ \A p \in toServer : Asked(p.msg)
          /\ \A d \in natSent : \E t \in Tests : d = DestOf(t)
          /\ DestOf("behavior3") \in natSent => ThirdNeeded
          /\ \A p \in toClient : CameFrom(p)
      BY DEF FilterInv, Filter
    <3>2. CASE UNCHANGED <<natSent, toServer>>
      BY <2>1, <3>1, <3>2 DEF Sendto
    <3>3. CASE \E m \in spMsg :
                 /\ natSent' = natSent \cup {m.dest}
                 /\ toServer' = toServer \cup
                       {[src |-> Mapped(1, m.dest), dst |-> m.dest, msg |-> m]}
      <4>1. PICK m \in spMsg :
                 /\ natSent' = natSent \cup {m.dest}
                 /\ toServer' = toServer \cup
                       {[src |-> Mapped(1, m.dest), dst |-> m.dest, msg |-> m]}
        BY <3>3
      <4>2. Asked(m) /\ m.dest = DestOf(m.tid) /\ m.tid \in Tests
        BY DEF FilterInv, Filter, UdpInv, WorldOK, Asked, Request
      <4>3. m.dest = DestOf("behavior3") => m.tid = "behavior3"
        BY <4>2, ServerAssumption DEF DestOf
      <4>4. QED
        BY <2>1, <3>1, <4>1, <4>2, <4>3 DEF Sendto, Asked
    <3>4. QED
      BY <2>1, <3>2, <3>3 DEF Sendto
  <2>2. CASE ServerAnswers
    <3>1. PICK p \in toServer : /\ toServer' = toServer \ {p}
                                /\ toClient' = toClient \cup Answers(p, FALSE)
                                /\ natSent' = natSent
      BY <2>2 DEF ServerAnswers
    <3>2. \A a \in Answers(p, FALSE) : CameFrom(a)
      BY AnswerCameFrom DEF FilterInv, Filter, UdpInv, Network
    <3>3. QED
      BY <3>1, <3>2 DEF FilterInv, Filter
  <2>3. CASE NatDrops
    BY <2>3 DEF NatDrops, FilterInv, Filter
  <2>4. QED
    BY <2>1, <2>2, <2>3
<1>4. QED
  BY <1>1, <1>2, <1>3, SilentFilter DEF FilterInv, Filter

LEMMA ReceiveFilter ==
    ASSUME FilterInv, UdpInv', ReceiveDatagram
    PROVE  FilterInv'
<1>1. PICK p \in toClient : LetIn(p) /\ ProcessResponse(p.msg, LocalAddr(1))
  BY DEF ReceiveDatagram
<1>2. /\ UNCHANGED fixedVars /\ UNCHANGED <<natSent, toServer>>
      /\ toClient' \subseteq toClient
  BY DEF ReceiveDatagram, fixedVars
<1>3. /\ \A m : Asked(m)' <=> Asked(m)
      /\ \A q : CameFrom(q)' <=> CameFrom(q)
      /\ ThirdNeeded' <=> ThirdNeeded
  BY <1>2, SameWorld DEF fixedVars
<1>4. Faithful(p.msg, 1) /\ p.msg \in Response
  BY DEF FilterInv, UdpInv, Network, Faithful
<1>5. CASE RejectResponse(p.msg)
  BY <1>2, <1>3, <1>4, <1>5, SilentFilter DEF Silent, FilterInv, Filter
<1>6. CASE AcceptResponse(p.msg, LocalAddr(1))
  <2> DEFINE t == CurrentTest
  <2>1. /\ t \in Tests /\ p.msg.tid = t
        /\ t # "test1" => results.fBindingTestSuccess /\ results.fHasOtherAddress
    BY <1>4, <1>6, AcceptedBy DEF FilterInv, UdpInv
  <2>2. answered' = answered \cup {t} /\ spMsg' = spMsg
        /\ results' = ResponseResults(t, p.msg, LocalAddr(1)) /\ results \in Results
    BY <1>6 DEF AcceptResponse, FilterInv, UdpInv, IInv, TypeOK
  <2> HIDE DEF t
  <2>3. CASE t = "test1"
    <3>1. "test1" \notin answered /\ "filtering2" \notin answered
      <4>1. "test1" \notin answered
        BY <1>4, <1>6, <2>3, AcceptedBy DEF FilterInv, UdpInv, t
      <4>2. ~results.fBindingTestSuccess
        BY <4>1 DEF FilterInv, UdpInv, IInv, Binding
      <4>3. QED
        BY <4>1, <4>2 DEF FilterInv, UdpInv, IInv, FilteringTests
    <3>2. results' = BindingResults(p.msg, LocalAddr(1))
      BY <2>2, <2>3 DEF ResponseResults
    <3>3. results'.fHasOtherAddress => p.msg.other # NoAddr
      BY <2>2, <3>2 DEF BindingResults, Results
    <3>4. results'.fHasOtherAddress => sockets = Server!Socket
      BY <3>3 DEF FilterInv, Filter, CameFrom
    <3>5. /\ "filtering2" \notin answered'
          /\ "filtering3" \in answered' => "filtering3" \in answered
      BY <2>2, <2>3, <3>1
    <3>6. requests["filtering2"] = 0 /\ requests["filtering3"] = 0
      <4>1. IsCurrent("test1")
        BY <1>6, <2>3 DEF AcceptResponse, CanProcess, IsCurrent, t
      <4>2. \A f \in {"filtering2", "filtering3"} : ~Past(f) /\ ~IsCurrent(f)
        BY <1>6, <4>1, Order DEF AcceptResponse, FilterInv, UdpInv, IInv, IsCurrent, Tests
      <4>3. QED
        BY <4>2 DEF FilterInv, UdpInv, IInv, Progress, Tests
    <3>7. requests' = requests
      BY <1>6 DEF AcceptResponse
    <3>8. NotAskedWhenDirect'
      BY <3>6, <3>7 DEF NotAskedWhenDirect
    <3>9. QED
      BY <1>2, <1>3, <2>2, <3>4, <3>5, <3>8 DEF FilterInv, Filter, fixedVars, Translates
  <2>4. CASE t # "test1"
    <3>1. /\ results'.addrAP = results.addrAP
          /\ results'.fHasOtherAddress = results.fHasOtherAddress
          /\ results'.fIsDirect = results.fIsDirect
          /\ requests' = requests
      BY <1>6, <2>1, <2>2, <2>4
      DEF ResponseResults, Behavior2Results, Behavior3Results, Filtering2Results,
          Filtering3Results, Results, Tests, AcceptResponse
    <3>2. sockets = Server!Socket
      BY <2>1, <2>4 DEF FilterInv, Filter
    <3>3. /\ Translates /\ t = "filtering2" =>
                nat.filtering = "EndpointIndependent" \/ OpenedByBehaviorTest
          /\ Translates /\ t = "filtering3" => nat.filtering # "AddressAndPortDependent"
      BY <1>1, <2>1, <2>4, <3>2, LetInTells
    <3>4. OpenedByBehaviorTest => OpenedByBehaviorTest'
      BY <1>2, <3>1 DEF OpenedByBehaviorTest, fixedVars
    <3>5. /\ Translates' /\ "filtering2" \in answered' =>
                nat'.filtering = "EndpointIndependent" \/ OpenedByBehaviorTest'
          /\ Translates' /\ "filtering3" \in answered' => nat'.filtering # "AddressAndPortDependent"
      BY <1>2, <2>2, <3>3, <3>4 DEF FilterInv, Filter, fixedVars, Translates
    <3>6. NotAskedWhenDirect'
      BY <2>1, <2>4, <3>1 DEF NotAskedWhenDirect, DirectPath, FilterInv, Filter
    <3>7. QED
      BY <1>2, <1>3, <2>2, <3>2, <3>5, <3>6 DEF FilterInv, Filter, fixedVars
  <2>5. QED
    BY <2>3, <2>4
<1>7. QED
  BY <1>1, <1>5, <1>6 DEF ProcessResponse

LEMMA StepFilter == FilterInv /\ [UdpNext]_udpVars => FilterInv'
<1> SUFFICES ASSUME FilterInv, [UdpNext]_udpVars
             PROVE  FilterInv'
  OBVIOUS
<1>1. UdpInv'
  BY StepUdpInv DEF FilterInv
<1>2. CASE \/ Start \/ CallLogic \/ LogicStep \/ StillWaiting \/ Break
           \/ SelectTimeout \/ ClockSet \/ UNCHANGED udpVars
  BY <1>1, <1>2, OwnFilter
<1>3. CASE Sendto \/ ServerAnswers \/ NatDrops
  BY <1>1, <1>3, NetworkFilter
<1>4. CASE ReceiveDatagram
  BY <1>1, <1>4, ReceiveFilter
<1>5. QED
  BY <1>2, <1>3, <1>4 DEF UdpNext, Stopped

(* What the first binding says about the NAT                               *)
LEMMA DirectPathIsDirect ==
    ASSUME UdpInv, results.fBindingTestSuccess
    PROVE  DirectPath <=> ~Translates
<1>1. /\ results.fIsDirect <=> results.addrMapped = results.addrLocal
      /\ results.addrMapped = Mapped(1, DestOf("test1"))
      /\ results.addrLocal = LocalAddr(1)
  BY DEF UdpInv, IInv, Binding, Evidence, MappingTests
<1>2. Mapped(1, DestOf("test1")) = LocalAddr(1) <=> nat.mapping = "Direct"
  BY DirectIsSeen, UdpAssumption DEF UdpInv, WorldOK, Tests
<1>3. QED
  BY <1>1, <1>2 DEF DirectPath, Translates

LEMMA FilteringFollows == FilterInv => FilteringSound
<1> SUFFICES ASSUME FilterInv, results.fFilteringTestSuccess, ~OpenedByBehaviorTest,
                    ~TakenForDirect
             PROVE  Strictness(results.filtering) >= Strictness(nat.filtering)
  BY DEF FilteringSound, FilteringNeverLooser
<1>1. /\ nat.filtering \in {"EndpointIndependent", "AddressDependent",
                            "AddressAndPortDependent"}
      /\ results.filtering \in {"EndpointIndependent", "AddressDependent",
                                "AddressAndPortDependent"}
  BY DEF FilterInv, UdpInv, WorldOK, NatClass, Filtering, IInv, TypeOK, Results, FilteringTests
<1>2. Translates /\ ~DirectPath
  <2>1. results.fBindingTestSuccess
    BY DEF FilterInv, UdpInv, IInv, FilteringTests
  <2>2. DirectPath <=> ~Translates
    BY <2>1, DirectPathIsDirect DEF FilterInv
  <2>3. ~DirectPath
    BY <2>2 DEF TakenForDirect, Translates, DirectPath, FilterInv, Filter, NotAskedWhenDirect
  <2>4. QED
    BY <2>2, <2>3
<1>3. results.filtering = "EndpointIndependent" => nat.filtering = "EndpointIndependent"
  BY <1>2 DEF FilterInv, Filter, UdpInv, IInv, FilteringTests
<1>4. results.filtering = "AddressDependent" => nat.filtering # "AddressAndPortDependent"
  BY <1>2 DEF FilterInv, Filter, UdpInv, IInv, FilteringTests
<1>5. QED
  BY <1>1, <1>3, <1>4 DEF Strictness

(* A filtering class is never reported looser than the filter but where    *)
(* the order of the tests or the direct connection explains it             *)
(* (UdpClientLoop, CFilteringTest), however late or often datagrams come.  *)
THEOREM FilteringIsSound == UdpSpec => []FilteringSound
<1>1. QED
  BY InitFilter, StepFilter, FilteringFollows, PTL DEF UdpSpec

-----------------------------------------------------------------------------
(* Time.  As long as nobody sets the clock it never runs ahead of the time *)
(* that has passed, wherever it wraps around.                              *)

LEMMA ClockRange ==
    ASSUME NEW n \in Nat, NEW m \in Nat \ {0}
    PROVE  /\ n % m \in 0 .. m - 1
           /\ n < m => n % m = n
           /\ n >= m => n % m <= n - m
           /\ n >= m /\ n < 2 * m => n % m = n - m
OBVIOUS

LEMMA Since ==
    ASSUME NEW m \in Nat \ {0}, NEW n \in 0 .. m - 1, NEW s \in 0 .. m - 1
    PROVE  (n + m - s) % m = IF n >= s THEN n - s ELSE n + m - s
<1>1. PICK d \in Nat : d = n + m - s
  OBVIOUS
<1>2. /\ d < m => d % m = d
      /\ d >= m /\ d < 2 * m => d % m = d - m
  BY ClockRange
<1>3. d % m = IF n >= s THEN n - s ELSE n + m - s
  BY <1>1, <1>2
<1>4. QED
  BY <1>1, <1>3

(* h ticks later the clock shows at most h more                            *)
LEMMA ClockTurns ==
    ASSUME NEW m \in Nat \ {0}, NEW n \in 0 .. m - 1, NEW s \in 0 .. m - 1, NEW h \in Nat
    PROVE  (((n + h) % m) + m - s) % m <= ((n + m - s) % m) + h
<1>1. PICK k : k = (n + h) % m
  OBVIOUS
<1>2. k \in 0 .. m - 1 /\ (k = n + h \/ k <= n + h - m)
  <2>1. PICK e \in Nat : e = n + h
    OBVIOUS
  <2>2. /\ e % m \in 0 .. m - 1
        /\ e < m => e % m = e
        /\ e >= m => e % m <= e - m
    BY ClockRange
  <2>3. k = e % m /\ (e < m \/ e >= m)
    BY <1>1, <2>1
  <2>4. QED
    BY <2>1, <2>2, <2>3
<1>3. /\ (k + m - s) % m = IF k >= s THEN k - s ELSE k + m - s
      /\ (n + m - s) % m = IF n >= s THEN n - s ELSE n + m - s
  BY <1>2, Since
<1>4. (k + m - s) % m <= ((n + m - s) % m) + h
  BY <1>2, <1>3
<1>5. QED
  BY <1>1, <1>4

LEMMA WholeSeconds ==
    ASSUME NEW d \in Nat, NEW t \in Nat \ {0}, NEW n \in Nat, d \div t >= n
    PROVE  d >= n * t
<1>1. PICK q \in Nat : q = d \div t
  OBVIOUS
<1>2. d >= q * t
  BY <1>1
<1>3. q * t >= n * t
  BY <1>1
<1>4. QED
  BY <1>2, <1>3

(* What the counter shows since the last request, and how long to wait     *)
TimeSince == (now + ClockModulus - timeLastMessageSent) % ClockModulus
Limit     == config.timeoutSeconds * TicksPerSecond

Pace ==
    /\ elapsed \in Nat
    /\ loop = "Result" /\ pc = "next" => timeCurrent = now
    /\ sendCount > 0 => /\ HasCurrentTest /\ fPreCheckRunOnTest
                        /\ fCompleted[CurrentTest] \/ IsReadyToRun(CurrentTest)
    /\ clock # "set" /\ sendCount > 0 =>
          /\ elapsed >= TimeSince \/ elapsed >= Limit
          /\ fCompleted[CurrentTest] /\ CurrentTest \notin answered => elapsed >= Limit

PaceInv == UdpInv /\ Pace

LEMMA Ticks ==
    /\ ClockModulus \in Nat \ {0} /\ TicksPerSecond \in Nat \ {0}
    /\ HalfSecond \in Nat /\ HalfSecond <= TicksPerSecond
BY ClockAssumption, UdpAssumption DEF HalfSecond

LEMMA PaceTypes ==
    ASSUME PaceInv
    PROVE  /\ now \in 0 .. ClockModulus - 1 /\ timeLastMessageSent \in 0 .. ClockModulus - 1
           /\ sendCount \in Nat /\ nTestIndex \in Nat /\ config.timeoutSeconds \in Nat
           /\ elapsed \in Nat /\ Limit \in Nat /\ TimeSince \in Nat
<1>1. /\ now \in 0 .. ClockModulus - 1 /\ timeLastMessageSent \in 0 .. ClockModulus - 1
      /\ sendCount \in Nat /\ nTestIndex \in Nat /\ config.timeoutSeconds \in Nat
      /\ elapsed \in Nat
  BY DEF PaceInv, UdpInv, IInv, TypeOK, Config, Pace
<1>2. Limit \in Nat
  BY <1>1, Ticks DEF Limit
<1>3. TimeSince \in Nat
  BY <1>1, Ticks, Since DEF TimeSince
<1>4. QED
  BY <1>1, <1>2, <1>3

(* The logic gives up waiting when the time is over                        *)
LEMMA WaitIsOver ==
    ASSUME PaceInv, loop = "Result", pc = "next", ~InWait, sendCount > 0, clock # "set"
    PROVE  elapsed >= Limit
<1>1. TimeSince \div TicksPerSecond >= config.timeoutSeconds
  <2>1. SecondsSinceSend = TimeSince \div TicksPerSecond
    BY DEF SecondsSinceSend, TimeSince, PaceInv, Pace
  <2>2. ~(SecondsSinceSend < config.timeoutSeconds)
    BY PaceTypes DEF InWait
  <2>3. TimeSince \div TicksPerSecond \in Nat
    BY PaceTypes, Ticks
  <2>4. QED
    BY <2>1, <2>2, <2>3, PaceTypes
<1>2. TimeSince >= Limit
  BY <1>1, PaceTypes, Ticks, WholeSeconds DEF Limit
<1>3. elapsed >= TimeSince \/ elapsed >= Limit
  BY DEF PaceInv, Pace
<1>4. QED
  BY <1>2, <1>3, PaceTypes

(* A step that gives a test up too early finds the clock set               *)
LEMMA CutShortTells ==
    ASSUME PaceInv, [UdpNext]_udpVars, CutShort
    PROVE  clock = "set"
<1>1. /\ sendCount > 0 /\ elapsed < Limit
      /\ \/ sendCount' = sendCount + 1
         \/ nTestIndex' # nTestIndex /\ CurrentTest \notin answered
  BY DEF CutShort, Limit
<1>2. sendCount' # sendCount \/ nTestIndex' # nTestIndex
  BY <1>1, PaceTypes
<1>3. LogicStep /\ (SendRequest \/ NextTest)
  <2>1. fInitialized
    BY <1>1 DEF PaceInv, UdpInv, IInv, Setup
  <2>2. LogicStep
    BY <1>2, <2>1
    DEF UdpNext, Start, Initialize, CallLogic, CallGetNextMessage, Sendto, StillWaiting, Break,
        ReceiveDatagram, ProcessResponse, AcceptResponse, RejectResponse, SelectTimeout,
        ClockSet, ServerAnswers, NatDrops, Stopped, udpVars, vars, logicVars
  <2>3. QED
    BY <1>2, <2>2
    DEF LogicStep, GetNextMessageStep, ResultsReady, PreRunCheck, KeepWaiting, NotifyTimeout,
        logicVars
<1>4. CASE SendRequest
  BY <1>1, <1>3, <1>4, WaitIsOver, PaceTypes DEF SendRequest, InTest, LogicStep
<1>5. CASE NextTest
  <2>1. CurrentTest \notin answered
    BY <1>1, <1>5, PaceTypes DEF NextTest
  <2>2. fCompleted[CurrentTest]
    BY <1>1, <1>5 DEF NextTest, PaceInv, Pace
  <2>3. QED
    BY <1>1, <2>1, <2>2, PaceTypes DEF PaceInv, Pace
<1>6. QED
  BY <1>3, <1>4, <1>5

-----------------------------------------------------------------------------
LEMMA InitPace == UdpInit => PaceInv
BY InitUdpInv DEF UdpInit, Init, PaceInv, Pace

(* A test that has sent is entitled to run until it is completed           *)
LEMMA SenderStep ==
    ASSUME PaceInv, [UdpNext]_udpVars, sendCount' > 0, sendCount' = sendCount,
           nTestIndex' = nTestIndex
    PROVE  /\ HasCurrentTest' /\ fPreCheckRunOnTest'
           /\ fCompleted'[CurrentTest'] \/ IsReadyToRun(CurrentTest)'
           /\ CurrentTest' = CurrentTest
           /\ fCompleted'[CurrentTest] =>
                 \/ fCompleted[CurrentTest] \/ CurrentTest \in answered'
                 \/ LogicStep /\ NotifyTimeout
<1>1. /\ HasCurrentTest /\ fPreCheckRunOnTest /\ CurrentTest \in Tests
      /\ fCompleted[CurrentTest] \/ IsReadyToRun(CurrentTest)
      /\ fInitialized /\ fCompleted \in [Tests -> BOOLEAN]
  BY CurrentTestType DEF PaceInv, Pace, UdpInv, IInv, Setup, TypeOK
<1>2. CASE \E p \in toClient : AcceptResponse(p.msg, LocalAddr(1))
  BY <1>1, <1>2 DEF AcceptResponse, HasCurrentTest, CurrentTest
<1>3. CASE LogicStep /\ NotifyTimeout
  BY <1>1, <1>3 DEF NotifyTimeout, HasCurrentTest, CurrentTest
<1>4. CASE UNCHANGED <<results, testlist, fCompleted, fPreCheckRunOnTest>>
  BY <1>1, <1>4 DEF IsReadyToRun, HasCurrentTest, CurrentTest
<1>5. QED
  <2>1. ~Start
    BY <1>1 DEF Start, Initialize
  <2>2. CASE LogicStep
    <3>1. /\ sendCount' = sendCount /\ nTestIndex' = nTestIndex
          /\ sendCount \in Nat /\ nTestIndex \in Nat
      BY PaceTypes
    <3>2. ~SendRequest /\ ~NextTest /\ ~PreRunCheck
      <4>1. ~PreRunCheck
        BY <1>1, Zenon DEF PreRunCheck
      <4>2. ~SendRequest
        BY <3>1 DEF SendRequest
      <4>3. ~NextTest
        BY <3>1 DEF NextTest
      <4>4. QED
        BY <4>1, <4>2, <4>3
    <3>3. CASE ResultsReady \/ KeepWaiting
      BY <1>4, <3>3 DEF ResultsReady, KeepWaiting, logicVars
    <3>4. QED
      BY <1>3, <2>2, <3>2, <3>3 DEF LogicStep, GetNextMessageStep
  <2>3. CASE ReceiveDatagram
    BY <1>2, <1>4, <2>3 DEF ReceiveDatagram, ProcessResponse, RejectResponse, logicVars
  <2>4. CASE CallLogic \/ Sendto \/ StillWaiting \/ Break \/ SelectTimeout \/ ClockSet
                \/ ServerAnswers \/ NatDrops \/ UNCHANGED udpVars
    BY <1>4, <2>4
    DEF CallLogic, CallGetNextMessage, Sendto, StillWaiting, Break, SelectTimeout, ClockSet,
        ServerAnswers, NatDrops, udpVars, vars, logicVars
  <2>5. QED
    BY <2>1, <2>2, <2>3, <2>4 DEF UdpNext, Stopped

(* A half-second passes on the clock as it does in the world               *)
LEMMA TimePasses ==
    ASSUME PaceInv, SelectTimeout, clock # "set", sendCount > 0
    PROVE  /\ elapsed' >= TimeSince' \/ elapsed' >= Limit
           /\ elapsed >= Limit => elapsed' >= Limit
<1>1. TimeSince' <= TimeSince + HalfSecond
  <2>1. (((now + HalfSecond) % ClockModulus) + ClockModulus - timeLastMessageSent)
           % ClockModulus
        <= ((now + ClockModulus - timeLastMessageSent) % ClockModulus) + HalfSecond
    BY PaceTypes, Ticks, ClockTurns
  <2>2. now' = (now + HalfSecond) % ClockModulus /\ timeLastMessageSent' = timeLastMessageSent
    BY DEF SelectTimeout, vars, logicVars
  <2>3. QED
    BY <2>1, <2>2 DEF TimeSince
<1>2. (now + HalfSecond) % ClockModulus \in 0 .. ClockModulus - 1
  <2>1. PICK e \in Nat : e = now + HalfSecond
    BY PaceTypes, Ticks
  <2>2. e % ClockModulus \in 0 .. ClockModulus - 1
    BY Ticks, ClockRange
  <2>3. QED
    BY <2>1, <2>2
<1>3. TimeSince' \in Nat
  BY <1>2, PaceTypes, Ticks, Since DEF TimeSince, SelectTimeout, vars, logicVars
<1>4. elapsed >= TimeSince \/ elapsed >= Limit
  BY DEF PaceInv, Pace
<1>5. (config.timeoutSeconds + 1) * TicksPerSecond = Limit + TicksPerSecond
  BY PaceTypes, Ticks DEF Limit
<1>6. elapsed' = IF elapsed + HalfSecond > Limit + TicksPerSecond
                 THEN elapsed ELSE elapsed + HalfSecond
  BY <1>5 DEF SelectTimeout
<1>7. QED
  BY <1>1, <1>3, <1>4, <1>6, PaceTypes, Ticks

LEMMA StepPace == PaceInv /\ [UdpNext]_udpVars => PaceInv'
<1> SUFFICES ASSUME PaceInv, [UdpNext]_udpVars
             PROVE  PaceInv'
  OBVIOUS
<1>1. UdpInv'
  BY StepUdpInv DEF PaceInv
<1>2. elapsed' \in Nat
  <2>1. CASE SelectTimeout
    BY <2>1, PaceTypes, Ticks DEF SelectTimeout
  <2>2. CASE LogicStep
    BY <2>2, PaceTypes DEF LogicStep
  <2>3. CASE UNCHANGED elapsed
    BY <2>3, PaceTypes
  <2>4. QED
    BY <2>1, <2>2, <2>3
    DEF UdpNext, Start, CallLogic, Sendto, StillWaiting, Break, ReceiveDatagram, ClockSet,
        ServerAnswers, NatDrops, Stopped, udpVars
<1>3. loop' = "Result" /\ pc' = "next" => timeCurrent' = now'
  <2>1. CASE Start
    BY <2>1 DEF Start
  <2>2. CASE CallLogic
    BY <2>2 DEF CallLogic, CallGetNextMessage
  <2>3. CASE LogicStep
    BY <2>3 DEF LogicStep, GetNextMessageStep, ResultsReady, PreRunCheck, NextTest, KeepWaiting,
                NotifyTimeout, SendRequest, Return, callVars, PaceInv, Pace
  <2>4. CASE Sendto \/ StillWaiting \/ Break \/ ReceiveDatagram \/ SelectTimeout \/ ClockSet
    BY <2>4 DEF Sendto, StillWaiting, Break, ReceiveDatagram, SelectTimeout, ClockSet, Returned,
                vars, callVars, PaceInv, Pace
  <2>5. CASE ServerAnswers \/ NatDrops \/ UNCHANGED udpVars
    BY <2>5 DEF ServerAnswers, NatDrops, udpVars, vars, callVars, PaceInv, Pace
  <2>6. QED
    BY <2>1, <2>2, <2>3, <2>4, <2>5 DEF UdpNext, Stopped
<1> DEFINE Sender == /\ HasCurrentTest /\ fPreCheckRunOnTest
                     /\ fCompleted[CurrentTest] \/ IsReadyToRun(CurrentTest)
           OnTime == /\ elapsed >= TimeSince \/ elapsed >= Limit
                     /\ fCompleted[CurrentTest] /\ CurrentTest \notin answered
                           => elapsed >= Limit
<1>4. CASE sendCount' = 0
  BY <1>1, <1>2, <1>3, <1>4 DEF PaceInv, Pace
<1>5. CASE LogicStep /\ SendRequest
  <2>1. Sender'
    <3>1. InTest /\ IsReadyToRun(CurrentTest)
      BY <1>5 DEF SendRequest
    <3>2. IsReadyToRun(CurrentTest)' /\ HasCurrentTest' /\ fPreCheckRunOnTest'
      BY <1>5, <3>1 DEF SendRequest, InTest, IsReadyToRun, HasCurrentTest, CurrentTest
    <3>3. QED
      BY <3>2
  <2>2. OnTime'
    <3>1. timeLastMessageSent' = now /\ now' = now /\ elapsed' = 0
      BY <1>5, PaceTypes DEF SendRequest, InTest, LogicStep, PaceInv, Pace
    <3>2. (now + ClockModulus - now) % ClockModulus = 0
      BY PaceTypes, Ticks, Since
    <3>3. elapsed' >= TimeSince'
      BY <3>1, <3>2 DEF TimeSince
    <3>4. ~fCompleted'[CurrentTest']
      BY <1>5 DEF SendRequest, IsReadyToRun, CurrentTest
    <3>5. QED
      BY <3>3, <3>4
  <2>3. QED
    BY <1>1, <1>2, <1>3, <2>1, <2>2 DEF PaceInv, Pace
<1>6. CASE sendCount' > 0 /\ ~(LogicStep /\ SendRequest)
  <2>1. /\ sendCount' = sendCount /\ nTestIndex' = nTestIndex
        /\ timeLastMessageSent' = timeLastMessageSent /\ config' = config
    <3>1. CASE Start
      BY <1>6, <3>1 DEF Start, Initialize, PaceInv, UdpInv, IInv, Setup
    <3>2. CASE LogicStep
      BY <1>6, <3>2
      DEF LogicStep, GetNextMessageStep, ResultsReady, PreRunCheck, NextTest, KeepWaiting,
          NotifyTimeout, logicVars
    <3>3. CASE ReceiveDatagram
      BY <3>3 DEF ReceiveDatagram, ProcessResponse, AcceptResponse, RejectResponse, logicVars
    <3>4. CASE \/ CallLogic \/ Sendto \/ StillWaiting \/ Break \/ SelectTimeout \/ ClockSet
               \/ ServerAnswers \/ NatDrops \/ UNCHANGED udpVars
      BY <3>4
      DEF CallLogic, CallGetNextMessage, Sendto, StillWaiting, Break, SelectTimeout, ClockSet,
          ServerAnswers, NatDrops, udpVars, vars, logicVars
    <3>5. QED
      BY <3>1, <3>2, <3>3, <3>4 DEF UdpNext, Stopped
  <2>2. /\ Sender'
        /\ CurrentTest' = CurrentTest
        /\ fCompleted'[CurrentTest] =>
              \/ fCompleted[CurrentTest] \/ CurrentTest \in answered'
              \/ LogicStep /\ NotifyTimeout
    BY <1>6, <2>1, SenderStep
  <2>3. answered \subseteq answered' /\ Limit' = Limit
    <3>1. Limit' = Limit
      BY <2>1 DEF Limit
    <3>2. answered \subseteq answered'
      <4>1. CASE Start
        BY <4>1 DEF Start, Initialize, history
      <4>2. CASE LogicStep
        BY <1>6, <4>2
        DEF LogicStep, GetNextMessageStep, ResultsReady, PreRunCheck, NextTest, KeepWaiting,
            NotifyTimeout, history
      <4>3. CASE ReceiveDatagram
        BY <4>3 DEF ReceiveDatagram, ProcessResponse, AcceptResponse, RejectResponse, history
      <4>4. CASE \/ CallLogic \/ Sendto \/ StillWaiting \/ Break \/ SelectTimeout \/ ClockSet
                 \/ ServerAnswers \/ NatDrops \/ UNCHANGED udpVars
        BY <4>4
        DEF CallLogic, CallGetNextMessage, Sendto, StillWaiting, Break, SelectTimeout, ClockSet,
            ServerAnswers, NatDrops, udpVars, vars, history
      <4>5. QED
        BY <4>1, <4>2, <4>3, <4>4 DEF UdpNext, Stopped
    <3>3. QED
      BY <3>1, <3>2
  <2>4. ASSUME clock' # "set"
        PROVE  OnTime'
    <3>1. ~CutShort /\ clock # "set"
      <4>1. ~ClockSet
        BY <2>4 DEF ClockSet
      <4>2. ~CutShort
        <5>1. CutShort => sendCount' = sendCount + 1 \/ nTestIndex' # nTestIndex
          BY DEF CutShort
        <5>2. QED
          BY <2>1, <5>1, PaceTypes
      <4>3. clock' = clock
        BY <4>1, <4>2
        DEF UdpNext, Start, CallLogic, LogicStep, Sendto, StillWaiting, Break, ReceiveDatagram,
            SelectTimeout, ServerAnswers, NatDrops, Stopped, udpVars
      <4>4. QED
        BY <2>4, <4>2, <4>3
    <3>2. /\ elapsed >= TimeSince \/ elapsed >= Limit
          /\ fCompleted[CurrentTest] /\ CurrentTest \notin answered => elapsed >= Limit
      BY <1>6, <2>1, <3>1 DEF PaceInv, Pace
    <3>3. LogicStep /\ NotifyTimeout => elapsed >= Limit
      BY <1>6, <2>1, <3>1, WaitIsOver DEF LogicStep, NotifyTimeout, InTest
    <3>4. fCompleted'[CurrentTest] /\ CurrentTest \notin answered' => elapsed >= Limit
      BY <2>2, <2>3, <3>2, <3>3
    <3>5. CASE SelectTimeout
      <4>1. /\ elapsed' >= TimeSince' \/ elapsed' >= Limit
            /\ elapsed >= Limit => elapsed' >= Limit
        BY <1>6, <2>1, <3>1, <3>5, TimePasses
      <4>2. QED
        BY <2>2, <2>3, <3>4, <4>1
    <3>6. CASE ~SelectTimeout
      <4>1. elapsed' = elapsed /\ now' = now
        <5>1. CASE LogicStep
          BY <2>1, <5>1, PaceTypes DEF LogicStep
        <5>2. CASE ~LogicStep
          <6>1. ~ClockSet
            BY <2>4 DEF ClockSet
          <6>2. QED
            BY <3>6, <5>2, <6>1
            DEF UdpNext, Start, CallLogic, Sendto, StillWaiting, Break, ReceiveDatagram,
                ServerAnswers, NatDrops, Stopped, udpVars
        <5>3. QED
          BY <5>1, <5>2
      <4>2. TimeSince' = TimeSince
        BY <2>1, <4>1 DEF TimeSince
      <4>3. QED
        BY <2>2, <2>3, <3>2, <3>4, <4>1, <4>2
    <3>7. QED
      BY <3>5, <3>6
  <2>5. QED
    BY <1>1, <1>2, <1>3, <2>2, <2>4 DEF PaceInv, Pace
<1>7. sendCount' \in Nat
  BY <1>1 DEF UdpInv, IInv, TypeOK
<1>8. QED
  BY <1>4, <1>5, <1>6, <1>7

(* Every test is waited for as long as configured (GetNextMessage), however *)
(* the counter wraps around, unless the clock behind it was set.           *)
THEOREM NobodyGivesUpEarly == UdpSpec => NoEarlyGiveUp
<1>1. PaceInv /\ [UdpNext]_udpVars => [CutShort => clock = "set"]_udpVars
  BY CutShortTells
<1>2. QED
  BY <1>1, InitPace, StepPace, PTL DEF UdpSpec, NoEarlyGiveUp
-----------------------------------------------------------------------------
(* Exactness.  On a network that loses nothing the answer to a test that   *)
(* has one is on its way until it arrives, and nobody gives the test up    *)
(* meanwhile: time stands still while something is in flight, and a clock  *)
(* that is set costs one attempt of two.                                   *)

(* What the code takes for granted: a second attempt, DEFAULT_MAX_ATTEMPTS *)
(* (needed only where the clock may be set), and a server at the address   *)
(* it is told.                                                             *)
SecondAttempt == "wall" \in Clocks => DefaultAttempts > 1

PrimarySocket == [ip |-> "Primary", port |-> "Primary"]
PrimaryServes == \A s \in Servers : PrimarySocket \in s

(* The tests that get an answer if nothing is lost                         *)
Certain(t) ==
    /\ reliable
    /\ t # "test1" => sockets = Server!Socket
    /\ t = "filtering2" => nat.filtering = "EndpointIndependent"
    /\ t = "filtering3" => nat.filtering # "AddressAndPortDependent"

(* A response that test t takes, in front of a NAT that lets it in         *)
Arriving(p, t) ==
    /\ p.msg.tid = t /\ LetIn(p)
    /\ t \in MappingTests => p.msg.mapped # NoAddr

(* The request is about to be sent, or on its way, or its response is      *)
OnItsWay(t) ==
    \/ Returned("S_OK") /\ \A m \in spMsg : m.tid = t
    \/ \E p \in toServer : p.msg.tid = t
    \/ \E p \in toClient : Arriving(p, t)

(* No time has passed since the request; only the clock may have been set, *)
(* and then there is another attempt                                       *)
InTime ==
    /\ elapsed = 0 /\ ~fCompleted[CurrentTest] /\ transid[CurrentTest] = CurrentTest
    /\ clock # "spent" => sendCount <= 1
    /\ clock # "set" => timeLastMessageSent = now

Ground ==
    /\ PrimarySocket \in sockets
    /\ clock # "steady" => DefaultAttempts > 1
    /\ fInitialized => /\ config.timeoutSeconds > 0
                       /\ config.uMaxAttempts = DefaultAttempts
    /\ \A p \in toServer : p.dst \in natSent
    /\ sockets = Server!Socket => \A p \in toClient : p.msg.tid = "test1" => p.msg.other # NoAddr
    /\ sockets = Server!Socket /\ results.fBindingTestSuccess => results.fHasOtherAddress
    /\ OverAtEnd

Promised ==
    \A t \in Tests : Certain(t) /\ requests[t] > 0 =>
        t \in answered \/ (IsCurrent(t) /\ OnItsWay(t) /\ InTime)

ExactInv == FilterInv /\ Pace /\ Ground /\ Promised

-----------------------------------------------------------------------------
(* The server's answer                                                     *)
LEMMA SocketOfDest ==
    ASSUME PrimarySocket \in sockets, NEW p, SentFrom(p, 1),
           p.msg.tid # "test1" => sockets = Server!Socket
    PROVE  \E a : a \in Answers(p, FALSE)
<1> DEFINE s == [ip |-> IF p.msg.tid \in {"behavior2", "behavior3"} THEN "Alternate"
                                                                    ELSE "Primary",
                 port |-> IF p.msg.tid = "behavior3" THEN "Alternate" ELSE "Primary"]
<1>1. s \in sockets
  BY DEF PrimarySocket, Server!Socket, Server!Side
<1>2. ServerAddr(s) = p.dst
  BY DEF ServerAddr, SentFrom, DestOf
<1> HIDE DEF s
<1>3. ResponseTo(s, p, FALSE) \in Answers(p, FALSE)
  BY <1>1, <1>2 DEF Answers
<1>4. QED
  BY <1>3

LEMMA AnswerOfUse ==
    ASSUME WorldOK, NEW p, SentFrom(p, 1), Asked(p.msg), NEW a \in Answers(p, FALSE),
           p.msg.tid # "test1" => sockets = Server!Socket
    PROVE  /\ a.msg.tid = p.msg.tid /\ a.msg.mapped # NoAddr /\ a.dst = p.src
           /\ sockets = Server!Socket => a.msg.other # NoAddr
           /\ p.msg.tid \in MappingTests => a.src = p.dst
<1>1. PICK s \in sockets : ServerAddr(s) = p.dst /\ a = ResponseTo(s, p, FALSE)
  BY DEF Answers
<1>2. s \in Server!Socket
  BY <1>1 DEF WorldOK
<1> DEFINE addrs    == [t \in Server!Socket |-> ServerAddr(t)]
           req      == RequestAt(s, p, FALSE)
           answer   == Server!Answer(req, sockets, addrs, Server!NoChallenge)
           opposite == [ip |-> Server!Other(s.ip), port |-> Server!Other(s.port)]
<1>3. /\ a.msg.tid = p.msg.tid /\ a.src = ServerAddr(answer.from) /\ a.dst = answer.to
      /\ answer.response.kind = "Success" => /\ a.msg.mapped = answer.response.mapped
                                             /\ a.msg.other = answer.response.other
  BY <1>1 DEF ResponseTo
<1>4. /\ req.msg.class = "Request" /\ req.msg.type = "Binding" /\ req.msg.responsePort = 0
      /\ req.socket = s /\ req.addrRemote = p.src
      /\ ~req.fConnectionOriented
      /\ req.auth.responseType = "NoProvider"
      /\ req.msg.change.fChangeIP <=> p.msg.changeIP
      /\ req.msg.change.fChangePort <=> p.msg.changePort
  BY DEF RequestAt
<1> HIDE DEF req
<1>5. /\ p.msg.tid \in Tests
      /\ p.msg.tid \in MappingTests => Server!Sender(req) = s
      /\ p.msg.tid \notin MappingTests => sockets = Server!Socket
  BY <1>2, <1>4 DEF Server!Sender, Server!Socket, Asked, MappingTests, SentFrom
<1>6. Server!Sender(req) \in Server!Socket
  BY <1>2, <1>4 DEF Server!Sender, Server!Socket, Server!Side, Server!Other
<1>7. Server!Sender(req) \in sockets
  BY <1>1, <1>5, <1>6
<1>8. Server!AuthError(req) = 0
  BY <1>4 DEF Server!AuthError
<1>9. Server!ErrorCode(req, sockets) = 0
  BY <1>4, <1>7, <1>8 DEF Server!ErrorCode, Server!Malformed, Server!Impossible
<1>10. Server!Destination(req) = p.src
  BY <1>4 DEF Server!Destination
<1>11. /\ answer.response.kind = "Success" /\ answer.response.mapped = p.src
       /\ answer.response.other = Server!OtherAddress(req, sockets, addrs)
       /\ answer.from = Server!Sender(req) /\ answer.to = p.src
  BY <1>4, <1>9, <1>10 DEF Server!Answer
<1> HIDE DEF answer
<1>12. p.src \in RealAddr
  BY UdpAssumption, MappedPort DEF SentFrom, WorldOK
<1>13. opposite \in Server!Socket
  BY <1>2 DEF Server!Socket, Server!Side, Server!Other
<1>14. ServerAddr(opposite) \in RealAddr
  BY WorldAssumption DEF ServerAddr, RealAddr
<1>15. sockets = Server!Socket => Server!OtherAddress(req, sockets, addrs) = ServerAddr(opposite)
  BY <1>4, <1>13, <1>14, AddressAssumption
  DEF Server!OtherAddress, Server!IsIPAddressZero, RealAddr
<1>16. \A x \in RealAddr : x # NoAddr
  BY AddressAssumption, RealIsSent
<1>17. /\ a.msg.mapped # NoAddr /\ a.dst = p.src
       /\ sockets = Server!Socket => a.msg.other # NoAddr
  BY <1>3, <1>11, <1>12, <1>14, <1>15, <1>16
<1>18. p.msg.tid \in MappingTests => a.src = p.dst
  BY <1>1, <1>3, <1>5, <1>11
<1>19. QED
  BY <1>3, <1>17, <1>18

LEMMA AnswerArrives ==
    ASSUME FilterInv, Ground, NEW t \in Tests, Certain(t), NEW p \in toServer, p.msg.tid = t
    PROVE  \E a \in Answers(p, FALSE) : Arriving(a, t)
<1>1. SentFrom(p, 1) /\ Asked(p.msg) /\ p.dst \in natSent /\ WorldOK
  BY DEF FilterInv, Filter, UdpInv, Network, Ground
<1>2. p.msg.tid # "test1" => sockets = Server!Socket
  BY DEF Certain
<1>3. PICK a \in Answers(p, FALSE) : TRUE
  BY <1>1, <1>2, SocketOfDest DEF Ground
<1>4. /\ a.msg.tid = t /\ a.msg.mapped # NoAddr /\ a.dst = p.src
      /\ t \in MappingTests => a.src = p.dst
  BY <1>1, <1>2, AnswerOfUse
<1>5. CameFrom(a)
  BY <1>1, AnswerCameFrom
<1>6. Mapped(1, p.dst) = a.dst /\ p.dst = DestOf(t)
  BY <1>1, <1>4 DEF SentFrom
<1>7. nat.filtering = "AddressDependent" => p.dst.ip = a.src.ip
  <2>1. CASE t \in MappingTests
    BY <1>4, <2>1
  <2>2. CASE t = "filtering2"
    BY <2>2 DEF Certain
  <2>3. CASE t = "filtering3"
    BY <1>2, <1>4, <1>5, <1>6, <2>3 DEF CameFrom, DestOf
  <2>4. QED
    BY <2>1, <2>2, <2>3 DEF Tests, MappingTests
<1>8. nat.filtering = "AddressAndPortDependent" => p.dst = a.src
  <2>1. CASE t \in MappingTests
    BY <1>4, <2>1
  <2>2. CASE t \in {"filtering2", "filtering3"}
    BY <2>2 DEF Certain
  <2>3. QED
    BY <2>1, <2>2 DEF Tests, MappingTests
<1>9. LetIn(a)
  BY <1>1, <1>6, <1>7, <1>8 DEF LetIn
<1>10. QED
  BY <1>4, <1>9 DEF Arriving

(* What is let in stays so, as the phone only sends more                   *)
LEMMA StillArriving ==
    ASSUME UNCHANGED nat, natSent \subseteq natSent', NEW p, NEW t, Arriving(p, t)
    PROVE  Arriving(p, t)'
<1>1. \A d : Mapped(1, d)' = Mapped(1, d)
  BY DEF Mapped
<1>2. LetIn(p)'
  BY <1>1 DEF Arriving, LetIn
<1>3. QED
  BY <1>2 DEF Arriving

-----------------------------------------------------------------------------
LEMMA InitExact ==
    ASSUME SecondAttempt, PrimaryServes, UdpInit
    PROVE  ExactInv
<1>1. FilterInv /\ Pace
  BY InitFilter, InitPace DEF PaceInv
<1>2. /\ loop = "Start" /\ ~results.fBindingTestSuccess /\ ~fInitialized
      /\ toServer = {} /\ toClient = {} /\ sockets \in Servers
      /\ \A t \in Tests : ~(requests[t] > 0)
      /\ clock \in {"steady", "wall"} /\ clock \in Clocks
  BY UdpAssumption DEF UdpInit, Init, InitResults
<1>3. Ground
  BY <1>2 DEF Ground, SecondAttempt, PrimaryServes, OverAtEnd, Returned
<1>4. Promised
  BY <1>2 DEF Promised
<1>5. QED
  BY <1>1, <1>3, <1>4 DEF ExactInv

(* What both kinds of steps of the logic keep                              *)
LEMMA GroundKept ==
    ASSUME ExactInv, UNCHANGED fixedVars, clock' # "steady" => clock # "steady",
           UNCHANGED <<fInitialized, config>>,
           \A p \in toServer' : p.dst \in natSent',
           sockets = Server!Socket =>
              \A p \in toClient' : p.msg.tid = "test1" => p.msg.other # NoAddr,
           sockets = Server!Socket /\ results'.fBindingTestSuccess => results'.fHasOtherAddress,
           OverAtEnd'
    PROVE  Ground'
BY DEF ExactInv, Ground, fixedVars

LEMMA SilentGround ==
    ASSUME ExactInv, Silent,
           sockets = Server!Socket
    PROVE  results'.fBindingTestSuccess => results'.fHasOtherAddress
<1>1. /\ results'.fHasOtherAddress = results.fHasOtherAddress
      /\ results'.fBindingTestSuccess => results.fBindingTestSuccess
  BY SilentKeeps DEF Silent, ExactInv, FilterInv, UdpInv
<1>2. QED
  BY <1>1 DEF ExactInv, Ground

LEMMA StartGround ==
    ASSUME ExactInv, Start
    PROVE  Ground'
<1>1. PICK c \in Configs : Initialize(c)
  BY DEF Start
<1>2. c.timeoutSeconds = 0 /\ c.uMaxAttempts = 0 /\ ~c.fTimeoutIsInstant /\ c \in Config
  BY CommandLineAssumption, ConfigAssumption
  DEF UdpConfigs, CreateConfigFromCommandLine
<1>3. /\ config' = EffectiveConfig(c) /\ results' = results
      /\ UNCHANGED <<fixedVars, clock, natSent, toServer, toClient>>
      /\ loop' \in {"GetNextMessage", "Failed"}
  BY <1>1 DEF Start, Initialize, worldVars, fixedVars
<1>4. config'.timeoutSeconds = DefaultTimeout /\ config'.uMaxAttempts = DefaultAttempts
  BY <1>2, <1>3 DEF EffectiveConfig, Config
<1>5. DefaultTimeout > 0
  BY ClockAssumption
<1>6. OverAtEnd'
  BY <1>3 DEF OverAtEnd, Returned
<1>7. QED
  BY <1>3, <1>4, <1>5, <1>6 DEF ExactInv, Ground, fixedVars

LEMMA LogicGround ==
    ASSUME ExactInv, LogicStep, [UdpNext]_udpVars
    PROVE  Ground'
<1>1. Silent /\ UNCHANGED <<fInitialized, config>>
  BY DEF LogicStep, Silent, GetNextMessageStep, ResultsReady, PreRunCheck, NextTest, KeepWaiting,
         NotifyTimeout, SendRequest, logicVars
<1>2. UNCHANGED <<fixedVars, natSent, toServer, toClient>> /\ loop = "Result" /\ loop' = "Result"
  BY DEF LogicStep, worldVars, fixedVars
<1>3. clock' # "steady" => clock # "steady"
  BY CutShortTells DEF LogicStep, ExactInv, FilterInv, PaceInv
<1>4. OverAtEnd'
  BY LogicOver DEF ExactInv, FilterInv
<1>5. /\ \A p \in toServer' : p.dst \in natSent'
      /\ sockets = Server!Socket =>
            \A p \in toClient' : p.msg.tid = "test1" => p.msg.other # NoAddr
  BY <1>2 DEF ExactInv, Ground
<1>6. QED
  BY <1>1, <1>2, <1>3, <1>4, <1>5, GroundKept, SilentGround

LEMMA LoopGround ==
    ASSUME ExactInv,
           \/ CallLogic \/ Sendto \/ StillWaiting \/ Break \/ SelectTimeout \/ ClockSet
           \/ ServerAnswers \/ NatDrops \/ UNCHANGED udpVars
    PROVE  Ground'
<1>1. /\ UNCHANGED <<logicVars, fixedVars>> /\ Silent
      /\ clock' # "steady" => clock # "steady"
  BY DEF CallLogic, CallGetNextMessage, Sendto, StillWaiting, Break, SelectTimeout, ClockSet,
         ServerAnswers, NatDrops, udpVars, vars, worldVars, fixedVars, Silent, ExactInv,
         FilterInv, UdpInv
<1>2. UNCHANGED <<fInitialized, config>>
  BY <1>1 DEF logicVars
<1>3. OverAtEnd'
  BY StepOver DEF ExactInv, FilterInv, Ground, UdpNext
<1>4. /\ \A p \in toServer' : p.dst \in natSent'
      /\ sockets = Server!Socket =>
            \A p \in toClient' : p.msg.tid = "test1" => p.msg.other # NoAddr
  <2>1. /\ \A p \in toServer : p.dst \in natSent
        /\ sockets = Server!Socket =>
              \A p \in toClient : p.msg.tid = "test1" => p.msg.other # NoAddr
    BY DEF ExactInv, Ground
  <2>2. CASE Sendto
    BY <2>1, <2>2 DEF Sendto
  <2>3. CASE ServerAnswers
    <3>1. PICK p \in toServer : /\ toServer' = toServer \ {p}
                                /\ toClient' = toClient \cup Answers(p, FALSE)
                                /\ natSent' = natSent
      BY <2>3 DEF ServerAnswers
    <3>2. SentFrom(p, 1) /\ Asked(p.msg) /\ WorldOK
      BY DEF ExactInv, FilterInv, Filter, UdpInv, Network
    <3>3. sockets = Server!Socket => \A a \in Answers(p, FALSE) : a.msg.other # NoAddr
      BY <3>2, AnswerOfUse
    <3>4. QED
      BY <2>1, <3>1, <3>3
  <2>4. CASE NatDrops
    BY <2>1, <2>4 DEF NatDrops
  <2>5. CASE UNCHANGED <<natSent, toServer, toClient>>
    BY <2>1, <2>5
  <2>6. QED
    BY <2>2, <2>3, <2>4, <2>5
    DEF CallLogic, StillWaiting, Break, SelectTimeout, ClockSet, udpVars, worldVars
<1>5. QED
  BY <1>1, <1>2, <1>3, <1>4, GroundKept, SilentGround

LEMMA ReceiveGround ==
    ASSUME ExactInv, ReceiveDatagram
    PROVE  Ground'
<1>1. PICK p \in toClient : ProcessResponse(p.msg, LocalAddr(1))
  BY DEF ReceiveDatagram
<1>2. /\ UNCHANGED <<fixedVars, natSent, toServer, clock>> /\ toClient' \subseteq toClient
      /\ loop' = "GetNextMessage"
  BY DEF ReceiveDatagram, fixedVars
<1>3. UNCHANGED <<fInitialized, config>>
  BY <1>1 DEF ProcessResponse, AcceptResponse, RejectResponse, logicVars
<1>4. /\ \A q \in toServer' : q.dst \in natSent'
      /\ sockets = Server!Socket =>
            \A q \in toClient' : q.msg.tid = "test1" => q.msg.other # NoAddr
  BY <1>2 DEF ExactInv, Ground
<1>5. Faithful(p.msg, 1) /\ p.msg \in Response
  BY DEF ExactInv, FilterInv, UdpInv, Network, Faithful
<1>6. sockets = Server!Socket /\ results'.fBindingTestSuccess => results'.fHasOtherAddress
  <2> SUFFICES ASSUME sockets = Server!Socket, results'.fBindingTestSuccess
               PROVE  results'.fHasOtherAddress
    OBVIOUS
  <2>1. CASE RejectResponse(p.msg)
    BY <1>5, <2>1, SilentGround DEF Silent
  <2>2. CASE AcceptResponse(p.msg, LocalAddr(1))
    <3>1. /\ CurrentTest \in Tests /\ p.msg.tid = CurrentTest
          /\ CurrentTest # "test1" => results.fBindingTestSuccess /\ results.fHasOtherAddress
      BY <1>5, <2>2, AcceptedBy DEF ExactInv, FilterInv, UdpInv
    <3>2. results' = ResponseResults(CurrentTest, p.msg, LocalAddr(1)) /\ results \in Results
      BY <2>2 DEF AcceptResponse, ExactInv, FilterInv, UdpInv, IInv, TypeOK
    <3>3. CASE CurrentTest = "test1"
      <4>1. p.msg.other # NoAddr
        BY <3>1, <3>3 DEF ExactInv, Ground
      <4>2. results' = BindingResults(p.msg, LocalAddr(1))
        BY <3>2, <3>3 DEF ResponseResults
      <4>3. QED
        BY <3>2, <4>1, <4>2 DEF BindingResults, Results
    <3>4. CASE CurrentTest # "test1"
      <4>1. results'.fHasOtherAddress = results.fHasOtherAddress
        BY <3>1, <3>2, <3>4
        DEF ResponseResults, Behavior2Results, Behavior3Results, Filtering2Results,
            Filtering3Results, Results, Tests
      <4>2. QED
        BY <3>1, <3>4, <4>1
    <3>5. QED
      BY <3>3, <3>4
  <2>3. QED
    BY <1>1, <2>1, <2>2 DEF ProcessResponse
<1>7. OverAtEnd'
  BY <1>2 DEF OverAtEnd, Returned
<1>8. QED
  BY <1>2, <1>3, <1>4, <1>6, <1>7, GroundKept

LEMMA StepGround == ExactInv /\ [UdpNext]_udpVars => Ground'
<1> SUFFICES ASSUME ExactInv, [UdpNext]_udpVars
             PROVE  Ground'
  OBVIOUS
<1>1. CASE Start
  BY <1>1, StartGround
<1>2. CASE LogicStep
  BY <1>2, LogicGround
<1>3. CASE ReceiveDatagram
  BY <1>3, ReceiveGround
<1>4. CASE \/ CallLogic \/ Sendto \/ StillWaiting \/ Break \/ SelectTimeout \/ ClockSet
           \/ ServerAnswers \/ NatDrops \/ UNCHANGED udpVars
  BY <1>4, LoopGround
<1>5. QED
  BY <1>1, <1>2, <1>3, <1>4 DEF UdpNext, Stopped

-----------------------------------------------------------------------------
(* Nothing is still to come                                                *)
AllAnswered == \A t \in Tests : Certain(t) /\ requests[t] > 0 => t \in answered

LEMMA AnsweredStay ==
    ASSUME AllAnswered, UNCHANGED fixedVars, requests' = requests, answered \subseteq answered'
    PROVE  Promised'
<1>1. \A t : Certain(t)' <=> Certain(t)
  BY DEF Certain, fixedVars
<1>2. QED
  BY <1>1 DEF AllAnswered, Promised

(* Only the current test can be waiting for its answer                     *)
LEMMA OneAwaited ==
    ASSUME ExactInv, ~AllAnswered
    PROVE  /\ HasCurrentTest /\ CurrentTest \in Tests /\ fInitialized
           /\ Certain(CurrentTest) /\ requests[CurrentTest] = sendCount /\ sendCount > 0
           /\ CurrentTest \notin answered /\ OnItsWay(CurrentTest) /\ InTime
           /\ fPreCheckRunOnTest /\ IsReadyToRun(CurrentTest)
           /\ \A t \in Tests : Certain(t) /\ requests[t] > 0 =>
                 t \in answered \/ t = CurrentTest
<1>1. PICK t \in Tests : Certain(t) /\ requests[t] > 0 /\ t \notin answered
  BY DEF AllAnswered
<1>2. IsCurrent(t) /\ OnItsWay(t) /\ InTime
  BY <1>1 DEF ExactInv, Promised
<1>3. HasCurrentTest /\ t = CurrentTest
  BY <1>2 DEF IsCurrent
<1>4. requests[t] = sendCount
  BY <1>2 DEF ExactInv, FilterInv, UdpInv, IInv, Progress
<1>5. fInitialized
  BY <1>1 DEF ExactInv, FilterInv, UdpInv, IInv, Setup
<1>6. ~fCompleted[CurrentTest]
  BY <1>2 DEF InTime
<1>7. fPreCheckRunOnTest /\ IsReadyToRun(CurrentTest)
  BY <1>1, <1>4, <1>6 DEF ExactInv, Pace
<1>8. \A u \in Tests : Certain(u) /\ requests[u] > 0 => u \in answered \/ u = CurrentTest
  BY DEF ExactInv, Promised, IsCurrent
<1>9. QED
  BY <1>1, <1>2, <1>3, <1>4, <1>5, <1>7, <1>8

(* As long as it is on its way and in time, so is the promise              *)
LEMMA StillAwaited ==
    ASSUME ExactInv, ~AllAnswered, UNCHANGED fixedVars,
           requests' = requests, answered' = answered,
           UNCHANGED <<testlist, nTestIndex>>,
           NEW CONSTANT t, t = CurrentTest, OnItsWay(t)', InTime'
    PROVE  Promised'
<1>1. \A u : Certain(u)' <=> Certain(u)
  BY DEF Certain, fixedVars
<1>2. HasCurrentTest' /\ CurrentTest' = CurrentTest
  BY OneAwaited DEF HasCurrentTest, CurrentTest
<1>3. \A u \in Tests : Certain(u) /\ requests[u] > 0 => u \in answered \/ u = t
  BY OneAwaited
<1>4. IsCurrent(t)' /\ OnItsWay(t)'
  BY <1>2 DEF IsCurrent
<1>5. QED
  BY <1>1, <1>3, <1>4 DEF Promised

(* What is in flight stays in flight                                       *)
LEMMA StillOnItsWay ==
    ASSUME UNCHANGED nat, natSent \subseteq natSent', toServer \subseteq toServer',
           toClient \subseteq toClient', NEW t, OnItsWay(t), ~Returned("S_OK")
    PROVE  OnItsWay(t)'
<1>1. CASE \E p \in toServer : p.msg.tid = t
  BY <1>1 DEF OnItsWay
<1>2. CASE \E p \in toClient : Arriving(p, t)
  <2>1. PICK p \in toClient : Arriving(p, t)
    BY <1>2
  <2>2. Arriving(p, t)'
    BY <2>1, StillArriving
  <2>3. QED
    BY <2>1, <2>2 DEF OnItsWay
<1>3. QED
  BY <1>1, <1>2 DEF OnItsWay

LEMMA StillInTime ==
    ASSUME InTime, UNCHANGED <<elapsed, clock, now, sendCount, timeLastMessageSent, fCompleted,
                              transid, testlist, nTestIndex>>
    PROVE  InTime'
BY DEF InTime, CurrentTest

-----------------------------------------------------------------------------
(* The steps outside the logic                                             *)
LEMMA LoopPromise ==
    ASSUME ExactInv,
           \/ CallLogic \/ Sendto \/ StillWaiting \/ Break \/ SelectTimeout \/ ClockSet
           \/ ServerAnswers \/ NatDrops \/ UNCHANGED udpVars
    PROVE  Promised'
<1>1. /\ UNCHANGED <<logicVars, history, fixedVars, spMsg>>
      /\ requests' = requests /\ answered' = answered
  BY DEF CallLogic, CallGetNextMessage, Sendto, StillWaiting, Break, SelectTimeout, ClockSet,
         ServerAnswers, NatDrops, udpVars, vars, callVars, history, worldVars, fixedVars
<1>2. CASE AllAnswered
  BY <1>1, <1>2, AnsweredStay
<1>3. CASE ~AllAnswered
  <2>1. /\ HasCurrentTest /\ Certain(CurrentTest) /\ OnItsWay(CurrentTest) /\ InTime
        /\ CurrentTest \in Tests /\ sendCount > 0
    BY <1>3, OneAwaited
  <2>2. PICK t : t = CurrentTest
    OBVIOUS
  <2>3. t \in Tests /\ Certain(t) /\ OnItsWay(t) /\ reliable
    BY <2>1, <2>2 DEF Certain
  <2>4. UNCHANGED <<nat, testlist, nTestIndex, sendCount, timeLastMessageSent, fCompleted,
                    transid>>
    BY <1>1 DEF logicVars, fixedVars
  <2>5. CASE CallLogic
    <3>1. UNCHANGED <<toServer, toClient, natSent, elapsed, clock, now>> /\ ~Returned("S_OK")
      BY <2>5 DEF CallLogic, worldVars, Returned
    <3>2. OnItsWay(t)' /\ InTime'
      BY <2>1, <2>3, <2>4, <3>1, StillOnItsWay, StillInTime
    <3>3. QED
      BY <1>1, <1>3, <2>2, <2>4, <3>2, StillAwaited
  <2>6. CASE StillWaiting \/ Break
    <3>1. UNCHANGED <<toServer, toClient, natSent, elapsed, clock, now>> /\ ~Returned("S_OK")
      BY <2>6 DEF StillWaiting, Break, worldVars, Returned
    <3>2. OnItsWay(t)' /\ InTime'
      BY <2>1, <2>3, <2>4, <3>1, StillOnItsWay, StillInTime
    <3>3. QED
      BY <1>1, <1>3, <2>2, <2>4, <3>2, StillAwaited
  <2>7. CASE UNCHANGED udpVars
    <3>1. /\ UNCHANGED <<toServer, toClient, natSent, elapsed, clock, now>>
          /\ UNCHANGED <<loop, pc, hr, spMsg>>
      BY <2>7 DEF udpVars, vars, callVars, worldVars
    <3>2. OnItsWay(t)'
      <4>1. \A p : Arriving(p, t) => Arriving(p, t)'
        BY <2>4, <3>1, StillArriving
      <4>2. QED
        BY <2>3, <3>1, <4>1 DEF OnItsWay, Returned
    <3>3. InTime'
      BY <2>1, <2>4, <3>1, StillInTime
    <3>4. QED
      BY <1>1, <1>3, <2>2, <2>4, <3>2, <3>3, StillAwaited
  <2>8. CASE Sendto
    <3>1. UNCHANGED <<elapsed, clock, now, toClient>>
      BY <2>8 DEF Sendto
    <3>2. PICK m \in spMsg :
             /\ natSent' = natSent \cup {m.dest}
             /\ toServer' = toServer \cup {[src |-> Mapped(1, m.dest), dst |-> m.dest, msg |-> m]}
      BY <2>3, <2>8 DEF Sendto
    <3>3. CASE Returned("S_OK") /\ \A n \in spMsg : n.tid = t
      <4>1. [src |-> Mapped(1, m.dest), dst |-> m.dest, msg |-> m] \in toServer' /\ m.tid = t
        BY <3>2, <3>3
      <4>2. OnItsWay(t)'
        BY <4>1 DEF OnItsWay
      <4>3. QED
        BY <1>1, <1>3, <2>1, <2>2, <2>4, <3>1, <4>2, StillAwaited, StillInTime
    <3>4. CASE ~(Returned("S_OK") /\ \A n \in spMsg : n.tid = t)
      <4>1. \A p : Arriving(p, t) => Arriving(p, t)'
        BY <2>4, <3>2, StillArriving
      <4>2. OnItsWay(t)'
        BY <2>3, <3>1, <3>2, <3>4, <4>1 DEF OnItsWay
      <4>3. QED
        BY <1>1, <1>3, <2>1, <2>2, <2>4, <3>1, <4>2, StillAwaited, StillInTime
    <3>5. QED
      BY <3>3, <3>4
  <2>9. CASE SelectTimeout
    <3>1. loop = "Select" /\ toServer = {} /\ toClient = {}
      BY <2>3, <2>9 DEF SelectTimeout
    <3>2. FALSE
      BY <2>3, <3>1 DEF OnItsWay, Returned
    <3>3. QED
      BY <3>2
  <2>10. CASE ClockSet
    <3>1. /\ UNCHANGED <<toServer, toClient, natSent, elapsed>> /\ ~Returned("S_OK")
          /\ clock = "wall" /\ clock' = "set"
      BY <2>10 DEF ClockSet, worldVars, Returned
    <3>2. OnItsWay(t)'
      BY <2>3, <2>4, <3>1, StillOnItsWay
    <3>3. InTime'
      BY <2>1, <2>4, <3>1 DEF InTime, CurrentTest
    <3>4. QED
      BY <1>1, <1>3, <2>2, <2>4, <3>2, <3>3, StillAwaited
  <2>11. CASE ServerAnswers
    <3>1. UNCHANGED <<elapsed, clock, now, natSent, loop, pc, hr, spMsg>>
      BY <2>11 DEF ServerAnswers, vars, callVars
    <3>2. PICK p \in toServer : /\ toServer' = toServer \ {p}
                                /\ toClient' = toClient \cup Answers(p, FALSE)
      BY <2>11 DEF ServerAnswers
    <3>3. \A q : Arriving(q, t) => Arriving(q, t)'
      BY <2>4, <3>1, StillArriving
    <3>4. OnItsWay(t)'
      <4>1. CASE p.msg.tid = t
        <5>1. PICK a \in Answers(p, FALSE) : Arriving(a, t)
          BY <2>3, <4>1, AnswerArrives DEF ExactInv
        <5>2. QED
          BY <3>2, <3>3, <5>1 DEF OnItsWay
      <4>2. CASE p.msg.tid # t
        BY <2>3, <3>1, <3>2, <3>3, <4>2 DEF OnItsWay, Returned
      <4>3. QED
        BY <4>1, <4>2
    <3>5. QED
      BY <1>1, <1>3, <2>1, <2>2, <2>4, <3>1, <3>4, StillAwaited, StillInTime
  <2>12. CASE NatDrops
    <3>1. UNCHANGED <<elapsed, clock, now, natSent, toServer, loop, pc, hr, spMsg>>
      BY <2>12 DEF NatDrops, vars, callVars
    <3>2. PICK p \in toClient : ~LetIn(p) /\ toClient' = toClient \ {p}
      BY <2>12 DEF NatDrops
    <3>3. \A q : Arriving(q, t) => Arriving(q, t)' /\ q # p
      BY <2>4, <3>1, <3>2, StillArriving DEF Arriving
    <3>4. OnItsWay(t)'
      BY <2>3, <3>1, <3>2, <3>3 DEF OnItsWay, Returned
    <3>5. QED
      BY <1>1, <1>3, <2>1, <2>2, <2>4, <3>1, <3>4, StillAwaited, StillInTime
  <2>13. QED
    BY <2>5, <2>6, <2>7, <2>8, <2>9, <2>10, <2>11, <2>12
<1>4. QED
  BY <1>2, <1>3

-----------------------------------------------------------------------------
(* The steps of the logic                                                  *)
LEMMA StartPromise ==
    ASSUME ExactInv, Start
    PROVE  Promised'
<1>1. /\ ~fInitialized /\ requests' = requests /\ answered' = answered
      /\ UNCHANGED fixedVars
  BY DEF Start, Initialize, history, worldVars, fixedVars
<1>2. \A t \in Tests : requests[t] = 0
  BY <1>1 DEF ExactInv, FilterInv, UdpInv, IInv, Setup
<1>3. AllAnswered
  BY <1>2 DEF AllAnswered
<1>4. QED
  BY <1>1, <1>3, AnsweredStay

(* Only a clock that was set makes the logic give up waiting               *)
LEMMA StillInWait ==
    ASSUME ExactInv, ~AllAnswered, loop = "Result", pc = "next", clock # "set"
    PROVE  InWait
<1>1. PaceInv
  BY DEF ExactInv, FilterInv, PaceInv
<1>2. timeLastMessageSent = now /\ timeCurrent = now /\ sendCount > 0 /\ fInitialized
  BY OneAwaited DEF InTime, ExactInv, Pace
<1>3. (now + ClockModulus - now) % ClockModulus = 0
  BY <1>1, PaceTypes, Ticks, Since
<1>4. SecondsSinceSend = 0
  BY <1>2, <1>3, Ticks DEF SecondsSinceSend
<1>5. config.timeoutSeconds > 0 /\ config.timeoutSeconds \in Nat /\ sendCount \in Nat
  BY <1>1, <1>2, PaceTypes DEF ExactInv, Ground
<1>6. QED
  BY <1>2, <1>4, <1>5 DEF InWait

(* So it does not give the test up                                         *)
LEMMA NotGivenUp ==
    ASSUME ExactInv, ~AllAnswered, LogicStep
    PROVE  ~NotifyTimeout
<1> SUFFICES ASSUME NotifyTimeout
             PROVE  FALSE
  OBVIOUS
<1>1. /\ loop = "Result" /\ pc = "next" /\ ~InWait /\ sendCount >= config.uMaxAttempts
  BY DEF LogicStep, NotifyTimeout, InTest
<1>2. clock = "set"
  BY <1>1, StillInWait
<1>3. sendCount <= 1 /\ fInitialized
  BY <1>2, OneAwaited DEF InTime
<1>4. config.uMaxAttempts = DefaultAttempts /\ DefaultAttempts > 1
  BY <1>2, <1>3 DEF ExactInv, Ground
<1>5. sendCount \in Nat /\ DefaultAttempts \in Nat
  BY PaceTypes, ClockAssumption DEF ExactInv, FilterInv, PaceInv
<1>6. QED
  BY <1>1, <1>3, <1>4, <1>5

(* Every request is the beginning of a new promise                         *)
LEMMA RequestInTime ==
    ASSUME ExactInv, LogicStep, SendRequest, Certain(CurrentTest)
    PROVE  InTime'
<1>1. PaceInv
  BY DEF ExactInv, FilterInv, PaceInv
<1>2. /\ InTest /\ pc = "next" /\ HasCurrentTest /\ loop = "Result" /\ ~InWait
      /\ CurrentTest \in Tests /\ ~fCompleted[CurrentTest]
  BY CurrentTestType
  DEF SendRequest, LogicStep, InTest, IsReadyToRun, ExactInv, FilterInv, UdpInv, IInv
<1>3. CurrentTest' = CurrentTest /\ fCompleted' = fCompleted /\ config' = config
  BY DEF SendRequest, CurrentTest
<1>4. transid'[CurrentTest] = CurrentTest
  <2>1. transid' = [transid EXCEPT ![CurrentTest] = IF @ = NoTid THEN CurrentTest ELSE @]
    BY DEF SendRequest
  <2>2. transid[CurrentTest] \in {NoTid, CurrentTest}
    BY <1>2 DEF ExactInv, FilterInv, UdpInv, WorldOK
  <2>3. transid \in [Tests -> Tests \cup {NoTid}]
    BY DEF ExactInv, FilterInv, UdpInv, IInv, TypeOK
  <2>4. QED
    BY <1>2, <2>1, <2>2, <2>3
<1>5. sendCount \in Nat /\ sendCount' = sendCount + 1
  BY <1>1, PaceTypes DEF SendRequest
<1>6. elapsed' = 0 /\ timeLastMessageSent' = now' /\ clock' = IF CutShort THEN "spent" ELSE clock
  BY <1>1, <1>2, <1>5 DEF LogicStep, SendRequest, PaceInv, Pace
<1>7. clock' # "spent" => sendCount' <= 1
  <2>1. CASE AllAnswered
    <3>1. CurrentTest \notin answered
      BY <1>2 DEF ExactInv, FilterInv, UdpInv, IInv, Progress
    <3>2. ~(requests[CurrentTest] > 0)
      BY <1>2, <2>1, <3>1 DEF AllAnswered
    <3>3. requests[CurrentTest] = sendCount
      BY <1>2 DEF ExactInv, FilterInv, UdpInv, IInv, Progress, IsCurrent
    <3>4. QED
      BY <1>5, <3>2, <3>3
  <2>2. CASE ~AllAnswered
    <3>1. sendCount > 0 /\ elapsed = 0 /\ fInitialized
      BY <2>2, OneAwaited DEF InTime
    <3>2. config.timeoutSeconds > 0 /\ config.timeoutSeconds \in Nat
      BY <1>1, <3>1, PaceTypes DEF ExactInv, Ground
    <3>3. 0 < config.timeoutSeconds * TicksPerSecond
      BY <3>2, Ticks
    <3>4. CutShort
      BY <1>5, <3>1, <3>3 DEF CutShort
    <3>5. QED
      BY <1>6, <3>4
  <2>3. QED
    BY <2>1, <2>2
<1>8. QED
  BY <1>2, <1>3, <1>4, <1>6, <1>7 DEF InTime

LEMMA SendPromise ==
    ASSUME ExactInv, LogicStep, SendRequest
    PROVE  Promised'
<1>1. /\ HasCurrentTest /\ CurrentTest \in Tests /\ CurrentTest' = CurrentTest
      /\ HasCurrentTest' /\ answered' = answered /\ UNCHANGED fixedVars
      /\ requests' = [requests EXCEPT ![CurrentTest] = @ + 1]
      /\ spMsg' = {GetMessage(CurrentTest)} /\ Returned("S_OK")'
  BY CurrentTestType
  DEF SendRequest, LogicStep, InTest, ExactInv, FilterInv, UdpInv, IInv, CurrentTest,
      HasCurrentTest, Return, Returned, worldVars, fixedVars
<1>2. PICK t : t = CurrentTest
  OBVIOUS
<1>3. \A u : Certain(u)' <=> Certain(u)
  BY <1>1 DEF Certain, fixedVars
<1>4. IsCurrent(t)'
  BY <1>1, <1>2 DEF IsCurrent
<1>5. OnItsWay(t)'
  BY <1>1, <1>2 DEF OnItsWay, GetMessage
<1>6. Certain(t) => InTime'
  BY <1>2, RequestInTime
<1>7. \A u \in Tests : Certain(u) /\ requests[u] > 0 => u \in answered \/ u = t
  BY <1>2 DEF ExactInv, Promised, IsCurrent
<1>8. \A u \in Tests : u # t => requests'[u] = requests[u]
  BY <1>1, <1>2 DEF ExactInv, FilterInv, UdpInv, IInv, TypeOK
<1>9. ASSUME NEW u \in Tests, Certain(u)', requests'[u] > 0
      PROVE  u \in answered' \/ (IsCurrent(u) /\ OnItsWay(u) /\ InTime)'
  <2>1. CASE u = t
    BY <1>3, <1>4, <1>5, <1>6, <1>9, <2>1
  <2>2. CASE u # t
    BY <1>1, <1>3, <1>7, <1>8, <1>9, <2>2
  <2>3. QED
    BY <2>1, <2>2
<1>10. QED
  BY <1>9 DEF Promised

LEMMA LogicPromise ==
    ASSUME ExactInv, LogicStep
    PROVE  Promised'
<1>1. UNCHANGED <<fixedVars, toServer, toClient, natSent, now>> /\ loop = "Result"
  BY DEF LogicStep, worldVars, fixedVars
<1>2. CASE SendRequest
  BY <1>2, SendPromise
<1>3. CASE ResultsReady \/ PreRunCheck \/ NextTest \/ NotifyTimeout
  <2>1. AllAnswered
    <3>1. SUFFICES ASSUME ~AllAnswered
                   PROVE  FALSE
      OBVIOUS
    <3>2. HasCurrentTest /\ fPreCheckRunOnTest /\ IsReadyToRun(CurrentTest)
      BY <3>1, OneAwaited
    <3>3. ~NotifyTimeout
      BY <3>1, NotGivenUp
    <3>4. ~ResultsReady /\ ~PreRunCheck
      BY <3>2, Zenon DEF ResultsReady, PreRunCheck
    <3>5. ~NextTest
      BY <3>2 DEF NextTest, IsReadyToRun
    <3>6. QED
      BY <1>3, <3>3, <3>4, <3>5
  <2>2. requests' = requests /\ answered' = answered
    BY <1>3 DEF ResultsReady, PreRunCheck, NextTest, NotifyTimeout, history
  <2>3. QED
    BY <1>1, <2>1, <2>2, AnsweredStay
<1>4. CASE KeepWaiting
  <2>1. UNCHANGED <<logicVars, spMsg, history>> /\ pc = "next"
    BY <1>4 DEF KeepWaiting, InTest
  <2>2. CASE AllAnswered
    BY <1>1, <2>1, <2>2, AnsweredStay DEF history
  <2>3. CASE ~AllAnswered
    <3>1. CurrentTest \in Tests /\ OnItsWay(CurrentTest) /\ InTime
      BY <2>3, OneAwaited
    <3>2. UNCHANGED <<sendCount, nTestIndex, testlist, timeLastMessageSent, fCompleted, transid>>
      BY <2>1 DEF logicVars
    <3>3. sendCount \in Nat
      BY PaceTypes DEF ExactInv, FilterInv, PaceInv
    <3>4. elapsed' = elapsed
      BY <3>2, <3>3 DEF LogicStep
    <3>5. ~CutShort
      BY <3>2, <3>3 DEF CutShort
    <3>6. clock' = clock
      BY <3>5 DEF LogicStep
    <3>7. PICK t : t = CurrentTest
      OBVIOUS
    <3>8. ~Returned("S_OK")
      BY <2>1 DEF Returned
    <3>9. OnItsWay(t)'
      BY <1>1, <3>1, <3>7, <3>8, StillOnItsWay DEF fixedVars
    <3>10. InTime'
      BY <1>1, <3>1, <3>2, <3>4, <3>6, StillInTime
    <3>11. requests' = requests /\ answered' = answered
      BY <2>1 DEF history
    <3>12. QED
      BY <1>1, <2>3, <3>2, <3>7, <3>9, <3>10, <3>11, StillAwaited
  <2>4. QED
    BY <2>2, <2>3
<1>5. QED
  BY <1>2, <1>3, <1>4 DEF LogicStep, GetNextMessageStep

(* A response that arrives is accepted, and nothing else that arrives      *)
(* takes its place                                                         *)
LEMMA ReceivePromise ==
    ASSUME ExactInv, ReceiveDatagram
    PROVE  Promised'
<1>1. PICK p \in toClient : /\ ProcessResponse(p.msg, LocalAddr(1))
                            /\ toClient' = IF reliable THEN toClient \ {p} ELSE toClient
  BY DEF ReceiveDatagram
<1>2. /\ UNCHANGED <<fixedVars, natSent, toServer, elapsed, clock, now>>
      /\ loop = "Select" /\ requests' = requests
  BY <1>1
  DEF ReceiveDatagram, fixedVars, ProcessResponse, AcceptResponse, RejectResponse, history
<1>3. CASE AllAnswered
  <2>1. answered \subseteq answered'
    BY <1>1 DEF ProcessResponse, AcceptResponse, RejectResponse, history
  <2>2. QED
    BY <1>2, <1>3, <2>1, AnsweredStay
<1>4. CASE ~AllAnswered /\ AcceptResponse(p.msg, LocalAddr(1))
  <2>1. answered' = answered \cup {CurrentTest}
    BY <1>4 DEF AcceptResponse
  <2>2. \A u : Certain(u)' <=> Certain(u)
    BY <1>2 DEF Certain, fixedVars
  <2>3. \A u \in Tests : Certain(u) /\ requests[u] > 0 => u \in answered'
    BY <1>4, <2>1, OneAwaited
  <2>4. QED
    BY <1>2, <2>2, <2>3 DEF Promised
<1>5. CASE ~AllAnswered /\ RejectResponse(p.msg)
  <2>1. UNCHANGED <<logicVars, history>>
    BY <1>5 DEF RejectResponse
  <2>2. /\ HasCurrentTest /\ CurrentTest \in Tests /\ OnItsWay(CurrentTest) /\ InTime
        /\ Certain(CurrentTest)
    BY <1>5, OneAwaited
  <2>3. PICK t : t = CurrentTest
    OBVIOUS
  <2>4. t \in Tests /\ OnItsWay(t) /\ reliable /\ transid[t] = t /\ ~fCompleted[t]
    BY <2>2, <2>3 DEF Certain, InTime
  <2>5. ~Accepts(t, p.msg)
    BY <1>5, <2>2, <2>3, <2>4 DEF RejectResponse, CanProcess
  <2>6. ~Arriving(p, t)
    BY <2>4, <2>5 DEF Arriving, Accepts, Tests, MappingTests
  <2>7. \A q : Arriving(q, t) => Arriving(q, t)'
    BY <1>2, StillArriving DEF fixedVars
  <2>8. OnItsWay(t)'
    <3>1. CASE \E q \in toServer : q.msg.tid = t
      BY <1>2, <3>1 DEF OnItsWay
    <3>2. CASE \E q \in toClient : Arriving(q, t)
      <4>1. PICK q \in toClient : Arriving(q, t)
        BY <3>2
      <4>2. q \in toClient'
        BY <1>1, <2>4, <2>6, <4>1
      <4>3. QED
        BY <2>7, <4>1, <4>2 DEF OnItsWay
    <3>3. ~Returned("S_OK")
      BY <1>2 DEF Returned
    <3>4. QED
      BY <2>4, <3>1, <3>2, <3>3 DEF OnItsWay
  <2>9. InTime'
    BY <1>2, <2>1, <2>2, StillInTime DEF logicVars
  <2>10. QED
    BY <1>2, <1>5, <2>1, <2>3, <2>8, <2>9, StillAwaited DEF logicVars, history
<1>6. QED
  BY <1>1, <1>3, <1>4, <1>5 DEF ProcessResponse

LEMMA StepExact == ExactInv /\ [UdpNext]_udpVars => ExactInv'
<1> SUFFICES ASSUME ExactInv, [UdpNext]_udpVars
             PROVE  ExactInv'
  OBVIOUS
<1>1. FilterInv'
  BY StepFilter DEF ExactInv
<1>2. Pace'
  BY StepPace DEF ExactInv, FilterInv, PaceInv
<1>3. Ground'
  BY StepGround
<1>4. Promised'
  <2>1. CASE Start
    BY <2>1, StartPromise
  <2>2. CASE LogicStep
    BY <2>2, LogicPromise
  <2>3. CASE ReceiveDatagram
    BY <2>3, ReceivePromise
  <2>4. CASE \/ CallLogic \/ Sendto \/ StillWaiting \/ Break \/ SelectTimeout \/ ClockSet
             \/ ServerAnswers \/ NatDrops \/ UNCHANGED udpVars
    BY <2>4, LoopPromise
  <2>5. QED
    BY <2>1, <2>2, <2>3, <2>4 DEF UdpNext, Stopped
<1>5. QED
  BY <1>1, <1>2, <1>3, <1>4 DEF ExactInv

-----------------------------------------------------------------------------
(* At the end nothing is awaited, so what is missing says what the NAT     *)
(* does not let in                                                         *)
LEMMA NoneExhausted ==
    ASSUME ExactInv, loop = "Done"
    PROVE  /\ fInitialized /\ ~HasCurrentTest
           /\ \A t \in Tests : Certain(t) => ~Exhausted(t)
<1>1. fInitialized /\ ~HasCurrentTest
  BY DEF ExactInv, Ground, OverAtEnd
<1>2. \A t \in Tests : Certain(t) /\ requests[t] > 0 => t \in answered
  BY <1>1 DEF ExactInv, Promised, IsCurrent
<1>3. config.uMaxAttempts > 0
  BY <1>1 DEF ExactInv, FilterInv, UdpInv, IInv, Setup
<1>4. QED
  BY <1>1, <1>2, <1>3 DEF Exhausted

LEMMA FilteringExact ==
    ASSUME ExactInv, loop = "Done", reliable, sockets = Server!Socket,
           results.fFilteringTestSuccess, ~OpenedByBehaviorTest, Translates
    PROVE  results.filtering = nat.filtering
<1>1. Strictness(results.filtering) >= Strictness(nat.filtering)
  BY FilteringFollows
  DEF ExactInv, FilteringSound, FilteringNeverLooser, TakenForDirect, Translates
<1>2. /\ nat.filtering \in {"EndpointIndependent", "AddressDependent",
                            "AddressAndPortDependent"}
      /\ results.filtering \in {"EndpointIndependent", "AddressDependent",
                                "AddressAndPortDependent"}
  BY DEF ExactInv, FilterInv, UdpInv, WorldOK, NatClass, Filtering, IInv, TypeOK, Results,
         FilteringTests
<1>3. FilteringEvidence
  BY FilteringEvidenceFollows DEF ExactInv, FilterInv, UdpInv
<1>4. /\ Exhausted("filtering2") => nat.filtering # "EndpointIndependent"
      /\ Exhausted("filtering3") => nat.filtering = "AddressAndPortDependent"
  BY NoneExhausted DEF Certain, Tests
<1>5. CASE results.filtering = "EndpointIndependent"
  BY <1>1, <1>2, <1>5 DEF Strictness
<1>6. CASE results.filtering = "AddressDependent"
  <2>1. nat.filtering # "EndpointIndependent"
    BY <1>3, <1>4, <1>6 DEF FilteringEvidence
  <2>2. QED
    BY <1>1, <1>2, <1>6, <2>1 DEF Strictness
<1>7. CASE results.filtering = "AddressAndPortDependent"
  BY <1>3, <1>4, <1>7 DEF FilteringEvidence
<1>8. QED
  BY <1>2, <1>5, <1>6, <1>7

LEMMA ExactFollows == ExactInv => ExactDiagnosis
<1> SUFFICES ASSUME ExactInv, reliable, loop = "Done"
             PROVE  /\ results.fBindingTestSuccess
                    /\ (config.fBehaviorTest /\ sockets = Server!Socket) =>
                          results.fBehaviorTestSuccess /\ results.behavior = nat.mapping
                    /\ (config.fFilteringTest /\ sockets = Server!Socket) =>
                          /\ results.fFilteringTestSuccess
                          /\ IF Translates
                             THEN results.filtering = nat.filtering \/ OpenedByBehaviorTest
                             ELSE results.filtering = "EndpointIndependent"
  BY DEF ExactDiagnosis, Translates
<1>1. fInitialized /\ ~HasCurrentTest
  BY NoneExhausted
<1>2. \A t \in Tests : Certain(t) => ~Exhausted(t)
  BY NoneExhausted
<1>3. ConclusiveAtEnd
  BY ConclusiveAtEndFollows DEF ExactInv, FilterInv, UdpInv
<1>4. ~Exhausted("test1")
  BY <1>2 DEF Certain, Tests
<1>5. results.fBindingTestSuccess
  BY <1>1, <1>3, <1>4 DEF ConclusiveAtEnd
<1>6. ASSUME sockets = Server!Socket
      PROVE  /\ results.fHasOtherAddress
             /\ ~Exhausted("behavior2") /\ ~Exhausted("behavior3")
  <2>1. results.fHasOtherAddress
    BY <1>5, <1>6 DEF ExactInv, Ground
  <2>2. Certain("behavior2") /\ Certain("behavior3")
    BY <1>6 DEF Certain
  <2>3. QED
    BY <1>2, <2>1, <2>2 DEF Tests
<1>7. ASSUME config.fBehaviorTest, sockets = Server!Socket
      PROVE  results.fBehaviorTestSuccess /\ results.behavior = nat.mapping
  <2>1. results.fBehaviorTestSuccess
    <3>1. "behavior2" \in answered => ~IsIPAddressZero(results.addrMappingAP)
      BY MappingNotZero DEF ExactInv, FilterInv, UdpInv
    <3>2. QED
      BY <1>1, <1>3, <1>5, <1>6, <1>7, <3>1 DEF ConclusiveAtEnd
  <2>2. QED
    BY <2>1, MappingFollows DEF ExactInv, FilterInv, UdpInv
<1>8. ASSUME config.fFilteringTest, sockets = Server!Socket
      PROVE  /\ results.fFilteringTestSuccess
             /\ IF Translates
                THEN results.filtering = nat.filtering \/ OpenedByBehaviorTest
                ELSE results.filtering = "EndpointIndependent"
  <2>1. results.fFilteringTestSuccess
    BY <1>1, <1>3, <1>5, <1>6, <1>8 DEF ConclusiveAtEnd
  <2>2. CASE Translates
    BY <1>8, <2>1, <2>2, FilteringExact
  <2>3. CASE ~Translates
    <3>1. DirectPath
      BY <1>5, <2>3, DirectPathIsDirect DEF ExactInv, FilterInv
    <3>2. QED
      BY <2>1, <2>3, <3>1
      DEF ExactInv, FilterInv, UdpInv, IInv, TypeOK, Results, Filtering, FilteringTests
  <2>4. QED
    BY <2>2, <2>3
<1>9. QED
  BY <1>5, <1>7, <1>8

(* On a network that loses nothing the UDP client (UdpClientLoop with      *)
(* CStunClientLogic) ends with the right answer to every question the      *)
(* server can help with, and leaves none open, even if the clock is set    *)
(* while a test waits: as long as there is a second attempt then and the   *)
(* server has the socket the client is told of.                            *)
THEOREM DiagnosisIsExact ==
    SecondAttempt /\ PrimaryServes /\ UdpSpec => []ExactDiagnosis
<1>1. SecondAttempt /\ PrimaryServes /\ UdpInit => ExactInv
  BY InitExact
<1>2. QED
  BY <1>1, StepExact, ExactFollows, PTL DEF UdpSpec

=============================================================================
