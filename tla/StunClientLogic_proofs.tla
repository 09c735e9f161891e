----------------------- MODULE StunClientLogic_proofs -----------------------
(***************************************************************************)
(* What StunClientLogic promises for every set of addresses, every clock   *)
(* and every configuration, under any owner; and, in the world where it    *)
(* measures, why a mapping class that the tests conclude is the NAT's.     *)
(***************************************************************************)
EXTENDS StunWorld, TLAPS

-----------------------------------------------------------------------------
(* Type correctness                                                        *)

LEMMA TestListElements ==
    ASSUME NEW b \in BOOLEAN, NEW f \in BOOLEAN
    PROVE  /\ TestList(b, f) \in Seq(Tests)
           /\ Len(TestList(b, f)) \in 1 .. 5
           /\ \A i \in 1 .. Len(TestList(b, f)) : TestList(b, f)[i] \in Tests
<1>1. CASE b /\ f
  BY <1>1 DEF TestList, Tests
<1>2. CASE b /\ ~f
  BY <1>2 DEF TestList, Tests
<1>3. CASE ~b /\ f
  BY <1>3 DEF TestList, Tests
<1>4. CASE ~b /\ ~f
  BY <1>4 DEF TestList, Tests
<1>5. QED
  BY <1>1, <1>2, <1>3, <1>4

LEMMA CurrentTestType ==
    ASSUME TypeOK, HasCurrentTest
    PROVE  CurrentTest \in Tests
<1>1. nTestIndex \in 1 .. Len(testlist)
  BY DEF TypeOK, HasCurrentTest
<1>2. QED
  BY <1>1 DEF TypeOK, CurrentTest

LEMMA ZeroAddrType == ZeroAddr \in Addr
  BY DEF Addr

LEMMA InitResultsType == InitResults \in Results
  BY ZeroAddrType DEF InitResults, Results, Behavior, Filtering

LEMMA SetPortType ==
    ASSUME NEW a \in SentAddr, NEW b \in SentAddr
    PROVE  SetPort(a, b.port) \in SentAddr
  BY DEF SetPort, SentAddr

LEMMA RealIsSent == RealAddr \subseteq SentAddr /\ SentAddr \subseteq Addr
  BY DEF RealAddr, SentAddr, Addr

LEMMA EffectiveConfigType ==
    ASSUME NEW c \in Config
    PROVE  /\ EffectiveConfig(c) \in Config
           /\ EffectiveConfig(c).uMaxAttempts \in Nat \ {0}
           /\ EffectiveConfig(c).fBehaviorTest = c.fBehaviorTest
           /\ EffectiveConfig(c).fFilteringTest = c.fFilteringTest
  BY ClockAssumption DEF EffectiveConfig, Config

LEMMA PreRunResultsType ==
    ASSUME results \in Results, NEW t \in Tests
    PROVE  PreRunResults(t) \in Results
<1>1. [results EXCEPT !.behavior = "Direct", !.fBehaviorTestSuccess = TRUE] \in Results
  BY DEF Results, Behavior
<1>2. [results EXCEPT !.filtering = "EndpointIndependent",
                      !.fFilteringTestSuccess = TRUE] \in Results
  BY DEF Results, Filtering
<1>3. QED
  BY <1>1, <1>2 DEF PreRunResults

LEMMA TimeoutResultsType ==
    ASSUME results \in Results, NEW t \in Tests
    PROVE  TimeoutResults(t) \in Results
  BY DEF TimeoutResults, Results, Filtering, Tests

LEMMA ResponseResultsType ==
    ASSUME results \in Results, config \in Config,
           NEW t \in Tests, NEW m \in Response, NEW a \in RealAddr, Accepts(t, m)
    PROVE  ResponseResults(t, m, a) \in Results
<1>1. CASE t = "test1"
  <2>1. m.mapped \in Addr /\ a \in Addr
    BY <1>1, RealIsSent DEF Accepts, Response
  <2>2. CASE m.other = NoAddr
    BY <1>1, <2>1, <2>2 DEF ResponseResults, BindingResults, Results
  <2>3. CASE m.other # NoAddr
    <3>1. m.other \in SentAddr /\ config.addrServer \in SentAddr
      BY <2>3, RealIsSent DEF Response, Config
    <3>2. /\ SetPort(config.addrServer, m.other.port) \in SentAddr
          /\ SetPort(m.other, config.addrServer.port) \in SentAddr
      BY <3>1, SetPortType
    <3>3. SentAddr \subseteq Addr
      BY RealIsSent
    <3>4. QED
      BY <1>1, <2>1, <2>3, <3>1, <3>2, <3>3
      DEF ResponseResults, BindingResults, Results
  <2>4. QED
    BY <2>2, <2>3
<1>2. CASE t = "behavior2"
  <2>1. m.mapped \in Addr
    BY <1>2, RealIsSent DEF Accepts, Response
  <2>2. QED
    BY <1>2, <2>1 DEF ResponseResults, Behavior2Results, Results, Behavior
<1>3. CASE t = "behavior3"
  <2>1. m.mapped \in Addr
    BY <1>3, RealIsSent DEF Accepts, Response
  <2>2. QED
    BY <1>3, <2>1 DEF ResponseResults, Behavior3Results, Results, Behavior
<1>4. CASE t = "filtering2"
  BY <1>4 DEF ResponseResults, Filtering2Results, Results, Filtering
<1>5. CASE t = "filtering3"
  BY <1>5 DEF ResponseResults, Filtering3Results, Results, Filtering
<1>6. QED
  BY <1>1, <1>2, <1>3, <1>4, <1>5 DEF Tests

LEMMA GetMessageType ==
    ASSUME results \in Results, config \in Config, NEW t \in Tests
    PROVE  GetMessage(t) \in Request
<1>1. config.addrServer \in Addr /\ results.addrAP \in Addr /\ results.addrAA \in Addr
  BY RealIsSent DEF Config, Results
<1>2. QED
  BY <1>1 DEF GetMessage, Request

LEMMA InitTypeOK == Init => TypeOK
<1> SUFFICES ASSUME Init
             PROVE  TypeOK
  OBVIOUS
<1>1. config \in Config /\ results \in Results
  BY ConfigAssumption, InitResultsType DEF Init
<1>2. testlist \in Seq(Tests)
  BY DEF Init
<1>3. timeLastMessageSent \in 0 .. ClockModulus - 1 /\ timeCurrent \in 0 .. ClockModulus - 1
  BY ClockAssumption DEF Init
<1>4. /\ fCompleted \in [Tests -> BOOLEAN]
      /\ transid \in [Tests -> Tests \cup {NoTid}]
      /\ requests \in [Tests -> Nat]
  BY DEF Init
<1>5. spMsg \in SUBSET Request /\ answered \in SUBSET Tests
  BY DEF Init
<1>6. fInitialized \in BOOLEAN /\ fPreCheckRunOnTest \in BOOLEAN
  BY DEF Init
<1>7. /\ sendCount \in Nat /\ nTestIndex \in Nat \ {0}
      /\ pc \in {"idle", "next"}
      /\ hr \in {"none", "S_OK", "E_FAIL", "E_INVALIDARG", "E_UNEXPECTED",
                 "STILL_WAITING", "RESULTS_READY"}
  BY DEF Init
<1>8. QED
  BY <1>1, <1>2, <1>3, <1>4, <1>5, <1>6, <1>7 DEF TypeOK

LEMMA StepTypeOK == TypeOK /\ [Next]_vars => TypeOK'
<1> SUFFICES ASSUME TypeOK, [Next]_vars
             PROVE  TypeOK'
  OBVIOUS
<1>1. ASSUME NEW c \in Configs, Initialize(c)
      PROVE  TypeOK'
  <2>1. c \in Config
    BY ConfigAssumption
  <2>2. EffectiveConfig(c) \in Config
    BY <2>1, EffectiveConfigType
  <2>3. TestList(c.fBehaviorTest, c.fFilteringTest) \in Seq(Tests)
    BY <2>1, TestListElements DEF Config
  <2>4. 0 \in 0 .. ClockModulus - 1
    BY ClockAssumption
  <2>5. /\ config' \in Config
        /\ testlist' \in Seq(Tests)
        /\ timeLastMessageSent' \in 0 .. ClockModulus - 1
    BY <1>1, <2>2, <2>3, <2>4 DEF Initialize
  <2>6. fInitialized' \in BOOLEAN /\ fPreCheckRunOnTest' \in BOOLEAN
    BY <1>1 DEF Initialize
  <2>7. /\ sendCount' \in Nat /\ nTestIndex' \in Nat \ {0}
        /\ pc' \in {"idle", "next"} /\ hr' = "S_OK"
        /\ UNCHANGED <<results, fCompleted, transid, timeCurrent, spMsg,
                       requests, answered>>
    BY <1>1 DEF Initialize, Return, TypeOK, history
  <2>8. QED
    BY <2>5, <2>6, <2>7 DEF TypeOK
<1>2. CASE Reinitialize \/ CallUninitialized \/ InvalidArgument
  BY <1>2 DEF Reinitialize, CallUninitialized, InvalidArgument, Return, TypeOK, logicVars, history
<1>3. ASSUME NEW now \in 0 .. ClockModulus - 1, CallGetNextMessage(now)
      PROVE  TypeOK'
  BY <1>3 DEF CallGetNextMessage, TypeOK, logicVars, history
<1>4. CASE ResultsReady
  BY <1>4 DEF ResultsReady, Return, TypeOK, logicVars, history
<1>5. CASE PreRunCheck
  <2>1. CurrentTest \in Tests
    BY <1>5, CurrentTestType DEF PreRunCheck
  <2>2. results' \in Results
    BY <1>5, <2>1, PreRunResultsType DEF PreRunCheck, TypeOK
  <2>3. fCompleted' \in [Tests -> BOOLEAN]
    BY <1>5, <2>1 DEF PreRunCheck, TypeOK
  <2>4. fPreCheckRunOnTest' \in BOOLEAN
    BY <1>5 DEF PreRunCheck
  <2>5. QED
    BY <1>5, <2>2, <2>3, <2>4 DEF PreRunCheck, TypeOK, callVars, history
<1>6. CASE NextTest
  <2>1. nTestIndex' \in Nat \ {0} /\ sendCount' \in Nat
    BY <1>6 DEF NextTest, TypeOK
  <2>2. fPreCheckRunOnTest' \in BOOLEAN
    BY <1>6 DEF NextTest
  <2>3. QED
    BY <1>6, <2>1, <2>2 DEF NextTest, TypeOK, callVars, history
<1>7. CASE KeepWaiting
  BY <1>7 DEF KeepWaiting, Return, TypeOK, logicVars, history
<1>8. CASE NotifyTimeout
  <2>1. CurrentTest \in Tests
    BY <1>8, CurrentTestType DEF NotifyTimeout, InTest
  <2>2. results' \in Results
    BY <1>8, <2>1, TimeoutResultsType DEF NotifyTimeout, TypeOK
  <2>3. QED
    BY <1>8, <2>2 DEF NotifyTimeout, TypeOK, callVars, history
<1>9. CASE SendRequest
  <2>1. CurrentTest \in Tests
    BY <1>9, CurrentTestType DEF SendRequest, InTest
  <2>2. spMsg' \in SUBSET Request
    BY <1>9, <2>1, GetMessageType DEF SendRequest, TypeOK
  <2>3. transid' \in [Tests -> Tests \cup {NoTid}]
    BY <1>9, <2>1 DEF SendRequest, TypeOK
  <2>4. requests' \in [Tests -> Nat]
    BY <1>9, <2>1 DEF SendRequest, TypeOK
  <2>5. QED
    BY <1>9, <2>2, <2>3, <2>4 DEF SendRequest, Return, TypeOK
<1>10. ASSUME NEW m \in Response, NEW a \in RealAddr, AcceptResponse(m, a)
       PROVE  TypeOK'
  <2>1. CurrentTest \in Tests
    BY <1>10, CurrentTestType DEF AcceptResponse, CanProcess
  <2>2. results' \in Results
    BY <1>10, <2>1, ResponseResultsType DEF AcceptResponse, TypeOK
  <2>3. QED
    BY <1>10, <2>1, <2>2 DEF AcceptResponse, Return, TypeOK
<1>11. ASSUME NEW m \in Response, RejectResponse(m)
       PROVE  TypeOK'
  BY <1>11 DEF RejectResponse, Return, TypeOK, logicVars, history
<1>12. CASE UNCHANGED vars
  BY <1>12 DEF TypeOK, vars, logicVars, callVars, history
<1>13. QED
  BY <1>1, <1>2, <1>3, <1>4, <1>5, <1>6, <1>7, <1>8, <1>9, <1>10, <1>11, <1>12
  DEF Next

(* Every variable keeps its type: CStunClientLogic under any owner.        *)
THEOREM TypeCorrect == Spec => []TypeOK
<1>1. QED
  BY InitTypeOK, StepTypeOK, PTL DEF Spec

-----------------------------------------------------------------------------
(* The inductive invariant.  A test of the list is past, current or still  *)
(* to come; which of these it is decides what its flags may say.           *)

Listed(t)   == \E i \in 1 .. Len(testlist) : testlist[i] = t
Past(t)     == \E i \in 1 .. Len(testlist) : i < nTestIndex /\ testlist[i] = t
IsCurrent(t) == HasCurrentTest /\ t = CurrentTest

DirectPath == results.fBindingTestSuccess /\ results.fIsDirect
NoOther    == ~results.fBindingTestSuccess \/ ~results.fHasOtherAddress

(* Why the list may have moved past t although t never completed           *)
Skipped(t) ==
    /\ t # "test1"
    /\ t \in {"behavior2", "filtering2"} => NoOther /\ ~DirectPath
    /\ t = "behavior3" => \/ NoOther
                          \/ results.fBehaviorTestSuccess
                          \/ "behavior2" \notin answered
                          \/ IsIPAddressZero(results.addrMappingAP)
    /\ t = "filtering3" => NoOther \/ results.fFilteringTestSuccess

Setup ==
    /\ ~fInitialized =>
          /\ testlist = <<>> /\ nTestIndex = 1 /\ sendCount = 0 /\ pc = "idle"
          /\ results = InitResults /\ answered = {}
          /\ \A t \in Tests : requests[t] = 0 /\ ~fCompleted[t]
    /\ fInitialized =>
          /\ testlist = TestList(config.fBehaviorTest, config.fFilteringTest)
          /\ nTestIndex <= Len(testlist) + 1
          /\ config.uMaxAttempts > 0

Progress ==
    \A t \in Tests :
        /\ t \in answered => fCompleted[t]
        /\ ~Past(t) /\ ~IsCurrent(t) => requests[t] = 0 /\ ~fCompleted[t]
        /\ IsCurrent(t) => requests[t] = sendCount
        /\ fInitialized => requests[t] <= config.uMaxAttempts
        /\ fCompleted[t] => \/ t \in answered
                            \/ requests[t] = config.uMaxAttempts
                            \/ t \in {"behavior2", "filtering2"} /\ DirectPath
        /\ Past(t) => fCompleted[t] \/ Skipped(t)

Binding ==
    /\ results.fBindingTestSuccess <=> "test1" \in answered
    /\ ~results.fBindingTestSuccess => results = InitResults
    /\ results.fBindingTestSuccess =>
          /\ results.fIsDirect <=> results.addrMapped = results.addrLocal
          /\ results.addrMapped \in SentAddr

BehaviorTests ==
    /\ "behavior2" \notin answered => results.addrMappingAP = ZeroAddr
    /\ "behavior2" \in answered =>
          /\ results.addrMappingAP \in SentAddr
          /\ results.fBindingTestSuccess
          /\ results.addrMappingAP = results.addrMapped
                => results.fBehaviorTestSuccess
    /\ DirectPath /\ fCompleted["behavior2"] => results.fBehaviorTestSuccess
    /\ "behavior3" \in answered => results.fBehaviorTestSuccess
    /\ results.fBehaviorTestSuccess =>
          results.fBindingTestSuccess /\ fCompleted["behavior2"]
    /\ BehaviorEvidence

FilteringTests ==
    /\ results.fGotTest2Response <=> "filtering2" \in answered
    /\ "filtering2" \in answered => results.fFilteringTestSuccess
    /\ DirectPath /\ fCompleted["filtering2"] => results.fFilteringTestSuccess
    /\ fCompleted["filtering3"] => results.fFilteringTestSuccess
    /\ results.fFilteringTestSuccess =>
          /\ results.fBindingTestSuccess
          /\ fCompleted["filtering2"]
          /\ results.filtering # "Unknown"
          /\ results.filtering = "EndpointIndependent" =>
                DirectPath \/ "filtering2" \in answered
          /\ results.filtering = "AddressDependent" =>
                /\ ~DirectPath /\ "filtering2" \notin answered
                /\ "filtering3" \in answered
          /\ results.filtering = "AddressAndPortDependent" =>
                /\ ~DirectPath /\ "filtering2" \notin answered
                /\ "filtering3" \notin answered
                /\ fCompleted["filtering3"]

(* Between calls the current test is either done or really waiting, so a   *)
(* response can only reach a test that was entitled to run.                *)
Waiting ==
    HasCurrentTest =>
        /\ sendCount <= config.uMaxAttempts
        /\ CurrentTest # "test1" /\ ~fPreCheckRunOnTest
              => ~fCompleted[CurrentTest]
        /\ fPreCheckRunOnTest /\ CompletesInPreRunCheck(CurrentTest)
              => fCompleted[CurrentTest]
        /\ pc = "idle" /\ CurrentTest # "test1" =>
              /\ fPreCheckRunOnTest
              /\ fCompleted[CurrentTest] \/ IsReadyToRun(CurrentTest)

IInv == /\ TypeOK /\ Setup /\ Progress /\ Binding
        /\ BehaviorTests /\ FilteringTests /\ Waiting

-----------------------------------------------------------------------------
(* Where a test stands in the list                                         *)

LEMMA ListShape ==
    ASSUME TypeOK, Setup, fInitialized
    PROVE  \/ testlist = <<"test1", "behavior2", "behavior3", "filtering2", "filtering3">>
              /\ config.fBehaviorTest /\ config.fFilteringTest
           \/ testlist = <<"test1", "behavior2", "behavior3">>
              /\ config.fBehaviorTest /\ ~config.fFilteringTest
           \/ testlist = <<"test1", "filtering2", "filtering3">>
              /\ ~config.fBehaviorTest /\ config.fFilteringTest
           \/ testlist = <<"test1">>
              /\ ~config.fBehaviorTest /\ ~config.fFilteringTest
  BY DEF TypeOK, Setup, TestList, Config

LEMMA Order ==
    ASSUME TypeOK, Setup, fInitialized
    PROVE  /\ \A t \in Tests : Past(t) => ~IsCurrent(t)
           /\ IsCurrent("test1") => \A t \in Tests : ~Past(t)
           /\ \A t \in Tests \ {"test1"} : IsCurrent(t) \/ Past(t) => Past("test1")
           /\ IsCurrent("behavior3") \/ Past("behavior3") => Past("behavior2")
           /\ IsCurrent("filtering3") \/ Past("filtering3") => Past("filtering2")
           /\ ~HasCurrentTest =>
                 /\ Past("test1")
                 /\ config.fBehaviorTest => Past("behavior2") /\ Past("behavior3")
                 /\ config.fFilteringTest => Past("filtering2") /\ Past("filtering3")
<1> USE DEF Past, IsCurrent, HasCurrentTest, CurrentTest
<1>1. nTestIndex \in Nat \ {0}
  BY DEF TypeOK
<1>2. CASE testlist = <<"test1", "behavior2", "behavior3", "filtering2", "filtering3">>
           /\ config.fBehaviorTest /\ config.fFilteringTest
  BY <1>1, <1>2 DEF Tests
<1>3. CASE testlist = <<"test1", "behavior2", "behavior3">>
           /\ config.fBehaviorTest /\ ~config.fFilteringTest
  BY <1>1, <1>3 DEF Tests
<1>4. CASE testlist = <<"test1", "filtering2", "filtering3">>
           /\ ~config.fBehaviorTest /\ config.fFilteringTest
  BY <1>1, <1>4 DEF Tests
<1>5. CASE testlist = <<"test1">>
           /\ ~config.fBehaviorTest /\ ~config.fFilteringTest
  BY <1>1, <1>5 DEF Tests
<1>6. QED
  BY <1>2, <1>3, <1>4, <1>5, ListShape

LEMMA Advance ==
    ASSUME TypeOK, Setup, fInitialized, HasCurrentTest,
           testlist' = testlist, nTestIndex' = nTestIndex + 1
    PROVE  \A t \in Tests : /\ Past(t)' <=> Past(t) \/ IsCurrent(t)
                            /\ IsCurrent(t)' => ~Past(t) /\ ~IsCurrent(t)
<1> USE DEF Past, IsCurrent, HasCurrentTest, CurrentTest
<1>1. nTestIndex \in Nat \ {0}
  BY DEF TypeOK
<1>2. CASE testlist = <<"test1", "behavior2", "behavior3", "filtering2", "filtering3">>
  BY <1>1, <1>2 DEF Tests
<1>3. CASE testlist = <<"test1", "behavior2", "behavior3">>
  BY <1>1, <1>3 DEF Tests
<1>4. CASE testlist = <<"test1", "filtering2", "filtering3">>
  BY <1>1, <1>4 DEF Tests
<1>5. CASE testlist = <<"test1">>
  BY <1>1, <1>5 DEF Tests
<1>6. QED
  BY <1>2, <1>3, <1>4, <1>5, ListShape

LEMMA Stay ==
    ASSUME UNCHANGED <<testlist, nTestIndex>>
    PROVE  /\ \A t \in Tests : (Past(t)' <=> Past(t)) /\ (IsCurrent(t)' <=> IsCurrent(t))
           /\ HasCurrentTest' <=> HasCurrentTest
           /\ CurrentTest' = CurrentTest
  BY DEF Past, IsCurrent, HasCurrentTest, CurrentTest

-----------------------------------------------------------------------------
(* Init establishes it                                                     *)

LEMMA InitIInv == Init => IInv
<1> SUFFICES ASSUME Init
             PROVE  IInv
  OBVIOUS
<1>1. TypeOK
  BY InitTypeOK
<1>2. Setup
  BY DEF Init, Setup
<1>3. \A t \in Tests : ~Past(t) /\ ~IsCurrent(t)
  BY DEF Init, Past, IsCurrent, HasCurrentTest
<1>4. Progress
  BY <1>3 DEF Init, Progress
<1>5. Binding
  BY DEF Init, Binding, InitResults
<1>6. BehaviorTests
  <2>1. /\ results.fBindingTestSuccess = FALSE
        /\ results.fBehaviorTestSuccess = FALSE
        /\ results.addrMappingAP = ZeroAddr
        /\ answered = {}
    BY DEF Init, InitResults
  <2>2. QED
    BY <2>1 DEF BehaviorTests, BehaviorEvidence, DirectPath
<1>7. FilteringTests
  BY DEF Init, FilteringTests, InitResults, Tests
<1>8. Waiting
  BY DEF Init, Waiting, HasCurrentTest
<1>9. QED
  BY <1>1, <1>2, <1>4, <1>5, <1>6, <1>7, <1>8 DEF IInv

-----------------------------------------------------------------------------
(* Every action preserves it                                               *)

(* The calls that return without touching the object                       *)
LEMMA Frame ==
    ASSUME IInv, TypeOK', Waiting', UNCHANGED <<logicVars, history>>,
           ~fInitialized => pc' = "idle"
    PROVE  IInv'
<1> USE DEF IInv, logicVars, history
<1>1. \A t \in Tests : (Past(t)' <=> Past(t)) /\ (IsCurrent(t)' <=> IsCurrent(t))
  BY Stay
<1>2. Setup'
  BY DEF Setup
<1>3. \A t \in Tests : Skipped(t)' <=> Skipped(t)
  BY DEF Skipped, NoOther, DirectPath
<1>4. Progress'
  BY <1>1, <1>3 DEF Progress, DirectPath
<1>5. Binding' /\ BehaviorTests' /\ FilteringTests'
  BY DEF Binding, BehaviorTests, BehaviorEvidence, FilteringTests, DirectPath
<1>6. QED
  BY <1>2, <1>4, <1>5

LEMMA CallsInv ==
    ASSUME IInv, TypeOK',
           \/ Reinitialize \/ CallUninitialized \/ InvalidArgument
           \/ \E now \in 0 .. ClockModulus - 1 : CallGetNextMessage(now)
           \/ ResultsReady \/ KeepWaiting
           \/ \E m \in Response : RejectResponse(m)
           \/ UNCHANGED vars
    PROVE  IInv'
<1>1. UNCHANGED <<logicVars, history>>
  BY DEF Reinitialize, CallUninitialized, InvalidArgument, CallGetNextMessage,
         ResultsReady, KeepWaiting, RejectResponse, vars
<1>2. ~fInitialized => pc' = "idle"
  BY DEF IInv, Setup, Reinitialize, CallUninitialized, InvalidArgument,
         CallGetNextMessage, ResultsReady, KeepWaiting, RejectResponse, Return,
         vars, callVars
<1>3. Waiting'
  <2>1. /\ HasCurrentTest' <=> HasCurrentTest
        /\ CurrentTest' = CurrentTest
        /\ CompletesInPreRunCheck(CurrentTest)' <=> CompletesInPreRunCheck(CurrentTest)
        /\ IsReadyToRun(CurrentTest)' <=> IsReadyToRun(CurrentTest)
        /\ UNCHANGED <<sendCount, config, fPreCheckRunOnTest, fCompleted>>
    BY <1>1 DEF logicVars, HasCurrentTest, CurrentTest, CompletesInPreRunCheck,
                IsReadyToRun
  <2>2. CASE pc' = pc \/ pc' = "next"
    BY <2>1, <2>2 DEF IInv, Waiting
  <2>3. CASE ResultsReady
    BY <2>1, <2>3 DEF ResultsReady, Waiting
  <2>4. CASE KeepWaiting
    BY <2>1, <2>4 DEF KeepWaiting, InTest, IInv, Waiting
  <2>5. QED
    BY <2>2, <2>3, <2>4
    DEF Reinitialize, CallUninitialized, InvalidArgument, CallGetNextMessage,
        RejectResponse, Return, vars, callVars
<1>4. QED
  BY <1>1, <1>2, <1>3, Frame

(* A test can only be current in an initialized object                     *)
LEMMA Started ==
    ASSUME TypeOK, Setup, HasCurrentTest
    PROVE  fInitialized
  BY DEF TypeOK, Setup, HasCurrentTest

LEMMA InitializeInv ==
    ASSUME IInv, TypeOK', NEW c \in Configs, Initialize(c)
    PROVE  IInv'
<1> USE DEF IInv
<1>1. c \in Config
  BY ConfigAssumption
<1>2. /\ config' \in Config /\ config'.uMaxAttempts \in Nat \ {0}
      /\ config'.fBehaviorTest = c.fBehaviorTest
      /\ config'.fFilteringTest = c.fFilteringTest
  BY <1>1, EffectiveConfigType DEF Initialize
<1>3. /\ testlist' = TestList(config'.fBehaviorTest, config'.fFilteringTest)
      /\ Len(testlist') \in 1 .. 5
  BY <1>1, <1>2, TestListElements DEF Initialize, Config
<1>4. /\ nTestIndex' = 1 /\ pc' = "idle" /\ fInitialized' = TRUE
      /\ fPreCheckRunOnTest' = FALSE
      /\ UNCHANGED <<results, answered, requests, fCompleted, sendCount>>
  BY DEF Initialize, Return, history
<1>5. /\ results = InitResults /\ answered = {} /\ sendCount = 0
      /\ \A t \in Tests : requests[t] = 0 /\ ~fCompleted[t]
  BY DEF Initialize, Setup
<1>6. Setup'
  <2>1. nTestIndex' <= Len(testlist') + 1 /\ config'.uMaxAttempts > 0
    BY <1>2, <1>3, <1>4
  <2>2. QED
    BY <1>3, <1>4, <2>1 DEF Setup
<1>7. \A t \in Tests : ~Past(t)'
  BY <1>3, <1>4 DEF Past
<1>8. Progress'
  BY <1>2, <1>4, <1>5, <1>7 DEF Progress
<1>9. Binding' /\ BehaviorTests' /\ FilteringTests'
  BY <1>4 DEF Binding, BehaviorTests, BehaviorEvidence, FilteringTests, DirectPath
<1>10. CurrentTest' = "test1"
  BY <1>3, <1>4 DEF CurrentTest, TestList
<1>11. Waiting'
  BY <1>2, <1>4, <1>5, <1>10 DEF Waiting
<1>12. QED
  BY <1>6, <1>8, <1>9, <1>11

LEMMA PreRunCheckInv ==
    ASSUME IInv, TypeOK', PreRunCheck
    PROVE  IInv'
<1> USE DEF IInv
<1> DEFINE t == CurrentTest
<1>1. t \in Tests /\ fInitialized
  BY CurrentTestType, Started DEF PreRunCheck
<1>2. /\ UNCHANGED <<config, fInitialized, sendCount, testlist, nTestIndex,
                     pc, requests, answered>>
      /\ pc = "next" /\ fPreCheckRunOnTest' = TRUE /\ IsCurrent(t)
      /\ results' = PreRunResults(t)
      /\ fCompleted' = [fCompleted EXCEPT ![t] = @ \/ CompletesInPreRunCheck(t)]
  BY DEF PreRunCheck, callVars, history, IsCurrent
<1>3. Setup'
  BY <1>1, <1>2 DEF Setup
<1>4. /\ \A u \in Tests : (Past(u)' <=> Past(u)) /\ (IsCurrent(u)' <=> IsCurrent(u))
      /\ HasCurrentTest' <=> HasCurrentTest
      /\ CurrentTest' = t
  BY <1>2, Stay
<1>5. CASE ~CompletesInPreRunCheck(t)
  <2>1. results' = results /\ fCompleted' = fCompleted
    BY <1>1, <1>2, <1>5 DEF PreRunResults, TypeOK
  <2>2. \A u \in Tests : Skipped(u)' <=> Skipped(u)
    BY <1>2, <2>1 DEF Skipped, NoOther, DirectPath
  <2>3. Progress'
    BY <1>2, <1>4, <2>1, <2>2 DEF Progress, DirectPath
  <2>4. Binding' /\ BehaviorTests' /\ FilteringTests'
    BY <1>2, <2>1 DEF Binding, BehaviorTests, BehaviorEvidence, FilteringTests, DirectPath
  <2>5. ~CompletesInPreRunCheck(t)'
    BY <1>4, <1>5, <2>1 DEF CompletesInPreRunCheck
  <2>6. Waiting'
    BY <1>2, <1>4, <2>1, <2>5 DEF Waiting
  <2>7. QED
    BY <1>3, <2>3, <2>4, <2>6
<1>6. CASE CompletesInPreRunCheck(t)
  <2>1. /\ t \in {"behavior2", "filtering2"}
        /\ results.fBindingTestSuccess = TRUE /\ results.fIsDirect = TRUE
    BY <1>6 DEF CompletesInPreRunCheck, TypeOK, Results
  <2>2. /\ fCompleted'[t] = TRUE
        /\ \A u \in Tests \ {t} : fCompleted'[u] = fCompleted[u]
    BY <1>1, <1>2, <1>6 DEF TypeOK
  <2>3. \A f \in {"fBindingTestSuccess", "fIsDirect", "addrLocal", "addrMapped",
                  "fHasOtherAddress", "addrMappingAP", "addrMappingAA",
                  "fGotTest2Response"} : results'[f] = results[f]
    BY <1>2, <1>6 DEF PreRunResults, TypeOK, Results
  <2>4. Binding'
    BY <1>2, <2>1, <2>3 DEF Binding
  <2>5. Waiting'
    BY <1>2, <1>4, <2>2 DEF Waiting
  <2>6. CASE t = "behavior2"
    <3>1. /\ results'.fBehaviorTestSuccess = TRUE /\ results'.behavior = "Direct"
          /\ results'.fFilteringTestSuccess = results.fFilteringTestSuccess
          /\ results'.filtering = results.filtering
      BY <1>2, <1>6, <2>6 DEF PreRunResults, TypeOK, Results
    <3>2. \A u \in Tests : Skipped(u) => Skipped(u)'
      BY <1>2, <2>3, <3>1 DEF Skipped, NoOther, DirectPath
    <3>3. Progress'
      BY <1>1, <1>2, <1>4, <2>1, <2>2, <2>3, <3>2 DEF Progress, DirectPath
    <3>4. BehaviorTests'
      BY <1>2, <2>1, <2>2, <2>3, <2>6, <3>1
      DEF BehaviorTests, BehaviorEvidence, DirectPath, Binding
    <3>5. FilteringTests'
      BY <1>2, <2>2, <2>3, <2>6, <3>1 DEF FilteringTests, DirectPath, Tests
    <3>6. QED
      BY <1>3, <2>4, <2>5, <3>3, <3>4, <3>5
  <2>7. CASE t = "filtering2"
    <3>1. /\ results'.fFilteringTestSuccess = TRUE
          /\ results'.filtering = "EndpointIndependent"
          /\ results'.fBehaviorTestSuccess = results.fBehaviorTestSuccess
          /\ results'.behavior = results.behavior
      BY <1>2, <1>6, <2>7 DEF PreRunResults, TypeOK, Results
    <3>2. \A u \in Tests : Skipped(u) => Skipped(u)'
      BY <1>2, <2>3, <3>1 DEF Skipped, NoOther, DirectPath
    <3>3. Progress'
      BY <1>1, <1>2, <1>4, <2>1, <2>2, <2>3, <3>2 DEF Progress, DirectPath
    <3>4. BehaviorTests'
      BY <1>2, <2>1, <2>2, <2>3, <2>7, <3>1
      DEF BehaviorTests, BehaviorEvidence, DirectPath, Tests
    <3>5. FilteringTests'
      BY <1>2, <2>1, <2>2, <2>3, <2>7, <3>1 DEF FilteringTests, DirectPath, Tests
    <3>6. QED
      BY <1>3, <2>4, <2>5, <3>3, <3>4, <3>5
  <2>8. QED
    BY <2>1, <2>6, <2>7
<1>7. QED
  BY <1>5, <1>6

LEMMA NextTestInv ==
    ASSUME IInv, TypeOK', NextTest
    PROVE  IInv'
<1> USE DEF IInv
<1> DEFINE t == CurrentTest
<1>1. t \in Tests /\ fInitialized /\ HasCurrentTest
  BY CurrentTestType, Started DEF NextTest, InTest
<1>2. /\ UNCHANGED <<config, results, fInitialized, testlist, fCompleted, pc,
                     requests, answered>>
      /\ nTestIndex' = nTestIndex + 1 /\ sendCount' = 0
      /\ fPreCheckRunOnTest' = FALSE
      /\ pc = "next" /\ IsCurrent(t)
  BY <1>1 DEF NextTest, InTest, callVars, history, IsCurrent
<1>3. \A u \in Tests : /\ Past(u)' <=> Past(u) \/ IsCurrent(u)
                       /\ IsCurrent(u)' => ~Past(u) /\ ~IsCurrent(u)
  BY <1>1, <1>2, Advance
<1>4. Setup'
  <2>1. Len(testlist) \in Nat /\ nTestIndex \in Nat
    BY DEF TypeOK
  <2>2. nTestIndex' <= Len(testlist') + 1
    BY <1>1, <1>2, <2>1 DEF HasCurrentTest
  <2>3. QED
    BY <1>1, <1>2, <2>2 DEF Setup
<1>5. fCompleted[t] \/ Skipped(t)
  <2> SUFFICES ASSUME ~fCompleted[t]
               PROVE  Skipped(t)
    OBVIOUS
  <2>1. ~IsReadyToRun(t)
    BY DEF NextTest
  <2>2. t # "test1"
    BY <2>1 DEF IsReadyToRun
  <2>3. ~CompletesInPreRunCheck(t)
    BY <1>1 DEF NextTest, InTest, Waiting
  <2>4. CASE t = "behavior2"
    BY <2>1, <2>3, <2>4 DEF IsReadyToRun, CompletesInPreRunCheck, Skipped,
                            NoOther, DirectPath, BehaviorTests
  <2>5. CASE t = "behavior3"
    BY <2>1, <2>5 DEF IsReadyToRun, Skipped, NoOther
  <2>6. CASE t = "filtering2"
    BY <2>1, <2>3, <2>6 DEF IsReadyToRun, CompletesInPreRunCheck, Skipped,
                            NoOther, DirectPath, FilteringTests
  <2>7. CASE t = "filtering3"
    BY <2>1, <2>7 DEF IsReadyToRun, Skipped, NoOther, FilteringTests
  <2>8. QED
    BY <1>1, <2>2, <2>4, <2>5, <2>6, <2>7 DEF Tests
<1>6. \A u \in Tests : Skipped(u)' <=> Skipped(u)
  BY <1>2 DEF Skipped, NoOther, DirectPath
<1>7. \A u \in Tests : IsCurrent(u) => u = t
  BY DEF IsCurrent
<1>8. Progress'
  BY <1>1, <1>2, <1>3, <1>5, <1>6, <1>7 DEF Progress, DirectPath
<1>9. Binding' /\ BehaviorTests' /\ FilteringTests'
  BY <1>2 DEF Binding, BehaviorTests, BehaviorEvidence, FilteringTests, DirectPath
<1>10. Waiting'
  <2>1. HasCurrentTest' => CurrentTest' \in Tests
    BY DEF HasCurrentTest, CurrentTest, TypeOK
  <2>2. ASSUME HasCurrentTest'
        PROVE  ~fCompleted'[CurrentTest']
    <3>1. PICK u \in Tests : u = CurrentTest'
      BY <2>1, <2>2
    <3>2. IsCurrent(u)'
      BY <2>2, <3>1 DEF IsCurrent
    <3>3. ~fCompleted[u]
      BY <1>3, <3>2 DEF Progress
    <3>4. QED
      BY <1>2, <3>1, <3>3
  <2>3. sendCount' <= config'.uMaxAttempts
    BY <1>2 DEF TypeOK, Config
  <2>4. QED
    BY <1>1, <1>2, <2>2, <2>3 DEF Waiting
<1>11. QED
  BY <1>4, <1>8, <1>9, <1>10

(* A test that may run has a binding result to build on, is not on the     *)
(* direct path, and the tests before it have really been tried.            *)
LEMMA Ready ==
    ASSUME IInv, HasCurrentTest, fPreCheckRunOnTest, IsReadyToRun(CurrentTest)
    PROVE  /\ ~fCompleted[CurrentTest] /\ CurrentTest \notin answered
           /\ CurrentTest = "test1" => results = InitResults
           /\ CurrentTest # "test1" =>
                 results.fBindingTestSuccess /\ results.fHasOtherAddress
           /\ CurrentTest \in {"behavior2", "behavior3"} =>
                 ~results.fBehaviorTestSuccess
           /\ CurrentTest = "behavior2" => ~DirectPath
           /\ CurrentTest = "behavior3" =>
                 "behavior2" \in answered /\ fCompleted["behavior2"]
           /\ CurrentTest \in {"filtering2", "filtering3"} =>
                 /\ ~DirectPath /\ ~results.fFilteringTestSuccess
                 /\ "filtering2" \notin answered
           /\ CurrentTest = "filtering3" => fCompleted["filtering2"]
<1> USE DEF IInv
<1> DEFINE t == CurrentTest
<1>1. t \in Tests /\ fInitialized /\ IsCurrent(t)
  BY CurrentTestType, Started DEF IsCurrent
<1>2. ~fCompleted[t] /\ t \notin answered
  BY <1>1 DEF IsReadyToRun, Progress
<1>3. ~CompletesInPreRunCheck(t)
  BY <1>2 DEF Waiting
<1>4. t = "test1" => results = InitResults
  BY <1>2 DEF Binding
<1>5. t # "test1" => results.fBindingTestSuccess /\ results.fHasOtherAddress
  BY DEF IsReadyToRun
<1>6. t \in {"behavior2", "behavior3"} => ~results.fBehaviorTestSuccess
  BY DEF IsReadyToRun
<1>7. t = "behavior2" => ~DirectPath
  BY <1>3 DEF CompletesInPreRunCheck, DirectPath
<1>8. t = "behavior3" => "behavior2" \in answered /\ fCompleted["behavior2"]
  <2>1. IsIPAddressZero(ZeroAddr)
    BY DEF IsIPAddressZero, ZeroAddr
  <2>2. QED
    BY <2>1 DEF IsReadyToRun, BehaviorTests, Progress, Tests
<1>9. t \in {"filtering2", "filtering3"} =>
         ~results.fFilteringTestSuccess /\ "filtering2" \notin answered
  BY DEF IsReadyToRun, FilteringTests
<1>10. t = "filtering3" => fCompleted["filtering2"]
  <2> SUFFICES ASSUME t = "filtering3"
               PROVE  fCompleted["filtering2"]
    OBVIOUS
  <2>1. Past("filtering2")
    BY <1>1, Order
  <2>2. ~Skipped("filtering2")
    BY <1>5 DEF Skipped, NoOther
  <2>3. QED
    BY <2>1, <2>2 DEF Progress, Tests
<1>11. t \in {"filtering2", "filtering3"} => ~DirectPath
  BY <1>3, <1>9, <1>10 DEF CompletesInPreRunCheck, DirectPath, FilteringTests
<1>12. QED
  BY <1>2, <1>4, <1>5, <1>6, <1>7, <1>8, <1>9, <1>10, <1>11

LEMMA NotifyTimeoutInv ==
    ASSUME IInv, TypeOK', NotifyTimeout
    PROVE  IInv'
<1> USE DEF IInv
<1> DEFINE t == CurrentTest
<1>1. t \in Tests /\ fInitialized /\ HasCurrentTest /\ fPreCheckRunOnTest
  BY CurrentTestType, Started DEF NotifyTimeout, InTest
<1>2. /\ UNCHANGED <<config, fInitialized, sendCount, testlist, nTestIndex,
                     fPreCheckRunOnTest, pc, requests, answered>>
      /\ pc = "next" /\ IsCurrent(t)
      /\ results' = TimeoutResults(t)
      /\ fCompleted' = [fCompleted EXCEPT ![t] = TRUE]
      /\ sendCount >= config.uMaxAttempts
  BY <1>1 DEF NotifyTimeout, InTest, callVars, history, IsCurrent
<1>3. /\ fCompleted'[t] = TRUE
      /\ \A u \in Tests \ {t} : fCompleted'[u] = fCompleted[u]
  BY <1>1, <1>2 DEF TypeOK
<1>4. IsReadyToRun(t)
  BY DEF NotifyTimeout
<1>5. requests[t] = config.uMaxAttempts
  <2>1. sendCount <= config.uMaxAttempts /\ requests[t] = sendCount
    BY <1>1, <1>2 DEF Waiting, Progress
  <2>2. QED
    BY <1>2, <2>1 DEF TypeOK, Config
<1>6. Setup'
  BY <1>1, <1>2 DEF Setup
<1>7. /\ \A u \in Tests : (Past(u)' <=> Past(u)) /\ (IsCurrent(u)' <=> IsCurrent(u))
      /\ HasCurrentTest' <=> HasCurrentTest
      /\ CurrentTest' = t
  BY <1>2, Stay
<1>8. t # "filtering3" => results' = results
  <2>1. CASE t = "test1"
    <3>1. results.fBindingTestSuccess = FALSE
      BY <1>1, <1>4, <2>1, Ready DEF InitResults
    <3>2. QED
      BY <1>2, <2>1, <3>1 DEF TimeoutResults, TypeOK, Results
  <2>2. CASE t \in {"behavior2", "behavior3"}
    <3>1. results.fBehaviorTestSuccess = FALSE
      BY <1>1, <1>4, <2>2, Ready DEF TypeOK, Results
    <3>2. QED
      BY <1>2, <2>2, <3>1 DEF TimeoutResults, TypeOK, Results
  <2>3. CASE t = "filtering2"
    BY <1>2, <2>3 DEF TimeoutResults
  <2>4. QED
    BY <1>1, <2>1, <2>2, <2>3 DEF Tests
<1>9. Waiting'
  BY <1>1, <1>2, <1>3, <1>7 DEF Waiting
<1>10. CASE t # "filtering3"
  <2>1. results' = results
    BY <1>8, <1>10
  <2>2. \A u \in Tests : Skipped(u)' <=> Skipped(u)
    BY <1>2, <2>1 DEF Skipped, NoOther, DirectPath
  <2>3. Progress'
    BY <1>1, <1>2, <1>3, <1>5, <1>7, <2>1, <2>2 DEF Progress, DirectPath
  <2>4. Binding'
    BY <1>2, <2>1 DEF Binding
  <2>5. BehaviorTests'
    <3>1. DirectPath' /\ fCompleted'["behavior2"] => results'.fBehaviorTestSuccess
      BY <1>1, <1>3, <1>4, <2>1, Ready DEF BehaviorTests, DirectPath, Tests
    <3>2. fCompleted["behavior2"] => fCompleted'["behavior2"]
      BY <1>3 DEF Tests
    <3>3. QED
      BY <1>2, <2>1, <3>1, <3>2 DEF BehaviorTests, BehaviorEvidence
  <2>6. FilteringTests'
    <3>1. DirectPath' /\ fCompleted'["filtering2"] => results'.fFilteringTestSuccess
      BY <1>1, <1>3, <1>4, <2>1, Ready DEF FilteringTests, DirectPath, Tests
    <3>2. /\ fCompleted["filtering2"] => fCompleted'["filtering2"]
          /\ fCompleted'["filtering3"] = fCompleted["filtering3"]
      BY <1>3, <1>10 DEF Tests
    <3>3. QED
      BY <1>2, <2>1, <3>1, <3>2 DEF FilteringTests, DirectPath
  <2>7. QED
    BY <1>6, <1>9, <2>3, <2>4, <2>5, <2>6
<1>11. CASE t = "filtering3"
  <2>1. /\ results'.fFilteringTestSuccess = TRUE
        /\ results'.filtering = "AddressAndPortDependent"
        /\ \A f \in {"fBindingTestSuccess", "fIsDirect", "addrLocal", "addrMapped",
                     "fHasOtherAddress", "addrMappingAP", "addrMappingAA",
                     "fBehaviorTestSuccess", "behavior",
                     "fGotTest2Response"} : results'[f] = results[f]
    BY <1>2, <1>11 DEF TimeoutResults, TypeOK, Results
  <2>2. \A u \in Tests : Skipped(u) => Skipped(u)'
    BY <1>2, <2>1 DEF Skipped, NoOther, DirectPath
  <2>3. Progress'
    BY <1>1, <1>2, <1>3, <1>5, <1>7, <2>1, <2>2 DEF Progress, DirectPath
  <2>4. /\ t \notin answered /\ results.fBindingTestSuccess
        /\ ~DirectPath /\ "filtering2" \notin answered /\ fCompleted["filtering2"]
    BY <1>1, <1>4, <1>11, Ready
  <2>5. Binding'
    BY <1>2, <2>1, <2>4 DEF Binding
  <2>6. BehaviorTests'
    BY <1>2, <1>3, <1>11, <2>1 DEF BehaviorTests, BehaviorEvidence, DirectPath, Tests
  <2>7. FilteringTests'
    BY <1>2, <1>3, <1>11, <2>1, <2>4 DEF FilteringTests, DirectPath, Tests
  <2>8. QED
    BY <1>6, <1>9, <2>3, <2>5, <2>6, <2>7
<1>12. QED
  BY <1>10, <1>11

LEMMA SendRequestInv ==
    ASSUME IInv, TypeOK', SendRequest
    PROVE  IInv'
<1> USE DEF IInv
<1> DEFINE t == CurrentTest
<1>1. t \in Tests /\ fInitialized /\ HasCurrentTest /\ fPreCheckRunOnTest
  BY CurrentTestType, Started DEF SendRequest, InTest
<1>2. /\ UNCHANGED <<config, results, fInitialized, testlist, nTestIndex,
                     fPreCheckRunOnTest, fCompleted, answered>>
      /\ pc' = "idle" /\ IsCurrent(t) /\ IsReadyToRun(t)
      /\ sendCount' = sendCount + 1 /\ sendCount < config.uMaxAttempts
      /\ requests' = [requests EXCEPT ![t] = @ + 1]
  BY <1>1 DEF SendRequest, Return, IsCurrent
<1>3. /\ requests'[t] = requests[t] + 1
      /\ \A u \in Tests \ {t} : requests'[u] = requests[u]
  BY <1>1, <1>2 DEF TypeOK
<1>4. /\ \A u \in Tests : (Past(u)' <=> Past(u)) /\ (IsCurrent(u)' <=> IsCurrent(u))
      /\ HasCurrentTest' <=> HasCurrentTest
      /\ CurrentTest' = t
  BY <1>2, Stay
<1>5. ~fCompleted[t] /\ t \notin answered /\ ~Past(t)
  BY <1>1, <1>2, Ready, Order
<1>6. Setup'
  BY <1>1, <1>2 DEF Setup
<1>7. \A u \in Tests : Skipped(u)' <=> Skipped(u)
  BY <1>2 DEF Skipped, NoOther, DirectPath
<1>8. requests'[t] = sendCount' /\ sendCount' <= config.uMaxAttempts
  BY <1>1, <1>2, <1>3 DEF Progress, TypeOK, Config
<1>9. \A u \in Tests : IsCurrent(u) => u = t
  BY DEF IsCurrent
<1>10. Progress'
  BY <1>1, <1>2, <1>3, <1>4, <1>5, <1>7, <1>8, <1>9 DEF Progress, DirectPath
<1>11. Binding' /\ BehaviorTests' /\ FilteringTests'
  BY <1>2 DEF Binding, BehaviorTests, BehaviorEvidence, FilteringTests, DirectPath
<1>12. /\ IsReadyToRun(t)'
       /\ CompletesInPreRunCheck(t)' => CompletesInPreRunCheck(t)
  BY <1>2, <1>4 DEF IsReadyToRun, CompletesInPreRunCheck
<1>13. Waiting'
  BY <1>1, <1>2, <1>4, <1>8, <1>12 DEF Waiting
<1>14. QED
  BY <1>6, <1>10, <1>11, <1>13

LEMMA AcceptResponseInv ==
    ASSUME IInv, TypeOK', NEW m \in Response, NEW a \in RealAddr,
           AcceptResponse(m, a)
    PROVE  IInv'
<1> USE DEF IInv
<1> DEFINE t == CurrentTest
<1>1. t \in Tests /\ fInitialized /\ HasCurrentTest /\ ~fCompleted[t]
  BY CurrentTestType, Started DEF AcceptResponse, CanProcess
<1>2. /\ UNCHANGED <<config, fInitialized, sendCount, testlist, nTestIndex,
                     fPreCheckRunOnTest, requests>>
      /\ pc = "idle" /\ pc' = "idle" /\ IsCurrent(t)
      /\ results' = ResponseResults(t, m, a)
      /\ fCompleted' = [fCompleted EXCEPT ![t] = TRUE]
      /\ answered' = answered \cup {t}
      /\ Accepts(t, m)
  BY <1>1 DEF AcceptResponse, Return, IsCurrent
<1>3. /\ fCompleted'[t] = TRUE
      /\ \A u \in Tests \ {t} : fCompleted'[u] = fCompleted[u]
  BY <1>1, <1>2 DEF TypeOK
<1>4. /\ \A u \in Tests : (Past(u)' <=> Past(u)) /\ (IsCurrent(u)' <=> IsCurrent(u))
      /\ HasCurrentTest' <=> HasCurrentTest
      /\ CurrentTest' = t
  BY <1>2, Stay
<1>5. t # "test1" => fPreCheckRunOnTest /\ IsReadyToRun(t)
  BY <1>1, <1>2 DEF Waiting
<1>6. Setup'
  BY <1>1, <1>2 DEF Setup
<1>7. Waiting'
  BY <1>1, <1>2, <1>3, <1>4 DEF Waiting
<1>8. ~Past(t) /\ \A u \in Tests : IsCurrent(u) => u = t
  BY <1>1, <1>2, Order DEF IsCurrent
<1>9. ASSUME \A u \in Tests : Past(u) /\ Skipped(u) => Skipped(u)',
             \A u \in Tests : fCompleted[u] /\ DirectPath => DirectPath'
      PROVE  Progress'
  BY <1>1, <1>2, <1>3, <1>4, <1>8, <1>9 DEF Progress
<1>10. CASE t = "test1"
  <2>1. /\ results = InitResults
        /\ \A u \in Tests : ~Past(u)
        /\ \A u \in Tests : ~fCompleted[u] /\ u \notin answered
    BY <1>1, <1>2, <1>8, <1>10, Order DEF Binding, Progress
  <2>2. /\ results'.fBindingTestSuccess = TRUE
        /\ results'.fIsDirect = (a = m.mapped)
        /\ results'.addrMapped = m.mapped /\ results'.addrLocal = a
        /\ m.mapped \in SentAddr
        /\ \A f \in {"addrMappingAP", "addrMappingAA", "fBehaviorTestSuccess",
                     "behavior", "fFilteringTestSuccess", "filtering",
                     "fGotTest2Response"} : results'[f] = results[f]
    <3>1. results' = BindingResults(m, a)
      BY <1>2, <1>10 DEF ResponseResults
    <3>2. m.mapped \in SentAddr
      BY <1>2, <1>10 DEF Accepts, Response
    <3>3. results \in Results
      BY DEF TypeOK
    <3>4. CASE m.other = NoAddr
      BY <3>1, <3>2, <3>3, <3>4 DEF BindingResults, Results
    <3>5. CASE m.other # NoAddr
      BY <3>1, <3>2, <3>3, <3>5 DEF BindingResults, Results
    <3>6. QED
      BY <3>4, <3>5
  <2>3. /\ results'.addrMappingAP = ZeroAddr
        /\ results'.fBehaviorTestSuccess = FALSE
        /\ results'.fFilteringTestSuccess = FALSE
        /\ results'.fGotTest2Response = FALSE
    BY <2>1, <2>2 DEF InitResults
  <2>4. Progress'
    BY <1>9, <2>1
  <2>5. Binding'
    BY <1>2, <1>10, <2>2 DEF Binding
  <2>6. BehaviorTests'
    BY <1>2, <1>3, <1>10, <2>1, <2>3
    DEF BehaviorTests, BehaviorEvidence, DirectPath, Tests
  <2>7. FilteringTests'
    BY <1>2, <1>3, <1>10, <2>1, <2>3 DEF FilteringTests, DirectPath, Tests
  <2>8. QED
    BY <1>6, <1>7, <2>4, <2>5, <2>6, <2>7
<1>11. ASSUME t # "test1",
              \A f \in {"fBindingTestSuccess", "fIsDirect", "addrLocal",
                        "addrMapped", "fHasOtherAddress"} :
                  results'[f] = results[f]
       PROVE  /\ Binding' /\ (DirectPath' <=> DirectPath)
              /\ (NoOther' <=> NoOther) /\ results.fBindingTestSuccess
  <2>1. results.fBindingTestSuccess
    BY <1>1, <1>5, <1>11, Ready
  <2>2. QED
    BY <1>2, <1>11, <2>1 DEF Binding, DirectPath, NoOther
<1>12. CASE t = "behavior2"
  <2>1. /\ ~results.fBehaviorTestSuccess /\ ~DirectPath
        /\ t \notin answered
    BY <1>1, <1>5, <1>12, Ready
  <2>2. /\ results'.addrMappingAP = m.mapped /\ m.mapped \in SentAddr
        /\ IF m.mapped = results.addrMapped
           THEN /\ results'.fBehaviorTestSuccess = TRUE
                /\ results'.behavior = "EndpointIndependent"
           ELSE results'.fBehaviorTestSuccess = results.fBehaviorTestSuccess
        /\ \A f \in {"fBindingTestSuccess", "fIsDirect", "addrLocal", "addrMapped",
                     "fHasOtherAddress", "fFilteringTestSuccess", "filtering",
                     "fGotTest2Response"} : results'[f] = results[f]
    <3>1. m.mapped \in SentAddr
      BY <1>2, <1>12 DEF Accepts, Response
    <3>2. results' = Behavior2Results(m) /\ results \in Results
      BY <1>2, <1>12 DEF ResponseResults, TypeOK
    <3>3. QED
      BY <3>1, <3>2 DEF Behavior2Results, Results
  <2>3. Binding' /\ (DirectPath' <=> DirectPath) /\ (NoOther' <=> NoOther)
        /\ results.fBindingTestSuccess
    BY <1>11, <1>12, <2>2
  <2>4. ~Past("behavior3")
    BY <1>1, <1>8, <1>12, Order
  <2>5. Progress'
    BY <1>9, <2>2, <2>3, <2>4 DEF Skipped
  <2>6. "behavior3" \notin answered
    BY <1>1, <1>12, <2>1 DEF BehaviorTests
  <2>7. BehaviorTests'
    BY <1>2, <1>3, <1>12, <2>1, <2>2, <2>3, <2>6
    DEF BehaviorTests, BehaviorEvidence, Tests
  <2>8. FilteringTests'
    BY <1>2, <1>3, <1>12, <2>2, <2>3 DEF FilteringTests, Tests
  <2>9. QED
    BY <1>6, <1>7, <2>3, <2>5, <2>7, <2>8
<1>13. CASE t = "behavior3"
  <2>1. /\ ~results.fBehaviorTestSuccess /\ "behavior2" \in answered
        /\ fCompleted["behavior2"]
    BY <1>1, <1>5, <1>13, Ready
  <2>2. /\ results'.addrMappingAA = m.mapped
        /\ results'.fBehaviorTestSuccess = TRUE
        /\ results'.behavior = IF m.mapped = results.addrMappingAP
                               THEN "AddressDependent"
                               ELSE "AddressAndPortDependent"
        /\ \A f \in {"fBindingTestSuccess", "fIsDirect", "addrLocal", "addrMapped",
                     "fHasOtherAddress", "addrMappingAP", "fFilteringTestSuccess",
                     "filtering", "fGotTest2Response"} : results'[f] = results[f]
    <3>1. m.mapped \in SentAddr
      BY <1>2, <1>13 DEF Accepts, Response
    <3>2. results' = Behavior3Results(m) /\ results \in Results
      BY <1>2, <1>13 DEF ResponseResults, TypeOK
    <3>3. QED
      BY <3>1, <3>2 DEF Behavior3Results, Results
  <2>3. Binding' /\ (DirectPath' <=> DirectPath) /\ (NoOther' <=> NoOther)
        /\ results.fBindingTestSuccess
    BY <1>11, <1>13, <2>2
  <2>4. Progress'
    BY <1>9, <1>2, <1>13, <2>2, <2>3 DEF Skipped
  <2>5. BehaviorEvidence'
    BY <1>2, <1>13, <2>1, <2>2 DEF BehaviorTests, BehaviorEvidence
  <2>6. BehaviorTests'
    BY <1>2, <1>3, <1>13, <2>1, <2>2, <2>3, <2>5 DEF BehaviorTests, Tests
  <2>7. FilteringTests'
    BY <1>2, <1>3, <1>13, <2>2, <2>3 DEF FilteringTests, Tests
  <2>8. QED
    BY <1>6, <1>7, <2>3, <2>4, <2>6, <2>7
<1>14. CASE t \in {"filtering2", "filtering3"}
  <2>1. /\ ~results.fFilteringTestSuccess /\ ~DirectPath
        /\ "filtering2" \notin answered
        /\ t = "filtering3" => fCompleted["filtering2"]
    BY <1>1, <1>5, <1>14, Ready
  <2>2. /\ results'.fFilteringTestSuccess = TRUE
        /\ results'.filtering = IF t = "filtering2" THEN "EndpointIndependent"
                                                    ELSE "AddressDependent"
        /\ t = "filtering2" => results'.fGotTest2Response = TRUE
        /\ t = "filtering3" =>
              results'.fGotTest2Response = results.fGotTest2Response
        /\ \A f \in {"fBindingTestSuccess", "fIsDirect", "addrLocal", "addrMapped",
                     "fHasOtherAddress", "addrMappingAP", "addrMappingAA",
                     "fBehaviorTestSuccess", "behavior"} : results'[f] = results[f]
    <3>1. results' = IF t = "filtering2" THEN Filtering2Results ELSE Filtering3Results
      BY <1>2, <1>14 DEF ResponseResults
    <3>2. results \in Results
      BY DEF TypeOK
    <3>3. QED
      BY <1>14, <3>1, <3>2 DEF Filtering2Results, Filtering3Results, Results
  <2>3. Binding' /\ (DirectPath' <=> DirectPath) /\ (NoOther' <=> NoOther)
        /\ results.fBindingTestSuccess
    BY <1>11, <1>14, <2>2
  <2>4. Progress'
    BY <1>9, <1>2, <1>14, <2>2, <2>3 DEF Skipped
  <2>5. BehaviorTests'
    BY <1>2, <1>3, <1>14, <2>2, <2>3 DEF BehaviorTests, BehaviorEvidence, Tests
  <2>6. FilteringTests'
    BY <1>2, <1>3, <1>14, <2>1, <2>2, <2>3 DEF FilteringTests, Tests
  <2>7. QED
    BY <1>6, <1>7, <2>3, <2>4, <2>5, <2>6
<1>15. QED
  BY <1>1, <1>10, <1>12, <1>13, <1>14 DEF Tests

LEMMA StepIInv == IInv /\ [Next]_vars => IInv'
<1> SUFFICES ASSUME IInv, [Next]_vars
             PROVE  IInv'
  OBVIOUS
<1>1. TypeOK'
  BY StepTypeOK DEF IInv
<1>2. ASSUME NEW c \in Configs, Initialize(c)
      PROVE  IInv'
  BY <1>1, <1>2, InitializeInv
<1>3. CASE \/ Reinitialize \/ CallUninitialized \/ InvalidArgument
           \/ \E now \in 0 .. ClockModulus - 1 : CallGetNextMessage(now)
           \/ ResultsReady \/ KeepWaiting
           \/ \E m \in Response : RejectResponse(m)
           \/ UNCHANGED vars
  BY <1>1, <1>3, CallsInv
<1>4. CASE PreRunCheck
  BY <1>1, <1>4, PreRunCheckInv
<1>5. CASE NextTest
  BY <1>1, <1>5, NextTestInv
<1>6. CASE NotifyTimeout
  BY <1>1, <1>6, NotifyTimeoutInv
<1>7. CASE SendRequest
  BY <1>1, <1>7, SendRequestInv
<1>8. ASSUME NEW m \in Response, NEW a \in RealAddr, AcceptResponse(m, a)
      PROVE  IInv'
  BY <1>1, <1>8, AcceptResponseInv
<1>9. QED
  BY <1>2, <1>3, <1>4, <1>5, <1>6, <1>7, <1>8 DEF Next

LEMMA Inductive == Spec => []IInv
<1>1. QED
  BY InitIInv, StepIInv, PTL DEF Spec

-----------------------------------------------------------------------------
(* What follows from it                                                    *)

LEMMA RetryBudgetFollows == IInv => RetryBudget
<1> SUFFICES ASSUME IInv, NEW i \in 1 .. Len(testlist)
             PROVE  /\ requests[testlist[i]] <= config.uMaxAttempts
                    /\ i = nTestIndex => requests[testlist[i]] = sendCount
                    /\ i > nTestIndex => /\ requests[testlist[i]] = 0
                                         /\ ~fCompleted[testlist[i]]
  BY DEF RetryBudget
<1> USE DEF IInv
<1>1. fInitialized /\ testlist[i] \in Tests
  BY DEF TypeOK, Setup
<1>2. i = nTestIndex => IsCurrent(testlist[i])
  BY DEF IsCurrent, HasCurrentTest, CurrentTest, TypeOK
<1>3. i > nTestIndex => ~Past(testlist[i]) /\ ~IsCurrent(testlist[i])
  <2> USE DEF Past, IsCurrent, HasCurrentTest, CurrentTest
  <2>1. nTestIndex \in Nat \ {0}
    BY DEF TypeOK
  <2>2. CASE testlist = <<"test1", "behavior2", "behavior3", "filtering2", "filtering3">>
    BY <2>1, <2>2
  <2>3. CASE testlist = <<"test1", "behavior2", "behavior3">>
    BY <2>1, <2>3
  <2>4. CASE testlist = <<"test1", "filtering2", "filtering3">>
    BY <2>1, <2>4
  <2>5. CASE testlist = <<"test1">>
    BY <2>1, <2>5
  <2>6. QED
    BY <1>1, <2>2, <2>3, <2>4, <2>5, ListShape
<1>4. QED
  BY <1>1, <1>2, <1>3 DEF Progress

LEMMA FilteringEvidenceFollows == IInv => FilteringEvidence
<1> SUFFICES ASSUME IInv
             PROVE  FilteringEvidence
  OBVIOUS
<1> USE DEF IInv
<1>1. results.fFilteringTestSuccess =>
        fCompleted["filtering2"] /\ (results.filtering = "AddressAndPortDependent"
                                        => fCompleted["filtering3"])
  BY DEF FilteringTests
<1>2. \A t \in {"filtering2", "filtering3"} :
         fCompleted[t] /\ ~DirectPath /\ t \notin answered => Exhausted(t)
  BY DEF Progress, Exhausted, Tests
<1>3. QED
  BY <1>1, <1>2 DEF FilteringTests, FilteringEvidence, DirectPath

LEMMA ConclusiveAtEndFollows == IInv => ConclusiveAtEnd
<1> DEFINE MappedToZero ==
              "behavior2" \in answered /\ IsIPAddressZero(results.addrMappingAP)
<1> SUFFICES ASSUME IInv, fInitialized, ~HasCurrentTest
             PROVE  /\ results.fBindingTestSuccess \/ Exhausted("test1")
                    /\ config.fBehaviorTest /\ results.fBindingTestSuccess
                          /\ (results.fIsDirect \/ results.fHasOtherAddress) =>
                             \/ results.fBehaviorTestSuccess
                             \/ Exhausted("behavior2")
                             \/ Exhausted("behavior3")
                             \/ MappedToZero
                    /\ config.fFilteringTest /\ results.fBindingTestSuccess
                          /\ (results.fIsDirect \/ results.fHasOtherAddress) =>
                             results.fFilteringTestSuccess
  BY DEF ConclusiveAtEnd
<1> USE DEF IInv
<1>1. /\ Past("test1")
      /\ config.fBehaviorTest => Past("behavior2") /\ Past("behavior3")
      /\ config.fFilteringTest => Past("filtering2") /\ Past("filtering3")
  BY Order
<1>2. results.fBindingTestSuccess \/ Exhausted("test1")
  BY <1>1 DEF Progress, Skipped, Binding, Exhausted, Tests
<1>3. ASSUME config.fBehaviorTest, results.fBindingTestSuccess,
             results.fIsDirect \/ results.fHasOtherAddress
      PROVE  \/ results.fBehaviorTestSuccess
             \/ Exhausted("behavior2") \/ Exhausted("behavior3") \/ MappedToZero
  <2>1. fCompleted["behavior2"]
    BY <1>1, <1>3 DEF Progress, Skipped, NoOther, DirectPath, Tests
  <2>2. CASE DirectPath
    BY <2>1, <2>2 DEF BehaviorTests
  <2>3. CASE ~DirectPath /\ "behavior2" \notin answered
    BY <2>1, <2>3 DEF Progress, Exhausted, Tests
  <2>4. CASE ~DirectPath /\ "behavior2" \in answered
    <3>1. fCompleted["behavior3"] \/ results.fBehaviorTestSuccess \/ MappedToZero
      BY <1>1, <1>3, <2>4 DEF Progress, Skipped, NoOther, DirectPath, Tests
    <3>2. QED
      BY <3>1 DEF Progress, Exhausted, BehaviorTests, Tests
  <2>5. QED
    BY <2>2, <2>3, <2>4
<1>4. ASSUME config.fFilteringTest, results.fBindingTestSuccess,
             results.fIsDirect \/ results.fHasOtherAddress
      PROVE  results.fFilteringTestSuccess
  <2>1. fCompleted["filtering2"]
    BY <1>1, <1>4 DEF Progress, Skipped, NoOther, DirectPath, Tests
  <2>2. CASE DirectPath
    BY <2>1, <2>2 DEF FilteringTests
  <2>3. CASE ~DirectPath
    BY <1>1, <1>4, <2>3 DEF Progress, Skipped, NoOther, DirectPath, FilteringTests, Tests
  <2>4. QED
    BY <2>2, <2>3
<1>5. QED
  BY <1>2, <1>3, <1>4

(* The tests run one after the other, each within its own attempts         *)
(* (CStunClientLogic::GetNextMessage).                                     *)
THEOREM RetryBudgetHolds == Spec => []RetryBudget
<1>1. QED
  BY Inductive, RetryBudgetFollows, PTL

(* A mapping class is reported only on the responses that prove it         *)
(* (CBehaviorTest).                                                        *)
THEOREM BehaviorEvidenceHolds == Spec => []BehaviorEvidence
<1>1. IInv => BehaviorEvidence
  BY DEF IInv, BehaviorTests
<1>2. QED
  BY <1>1, Inductive, PTL

(* A filtering class is reported only when every looser one was refuted by *)
(* a full round of unanswered requests (CFilteringTest).                   *)
THEOREM FilteringEvidenceHolds == Spec => []FilteringEvidence
<1>1. QED
  BY Inductive, FilteringEvidenceFollows, PTL

(* When GetNextMessage has run out of tests nothing is left undecided that *)
(* could have been decided.                                                *)
THEOREM ConclusiveAtEndHolds == Spec => []ConclusiveAtEnd
<1>1. QED
  BY Inductive, ConclusiveAtEndFollows, PTL

LEMMA VerdictsKeptFollows == IInv /\ [Next]_vars => [VerdictsKept]_vars
<1> SUFFICES ASSUME IInv, Next
             PROVE  VerdictsKept
  BY DEF vars, logicVars, VerdictsKept, Kept
<1> USE DEF IInv
<1> DEFINE t == CurrentTest
<1>1. results \in Results
  BY DEF TypeOK
<1>2. CASE results' = results
  BY <1>2 DEF VerdictsKept, Kept
<1>3. CASE PreRunCheck
  <2>1. CASE ~CompletesInPreRunCheck(t)
    BY <1>2, <1>3, <2>1 DEF PreRunCheck, PreRunResults
  <2>2. CASE CompletesInPreRunCheck(t)
    <3>1. t \in {"behavior2", "filtering2"} /\ DirectPath
      BY <2>2 DEF CompletesInPreRunCheck, DirectPath
    <3>2. CASE t = "behavior2"
      <4>1. results' = [results EXCEPT !.behavior = "Direct",
                                       !.fBehaviorTestSuccess = TRUE]
        BY <1>3, <2>2, <3>2 DEF PreRunCheck, PreRunResults
      <4>2. ~results.fBehaviorTestSuccess
        BY <1>3, <3>2 DEF PreRunCheck, Waiting, BehaviorTests
      <4>3. QED
        BY <1>1, <4>1, <4>2 DEF VerdictsKept, Kept, Results
    <3>3. CASE t = "filtering2"
      <4>1. results' = [results EXCEPT !.filtering = "EndpointIndependent",
                                       !.fFilteringTestSuccess = TRUE]
        BY <1>3, <2>2, <3>3 DEF PreRunCheck, PreRunResults
      <4>2. ~results.fFilteringTestSuccess
        BY <1>3, <3>3 DEF PreRunCheck, Waiting, FilteringTests
      <4>3. QED
        BY <1>1, <4>1, <4>2 DEF VerdictsKept, Kept, Results
    <3>4. QED
      BY <3>1, <3>2, <3>3
  <2>3. QED
    BY <2>1, <2>2
<1>4. CASE NotifyTimeout
  <2>1. t \in Tests /\ IsReadyToRun(t) /\ HasCurrentTest /\ fPreCheckRunOnTest
    BY <1>4, CurrentTestType DEF NotifyTimeout, InTest
  <2>2. results' = TimeoutResults(t)
    BY <1>4 DEF NotifyTimeout
  <2>3. CASE t = "test1"
    <3>1. /\ results.fBindingTestSuccess = FALSE
          /\ results' = [results EXCEPT !.fBindingTestSuccess = FALSE]
      BY <2>1, <2>2, <2>3, Ready DEF TimeoutResults, InitResults
    <3>2. results' = results
      BY <1>1, <3>1 DEF Results
    <3>3. QED
      BY <1>2, <3>2
  <2>4. CASE t \in {"behavior2", "behavior3"}
    <3>1. /\ results.fBehaviorTestSuccess = FALSE
          /\ results' = [results EXCEPT !.fBehaviorTestSuccess = FALSE]
      BY <1>1, <2>1, <2>2, <2>4, Ready DEF TimeoutResults, Results
    <3>2. results' = results
      BY <1>1, <3>1 DEF Results
    <3>3. QED
      BY <1>2, <3>2
  <2>5. CASE t = "filtering2"
    BY <1>2, <2>2, <2>5 DEF TimeoutResults
  <2>6. CASE t = "filtering3"
    <3>1. ~results.fFilteringTestSuccess
      BY <2>1, <2>6, Ready
    <3>2. QED
      BY <1>1, <2>2, <2>6, <3>1 DEF TimeoutResults, VerdictsKept, Kept, Results
  <2>7. QED
    BY <2>1, <2>3, <2>4, <2>5, <2>6 DEF Tests
<1>5. ASSUME NEW m \in Response, NEW a \in RealAddr, AcceptResponse(m, a)
      PROVE  VerdictsKept
  <2>1. /\ t \in Tests /\ HasCurrentTest /\ ~fCompleted[t]
        /\ results' = ResponseResults(t, m, a)
    BY <1>5, CurrentTestType DEF AcceptResponse, CanProcess
  <2>2. t # "test1" => fPreCheckRunOnTest /\ IsReadyToRun(t)
    BY <1>5, <2>1 DEF Waiting, AcceptResponse
  <2>3. CASE t = "test1"
    <3>1. results = InitResults
      BY <2>1, <2>3 DEF Binding, Progress
    <3>2. /\ ~results.fBindingTestSuccess /\ ~results.fBehaviorTestSuccess
          /\ ~results.fFilteringTestSuccess
      BY <3>1 DEF InitResults
    <3>3. QED
      BY <3>2 DEF VerdictsKept, Kept
  <2>4. CASE t \in {"behavior2", "behavior3"}
    <3>1. ~results.fBehaviorTestSuccess
      BY <2>1, <2>2, <2>4, Ready
    <3>2. CASE t = "behavior2"
      BY <1>1, <2>1, <3>1, <3>2
      DEF ResponseResults, Behavior2Results, VerdictsKept, Kept, Results
    <3>3. CASE t = "behavior3"
      BY <1>1, <2>1, <3>1, <3>3
      DEF ResponseResults, Behavior3Results, VerdictsKept, Kept, Results
    <3>4. QED
      BY <2>4, <3>2, <3>3
  <2>5. CASE t \in {"filtering2", "filtering3"}
    <3>1. ~results.fFilteringTestSuccess
      BY <2>1, <2>2, <2>5, Ready
    <3>2. CASE t = "filtering2"
      BY <1>1, <2>1, <3>1, <3>2
      DEF ResponseResults, Filtering2Results, VerdictsKept, Kept, Results
    <3>3. CASE t = "filtering3"
      BY <1>1, <2>1, <3>1, <3>3
      DEF ResponseResults, Filtering3Results, VerdictsKept, Kept, Results
    <3>4. QED
      BY <2>5, <3>2, <3>3
  <2>6. QED
    BY <2>1, <2>3, <2>4, <2>5 DEF Tests
<1>6. QED
  BY <1>2, <1>3, <1>4, <1>5
  DEF Next, Initialize, Reinitialize, CallUninitialized, InvalidArgument,
      CallGetNextMessage, ResultsReady, NextTest, KeepWaiting, SendRequest,
      RejectResponse, logicVars

(* A verdict, once reached, is never revised, whatever arrives afterwards  *)
(* (ProcessResponse, NotifyTimeout).                                       *)
THEOREM VerdictsStandHolds == Spec => VerdictsStand
<1>1. QED
  BY Inductive, VerdictsKeptFollows, PTL DEF Spec, VerdictsStand

-----------------------------------------------------------------------------
(* What the server answers is the mapping the request came through, and    *)
(* what the results hold is what was answered.  Both client loops rest on  *)
(* what follows.                                                           *)

(* Where the requests of a test go                                         *)
DestOf(t) == [ip   |-> IF t \in {"behavior2", "behavior3"} THEN AlternateIP ELSE ServerIP,
              port |-> IF t = "behavior3" THEN 2 ELSE 1]

MappingTests == {"test1", "behavior2", "behavior3"}

WorldOK ==
    /\ nat \in NatClass /\ sockets \subseteq Server!Socket
    /\ fInitialized => config.addrServer = DestOf("test1")
    /\ \A t \in Tests : transid[t] \in {NoTid, t}
    /\ \A m \in spMsg : m.dest = DestOf(m.tid)
    /\ results.fBindingTestSuccess /\ results.fHasOtherAddress =>
          results.addrAP = DestOf("behavior2") /\ results.addrAA = DestOf("behavior3")
    /\ "behavior2" \in answered => ~results.fIsDirect

(* The results hold the mappings of the sockets on local ports P, and of   *)
(* different ones if every test has a port of its own                      *)
Evidence(P, ownPorts) ==
    \E port \in [MappingTests -> LocalPorts] :
        /\ \A t \in MappingTests \cap answered : port[t] \in P
        /\ ownPorts => \A t, u \in MappingTests \cap answered :
                          port[t] = port[u] => t = u
        /\ results.fBindingTestSuccess =>
              /\ results.addrLocal = LocalAddr(port["test1"])
              /\ results.addrMapped = Mapped(port["test1"], DestOf("test1"))
        /\ "behavior2" \in answered =>
              results.addrMappingAP = Mapped(port["behavior2"], DestOf("behavior2"))
        /\ "behavior3" \in answered =>
              results.addrMappingAA = Mapped(port["behavior3"], DestOf("behavior3"))

(* A response that says what there is to say about a socket on port l      *)
Faithful(m, l) ==
    /\ m \in Response
    /\ m.mapped # NoAddr => m.mapped = Mapped(l, DestOf(m.tid))
    /\ m.tid = "test1" /\ m.other # NoAddr => m.other = DestOf("behavior3")

-----------------------------------------------------------------------------
(* The NAT and the server                                                  *)

LEMMA DestOfReal == \A t \in Tests : DestOf(t) \in RealAddr /\ DestOf(t).port \in {1, 2}
BY WorldAssumption DEF DestOf, RealAddr

(* Which part of an external port is the local one                         *)
LEMMA MappedPort ==
    ASSUME nat \in NatClass, NEW l \in LocalPorts, NEW t \in Tests
    PROVE  /\ nat.mapping = "Direct" => Mapped(l, DestOf(t)) = LocalAddr(l)
           /\ nat.mapping # "Direct" =>
                 /\ Mapped(l, DestOf(t)).ip = NatIP
                 /\ Mapped(l, DestOf(t)).port \in (4 * l + 1) .. (4 * l + 4)
           /\ Mapped(l, DestOf(t)) \in RealAddr
           /\ LocalAddr(l) \in RealAddr /\ l \in Nat
<1>1. DestOf(t).port \in {1, 2} /\ l \in Nat
  BY DestOfReal, WorldAssumption
<1> DEFINE d == DestOf(t)
           ipPart == IF d.ip = ServerIP THEN 0 ELSE 2
<1>2. ipPart \in {0, 2}
  OBVIOUS
<1>3. nat.mapping \in {"Direct", "EndpointIndependent", "AddressDependent",
                       "AddressAndPortDependent"}
  BY DEF NatClass, Behavior
<1>4. LocalAddr(l) \in RealAddr
  BY WorldAssumption DEF LocalAddr, RealAddr
<1>5. CASE nat.mapping = "Direct"
  BY <1>1, <1>4, <1>5 DEF Mapped
<1>6. CASE nat.mapping # "Direct"
  <2> DEFINE part == CASE nat.mapping = "EndpointIndependent"     -> 1
                       [] nat.mapping = "AddressDependent"        -> 1 + ipPart
                       [] nat.mapping = "AddressAndPortDependent" -> d.port + ipPart
  <2>1. Mapped(l, d) = [ip |-> NatIP, port |-> 4 * l + part]
    BY <1>6 DEF Mapped
  <2>2. part \in 1 .. 4
    BY <1>1, <1>2, <1>3, <1>6
  <2> HIDE DEF part
  <2>3. 4 * l + part \in (4 * l + 1) .. (4 * l + 4)
    BY <1>1, <2>2
  <2>4. 4 * l + part \in Ports
    BY <2>3, WorldAssumption
  <2>5. Mapped(l, d) \in RealAddr
    BY <2>1, <2>4, WorldAssumption DEF RealAddr
  <2>6. QED
    BY <1>1, <1>4, <1>6, <2>1, <2>3, <2>5
<1>7. QED
  BY <1>5, <1>6

(* Sockets on different ports never look the same                          *)
LEMMA DifferentPorts ==
    ASSUME nat \in NatClass, NEW l \in LocalPorts, NEW k \in LocalPorts, l # k,
           NEW t \in Tests, NEW u \in Tests
    PROVE  Mapped(l, DestOf(t)) # Mapped(k, DestOf(u))
<1>1. l \in Nat /\ k \in Nat
  BY MappedPort
<1>2. CASE nat.mapping = "Direct"
  <2>1. Mapped(l, DestOf(t)) = LocalAddr(l) /\ Mapped(k, DestOf(u)) = LocalAddr(k)
    BY <1>2, MappedPort
  <2>2. QED
    BY <2>1 DEF LocalAddr
<1>3. CASE nat.mapping # "Direct"
  <2>1. /\ Mapped(l, DestOf(t)).port \in (4 * l + 1) .. (4 * l + 4)
        /\ Mapped(k, DestOf(u)).port \in (4 * k + 1) .. (4 * k + 4)
    BY <1>3, MappedPort
  <2>2. \A x \in (4 * l + 1) .. (4 * l + 4) : x \notin (4 * k + 1) .. (4 * k + 4)
    BY <1>1
  <2>3. QED
    BY <2>1, <2>2
<1>4. QED
  BY <1>2, <1>3

(* Only a direct connection shows its own address                          *)
LEMMA DirectIsSeen ==
    ASSUME nat \in NatClass, NEW l \in LocalPorts, NEW t \in Tests
    PROVE  Mapped(l, DestOf(t)) = LocalAddr(l) <=> nat.mapping = "Direct"
<1>1. CASE nat.mapping = "Direct"
  BY <1>1, MappedPort
<1>2. CASE nat.mapping # "Direct"
  <2>1. Mapped(l, DestOf(t)).port \in (4 * l + 1) .. (4 * l + 4) /\ l \in Nat
    BY <1>2, MappedPort
  <2>2. Mapped(l, DestOf(t)).port # l
    BY <2>1
  <2>3. QED
    BY <1>2, <2>2 DEF LocalAddr
<1>3. QED
  BY <1>1, <1>2

(* The three destinations tell the classes of mapping apart                *)
LEMMA ClassIsSeen ==
    ASSUME nat \in NatClass, NEW l \in LocalPorts, nat.mapping # "Direct"
    PROVE  /\ nat.mapping = "EndpointIndependent" <=>
                 Mapped(l, DestOf("behavior2")) = Mapped(l, DestOf("test1"))
           /\ nat.mapping = "EndpointIndependent" <=>
                 Mapped(l, DestOf("behavior3")) = Mapped(l, DestOf("test1"))
           /\ nat.mapping \in {"EndpointIndependent", "AddressDependent"} <=>
                 Mapped(l, DestOf("behavior3")) = Mapped(l, DestOf("behavior2"))
<1>1. l \in Nat
  BY WorldAssumption
<1>2. nat.mapping \in {"EndpointIndependent", "AddressDependent",
                       "AddressAndPortDependent"}
  BY DEF NatClass, Behavior
<1>3. /\ DestOf("test1") = [ip |-> ServerIP, port |-> 1]
      /\ DestOf("behavior2") = [ip |-> AlternateIP, port |-> 1]
      /\ DestOf("behavior3") = [ip |-> AlternateIP, port |-> 2]
  BY DEF DestOf
<1>4. CASE nat.mapping = "EndpointIndependent"
  BY <1>1, <1>4 DEF Mapped
<1>5. CASE nat.mapping = "AddressDependent"
  <2>1. /\ Mapped(l, DestOf("test1")).port = 4 * l + 1
        /\ Mapped(l, DestOf("behavior2")) = [ip |-> NatIP, port |-> 4 * l + 3]
        /\ Mapped(l, DestOf("behavior3")) = [ip |-> NatIP, port |-> 4 * l + 3]
    BY <1>1, <1>3, <1>5, ServerAssumption DEF Mapped
  <2>2. /\ Mapped(l, DestOf("behavior2")).port # Mapped(l, DestOf("test1")).port
        /\ Mapped(l, DestOf("behavior3")).port # Mapped(l, DestOf("test1")).port
    BY <1>1, <2>1
  <2>3. QED
    BY <1>5, <2>1, <2>2
<1>6. CASE nat.mapping = "AddressAndPortDependent"
  <2>1. /\ Mapped(l, DestOf("test1")).port = 4 * l + 1
        /\ Mapped(l, DestOf("behavior2")).port = 4 * l + 3
        /\ Mapped(l, DestOf("behavior3")).port = 4 * l + 4
    BY <1>1, <1>3, <1>6, ServerAssumption DEF Mapped
  <2>2. /\ Mapped(l, DestOf("behavior2")).port # Mapped(l, DestOf("test1")).port
        /\ Mapped(l, DestOf("behavior3")).port # Mapped(l, DestOf("test1")).port
        /\ Mapped(l, DestOf("behavior3")).port # Mapped(l, DestOf("behavior2")).port
    BY <1>1, <2>1
  <2>3. QED
    BY <1>6, <2>2
<1>7. QED
  BY <1>2, <1>4, <1>5, <1>6

(* What the server answers to a request of a test                          *)
LEMMA AnswerFacts ==
    ASSUME sockets \subseteq Server!Socket,
           NEW p, p.msg.tid \in Tests, p.src \in RealAddr, NEW tcp \in BOOLEAN,
           NEW a \in Answers(p, tcp)
    PROVE  /\ a.msg \in Response
           /\ a.msg.tid = p.msg.tid
           /\ a.msg.mapped \in {NoAddr, p.src}
           /\ p.dst = DestOf("test1") => a.msg.other \in {NoAddr, DestOf("behavior3")}
<1>1. PICK s \in sockets : ServerAddr(s) = p.dst /\ a = ResponseTo(s, p, tcp)
  BY DEF Answers
<1>2. s \in Server!Socket
  BY <1>1
<1> DEFINE addrs    == [t \in Server!Socket |-> ServerAddr(t)]
           req      == RequestAt(s, p, tcp)
           answer   == Server!Answer(req, sockets, addrs, Server!NoChallenge)
           r        == answer.response
           opposite == [ip |-> Server!Other(s.ip), port |-> Server!Other(s.port)]
<1>3. /\ a.msg = [tid |-> p.msg.tid,
                  mapped |-> IF r.kind = "Success" THEN r.mapped ELSE NoAddr,
                  other  |-> IF r.kind = "Success" THEN r.other ELSE NoAddr]
  BY <1>1 DEF ResponseTo
<1>4. req.msg.class = "Request" /\ req.addrRemote = p.src /\ req.socket = s
  BY DEF RequestAt
<1> HIDE DEF req
<1>5. \/ r.kind = "Error"
      \/ /\ r.kind = "Success" /\ r.mapped = p.src
         /\ r.other = Server!OtherAddress(req, sockets, addrs)
  BY <1>4 DEF Server!Answer
<1>6. opposite \in Server!Socket
  BY <1>2 DEF Server!Socket, Server!Side, Server!Other
<1>7. Server!OtherAddress(req, sockets, addrs) \in {NoAddr, ServerAddr(opposite)}
  BY <1>4, <1>6 DEF Server!OtherAddress
<1> HIDE DEF answer
<1>8. ServerAddr(opposite) \in RealAddr
  BY WorldAssumption DEF ServerAddr, RealAddr
<1>9. a.msg.other \in {NoAddr, ServerAddr(opposite)} /\ a.msg.mapped \in {NoAddr, p.src}
  BY <1>3, <1>5, <1>7
<1>10. a.msg \in Response
  <2>1. p.src \in SentAddr /\ ServerAddr(opposite) \in SentAddr
    BY <1>8, RealIsSent
  <2>2. /\ a.msg.mapped \in SentAddr \cup {NoAddr}
        /\ a.msg.other \in SentAddr \cup {NoAddr}
    BY <1>9, <2>1
  <2>3. QED
    BY <1>3, <2>2 DEF Response
<1>11. p.dst = DestOf("test1") => ServerAddr(opposite) = DestOf("behavior3")
  <2> SUFFICES ASSUME p.dst = DestOf("test1")
               PROVE  ServerAddr(opposite) = DestOf("behavior3")
    OBVIOUS
  <2>1. ServerAddr(s) = [ip |-> ServerIP, port |-> 1]
    BY <1>1 DEF DestOf
  <2>2. s.ip = "Primary" /\ s.port = "Primary"
    BY <1>2, <2>1, ServerAssumption DEF ServerAddr, Server!Socket, Server!Side
  <2>3. opposite = [ip |-> "Alternate", port |-> "Alternate"]
    BY <2>2 DEF Server!Other
  <2>4. QED
    BY <2>3 DEF ServerAddr, DestOf
<1>12. QED
  BY <1>3, <1>9, <1>10, <1>11

(* A request as the socket on local port l sends it                        *)
SentFrom(p, l) ==
    /\ p.msg.tid \in Tests
    /\ p.dst = DestOf(p.msg.tid)
    /\ p.src = Mapped(l, p.dst)

LEMMA AnswerFaithful ==
    ASSUME WorldOK, NEW l \in LocalPorts, NEW p, SentFrom(p, l),
           NEW tcp \in BOOLEAN, NEW a \in Answers(p, tcp)
    PROVE  Faithful(a.msg, l)
<1>1. p.src \in RealAddr
  BY MappedPort DEF SentFrom, WorldOK
<1>2. /\ a.msg \in Response
      /\ a.msg.tid = p.msg.tid
      /\ a.msg.mapped \in {NoAddr, p.src}
      /\ p.dst = DestOf("test1") => a.msg.other \in {NoAddr, DestOf("behavior3")}
  BY <1>1, AnswerFacts DEF SentFrom, WorldOK
<1>3. QED
  BY <1>2 DEF SentFrom, Faithful

(* What SendRequest has left in spMsg is such a request                    *)
LEMMA RequestSent ==
    ASSUME IInv, WorldOK, NEW m \in spMsg, NEW l
    PROVE  SentFrom([src |-> Mapped(l, m.dest), dst |-> m.dest, msg |-> m], l)
  BY DEF IInv, TypeOK, Request, WorldOK, SentFrom

-----------------------------------------------------------------------------
(* The steps of the logic                                                  *)

(* A request goes where its test's requests go                             *)
LEMMA RequestGoes ==
    ASSUME IInv, WorldOK, SendRequest
    PROVE  GetMessage(CurrentTest).dest = DestOf(CurrentTest)
<1>1. CurrentTest \in Tests /\ HasCurrentTest /\ IsReadyToRun(CurrentTest) /\ fInitialized
  BY CurrentTestType, Started DEF SendRequest, InTest, IInv
<1>2. CASE CurrentTest \in {"behavior2", "behavior3"}
  <2>1. results.fBindingTestSuccess /\ results.fHasOtherAddress
    BY <1>1, <1>2 DEF IsReadyToRun
  <2>2. QED
    BY <1>2, <2>1 DEF WorldOK, GetMessage
<1>3. CASE CurrentTest \notin {"behavior2", "behavior3"}
  BY <1>1, <1>3 DEF WorldOK, GetMessage, DestOf
<1>4. QED
  BY <1>2, <1>3

(* No step but that of an accepted response touches what was measured      *)
LEMMA SilentKeeps ==
    ASSUME IInv,
           \/ \E c \in Configs : Initialize(c)
           \/ \E t \in 0 .. ClockModulus - 1 : CallGetNextMessage(t)
           \/ GetNextMessageStep
           \/ \E m \in Response : RejectResponse(m)
           \/ UNCHANGED vars
    PROVE  /\ answered' = answered
           /\ \A f \in {"addrLocal", "addrMapped", "addrAP", "addrAA", "addrMappingAP",
                         "addrMappingAA", "fIsDirect", "fHasOtherAddress"} :
                 results'[f] = results[f]
           /\ results'.fBindingTestSuccess => results.fBindingTestSuccess
<1>1. CASE PreRunCheck
  BY <1>1, CurrentTestType DEF PreRunCheck, PreRunResults, IInv, TypeOK, Results, callVars,
                               history
<1>2. CASE NotifyTimeout
  <2>1. CurrentTest \in Tests
    BY <1>2, CurrentTestType DEF NotifyTimeout, InTest, IInv
  <2>2. results' = TimeoutResults(CurrentTest) /\ results \in Results /\ answered' = answered
    BY <1>2 DEF NotifyTimeout, IInv, TypeOK, history
  <2>3. QED
    BY <2>1, <2>2 DEF TimeoutResults, Results, Tests
<1>3. CASE ~PreRunCheck /\ ~NotifyTimeout
  <2>1. results' = results /\ answered' = answered
    BY <1>3 DEF Initialize, CallGetNextMessage, GetNextMessageStep, RejectResponse, vars,
                ResultsReady, NextTest, KeepWaiting, SendRequest, logicVars, history
  <2>2. QED
    BY <2>1
<1>4. QED
  BY <1>1, <1>2, <1>3

(* So that what it is evidence of stays                                    *)
LEMMA SilentStep ==
    ASSUME IInv, IInv', WorldOK, NEW P, NEW ownPorts \in BOOLEAN, Evidence(P, ownPorts),
           \/ \E c \in Configs : Initialize(c) /\ c.addrServer = DestOf("test1")
           \/ \E t \in 0 .. ClockModulus - 1 : CallGetNextMessage(t)
           \/ GetNextMessageStep
           \/ \E m \in Response : RejectResponse(m)
           \/ UNCHANGED vars,
           UNCHANGED <<nat, sockets>>
    PROVE  WorldOK' /\ Evidence(P, ownPorts)'
<1>1. /\ answered' = answered
      /\ \A f \in {"addrLocal", "addrMapped", "addrAP", "addrAA", "addrMappingAP",
                    "addrMappingAA", "fIsDirect", "fHasOtherAddress"} :
            results'[f] = results[f]
      /\ results'.fBindingTestSuccess => results.fBindingTestSuccess
  BY SilentKeeps
<1>2. Evidence(P, ownPorts)'
  <2>1. PICK port \in [MappingTests -> LocalPorts] :
          /\ \A t \in MappingTests \cap answered : port[t] \in P
          /\ ownPorts => \A t, u \in MappingTests \cap answered :
                            port[t] = port[u] => t = u
          /\ results.fBindingTestSuccess =>
                /\ results.addrLocal = LocalAddr(port["test1"])
                /\ results.addrMapped = Mapped(port["test1"], DestOf("test1"))
          /\ "behavior2" \in answered =>
                results.addrMappingAP = Mapped(port["behavior2"], DestOf("behavior2"))
          /\ "behavior3" \in answered =>
                results.addrMappingAA = Mapped(port["behavior3"], DestOf("behavior3"))
    BY DEF Evidence
  <2>2. \A l, d : Mapped(l, d)' = Mapped(l, d)
    BY DEF Mapped
  <2>3. QED
    BY <1>1, <2>1, <2>2 DEF Evidence
<1>3. fInitialized' => config'.addrServer = DestOf("test1")
  <2>1. CASE \E c \in Configs : Initialize(c) /\ c.addrServer = DestOf("test1")
    BY <2>1, ConfigAssumption DEF Initialize, EffectiveConfig, Config
  <2>2. CASE UNCHANGED <<fInitialized, config>>
    BY <2>2 DEF WorldOK
  <2>3. QED
    BY <2>1, <2>2 DEF CallGetNextMessage, GetNextMessageStep, RejectResponse, vars,
                  ResultsReady, NextTest, KeepWaiting, SendRequest, PreRunCheck, NotifyTimeout,
                  logicVars
<1>4. /\ \A t \in Tests : transid'[t] \in {NoTid, t}
      /\ \A m \in spMsg' : m.dest = DestOf(m.tid)
  <2>1. CASE SendRequest
    <3>1. spMsg' = {GetMessage(CurrentTest)} /\ GetMessage(CurrentTest).tid = CurrentTest
      BY <2>1 DEF SendRequest, GetMessage
    <3>2. /\ transid' = [transid EXCEPT ![CurrentTest] = IF @ = NoTid THEN CurrentTest ELSE @]
          /\ transid \in [Tests -> Tests \cup {NoTid}]
      BY <2>1 DEF SendRequest, IInv, TypeOK
    <3>3. QED
      BY <2>1, <3>1, <3>2, RequestGoes DEF WorldOK
  <2>2. CASE UNCHANGED <<transid, spMsg>>
    BY <2>2 DEF WorldOK
  <2>3. QED
    BY <2>1, <2>2 DEF Initialize, CallGetNextMessage, GetNextMessageStep, RejectResponse, vars,
                  ResultsReady, NextTest, KeepWaiting, PreRunCheck, NotifyTimeout,
                  logicVars, callVars
<1>5. WorldOK'
  BY <1>1, <1>3, <1>4 DEF WorldOK
<1>6. QED
  BY <1>2, <1>5

(* The test a response is accepted by is the one it answers                *)
LEMMA AcceptedBy ==
    ASSUME IInv, WorldOK, NEW m \in Response, NEW a, AcceptResponse(m, a)
    PROVE  /\ CurrentTest \in Tests /\ m.tid = CurrentTest /\ fInitialized
           /\ CurrentTest \notin answered /\ ~fCompleted[CurrentTest]
           /\ CurrentTest \in MappingTests => m.mapped # NoAddr
           /\ CurrentTest = "test1" => answered \cap MappingTests = {}
           /\ CurrentTest # "test1" => /\ results.fBindingTestSuccess
                                      /\ results.fHasOtherAddress
           /\ CurrentTest = "behavior2" => ~results.fIsDirect
<1> DEFINE t == CurrentTest
<1>1. HasCurrentTest /\ ~fCompleted[t] /\ Accepts(t, m) /\ fInitialized /\ pc = "idle"
  BY DEF AcceptResponse, CanProcess
<1>2. t \in Tests
  BY <1>1, CurrentTestType DEF IInv
<1>3. m.tid = t
  BY <1>1, <1>2, TidAssumption DEF WorldOK, Accepts, Response
<1>4. t \notin answered
  BY <1>1, <1>2 DEF IInv, Progress
<1>5. t \in MappingTests => m.mapped # NoAddr
  BY <1>1 DEF Accepts, MappingTests
<1>6. t = "test1" => answered \cap MappingTests = {}
  BY <1>4 DEF IInv, Binding, BehaviorTests, MappingTests
<1>7. t # "test1" => fPreCheckRunOnTest /\ IsReadyToRun(t)
  BY <1>1 DEF IInv, Waiting
<1>8. t # "test1" => results.fBindingTestSuccess /\ results.fHasOtherAddress
  BY <1>7 DEF IsReadyToRun
<1>9. t = "behavior2" => ~results.fIsDirect
  <2>1. t = "behavior2" => ~CompletesInPreRunCheck(t)
    BY <1>1, <1>7 DEF IInv, Waiting
  <2>2. QED
    BY <1>8, <2>1 DEF CompletesInPreRunCheck
<1>10. QED
  BY <1>1, <1>2, <1>3, <1>4, <1>5, <1>6, <1>8, <1>9

(* An accepted response adds one mapping, that of its own socket           *)
LEMMA AcceptedStep ==
    ASSUME IInv, WorldOK, NEW P, NEW ownPorts \in BOOLEAN, Evidence(P, ownPorts),
           NEW l \in LocalPorts, ownPorts => l \notin P,
           NEW m, Faithful(m, l), AcceptResponse(m, LocalAddr(l)),
           UNCHANGED <<nat, sockets>>
    PROVE  WorldOK' /\ Evidence(P \cup {l}, ownPorts)'
<1> DEFINE t == CurrentTest
<1>1. m \in Response
  BY DEF Faithful
<1>2. /\ t \in Tests /\ m.tid = t /\ fInitialized /\ t \notin answered
      /\ t \in MappingTests => m.mapped # NoAddr
      /\ t = "test1" => answered \cap MappingTests = {}
      /\ t # "test1" => results.fBindingTestSuccess /\ results.fHasOtherAddress
      /\ t = "behavior2" => ~results.fIsDirect
  BY <1>1, AcceptedBy
<1>3. /\ results' = ResponseResults(t, m, LocalAddr(l)) /\ answered' = answered \cup {t}
      /\ UNCHANGED <<config, fInitialized, transid, spMsg>>
      /\ results \in Results
  BY DEF AcceptResponse, IInv, TypeOK
<1>4. config.addrServer = DestOf("test1")
  BY <1>2 DEF WorldOK
<1> HIDE DEF t
<1>5. t \in MappingTests => m.mapped = Mapped(l, DestOf(t))
  BY <1>2 DEF Faithful
<1>6. PICK port \in [MappingTests -> LocalPorts] :
          /\ \A q \in MappingTests \cap answered : port[q] \in P
          /\ ownPorts => \A q, u \in MappingTests \cap answered :
                            port[q] = port[u] => q = u
          /\ results.fBindingTestSuccess =>
                /\ results.addrLocal = LocalAddr(port["test1"])
                /\ results.addrMapped = Mapped(port["test1"], DestOf("test1"))
          /\ "behavior2" \in answered =>
                results.addrMappingAP = Mapped(port["behavior2"], DestOf("behavior2"))
          /\ "behavior3" \in answered =>
                results.addrMappingAA = Mapped(port["behavior3"], DestOf("behavior3"))
  BY DEF Evidence
<1>7. \A k, d : Mapped(k, d)' = Mapped(k, d)
  BY DEF Mapped
<1> DEFINE port2 == [port EXCEPT ![t] = l]
<1>8. /\ port2 \in [MappingTests -> LocalPorts]
      /\ t \in MappingTests => port2[t] = l
      /\ \A q \in MappingTests : q # t => port2[q] = port[q]
  BY <1>6
<1> HIDE DEF port2
<1>9. /\ \A q \in MappingTests \cap answered' : port2[q] \in P \cup {l}
      /\ ownPorts => \A q, u \in MappingTests \cap answered' :
                        port2[q] = port2[u] => q = u
  BY <1>2, <1>3, <1>6, <1>8
<1>10. CASE t = "test1"
  <2>1. results' = BindingResults(m, LocalAddr(l))
    BY <1>3, <1>10 DEF ResponseResults
  <2>2. results'.addrLocal = LocalAddr(l) /\ results'.addrMapped = m.mapped
    BY <1>3, <2>1 DEF BindingResults, Results
  <2>3. /\ "behavior2" \notin answered' /\ "behavior3" \notin answered'
        /\ "test1" \in MappingTests
    BY <1>2, <1>3, <1>10 DEF MappingTests
  <2>4. results'.fHasOtherAddress =>
           results'.addrAP = DestOf("behavior2") /\ results'.addrAA = DestOf("behavior3")
    <3>1. SUFFICES ASSUME results'.fHasOtherAddress
                   PROVE  /\ results'.addrAP = DestOf("behavior2")
                          /\ results'.addrAA = DestOf("behavior3")
      OBVIOUS
    <3>2. m.other # NoAddr
      BY <1>3, <2>1, <3>1 DEF BindingResults, Results
    <3>3. m.other = DestOf("behavior3")
      BY <1>2, <1>10, <3>2 DEF Faithful
    <3>4. /\ results'.addrAA = m.other
          /\ results'.addrAP = SetPort(m.other, config.addrServer.port)
      BY <1>3, <2>1, <3>2 DEF BindingResults, Results
    <3>5. SetPort(DestOf("behavior3"), DestOf("test1").port) = DestOf("behavior2")
      BY DEF SetPort, DestOf
    <3>6. QED
      BY <1>4, <3>3, <3>4, <3>5
  <2>5. Evidence(P \cup {l}, ownPorts)'
    BY <1>5, <1>7, <1>8, <1>9, <1>10, <2>2, <2>3 DEF Evidence
  <2>6. WorldOK'
    BY <1>3, <2>3, <2>4 DEF WorldOK
  <2>7. QED
    BY <2>5, <2>6
<1>11. CASE t = "behavior2"
  <2>1. /\ results'.addrMappingAP = m.mapped
        /\ \A f \in {"addrLocal", "addrMapped", "addrAP", "addrAA", "addrMappingAA",
                      "fIsDirect", "fHasOtherAddress", "fBindingTestSuccess"} :
              results'[f] = results[f]
    BY <1>3, <1>11 DEF ResponseResults, Behavior2Results, Results
  <2>2. t \in MappingTests /\ t # "test1" /\ t # "behavior3"
    BY <1>11 DEF MappingTests
  <2>3. Evidence(P \cup {l}, ownPorts)'
    <3>1. \A q \in {"test1", "behavior3"} : q \in MappingTests /\ port2[q] = port[q]
      BY <1>8, <1>11 DEF MappingTests
    <3>2. "behavior3" \in answered' => "behavior3" \in answered
      BY <1>3, <1>11
    <3>3. QED
      BY <1>5, <1>6, <1>7, <1>8, <1>9, <1>11, <2>1, <2>2, <3>1, <3>2 DEF Evidence
  <2>4. WorldOK'
    BY <1>2, <1>3, <1>11, <2>1 DEF WorldOK
  <2>5. QED
    BY <2>3, <2>4
<1>12. CASE t = "behavior3"
  <2>1. /\ results'.addrMappingAA = m.mapped
        /\ \A f \in {"addrLocal", "addrMapped", "addrAP", "addrAA", "addrMappingAP",
                      "fIsDirect", "fHasOtherAddress", "fBindingTestSuccess"} :
              results'[f] = results[f]
    BY <1>3, <1>12 DEF ResponseResults, Behavior3Results, Results
  <2>2. t \in MappingTests
    BY <1>12 DEF MappingTests
  <2>3. Evidence(P \cup {l}, ownPorts)'
    <3>1. \A q \in {"test1", "behavior2"} : q \in MappingTests /\ port2[q] = port[q]
      BY <1>8, <1>12 DEF MappingTests
    <3>2. "behavior2" \in answered' => "behavior2" \in answered
      BY <1>3, <1>12
    <3>3. QED
      BY <1>5, <1>6, <1>7, <1>8, <1>9, <1>12, <2>1, <2>2, <3>1, <3>2 DEF Evidence
  <2>4. WorldOK'
    BY <1>2, <1>3, <1>12, <2>1 DEF WorldOK
  <2>5. QED
    BY <2>3, <2>4
<1>13. CASE t \in {"filtering2", "filtering3"}
  <2>1. \A f \in {"addrLocal", "addrMapped", "addrAP", "addrAA", "addrMappingAP",
                  "addrMappingAA", "fIsDirect", "fHasOtherAddress",
                  "fBindingTestSuccess"} : results'[f] = results[f]
    BY <1>3, <1>13 DEF ResponseResults, Filtering2Results, Filtering3Results, Results
  <2>2. /\ \A q \in MappingTests : port2[q] = port[q]
        /\ MappingTests \cap answered' = MappingTests \cap answered
        /\ {"test1", "behavior2", "behavior3"} = MappingTests
    BY <1>3, <1>8, <1>13 DEF MappingTests
  <2>3. Evidence(P \cup {l}, ownPorts)'
    BY <1>6, <1>7, <1>8, <1>9, <2>1, <2>2 DEF Evidence
  <2>4. WorldOK'
    BY <1>3, <2>1, <2>2 DEF WorldOK
  <2>5. QED
    BY <2>3, <2>4
<1>14. QED
  BY <1>2, <1>10, <1>11, <1>12, <1>13 DEF Tests
-----------------------------------------------------------------------------
(* The second mapping is never 0.0.0.0 where the server answers: behavior3 *)
(* is not skipped for it                                                   *)
LEMMA MappingNotZero ==
    ASSUME WorldOK, NEW P, NEW ownPorts \in BOOLEAN, Evidence(P, ownPorts)
    PROVE  "behavior2" \in answered => ~IsIPAddressZero(results.addrMappingAP)
<1>1. PICK port \in [MappingTests -> LocalPorts] :
          "behavior2" \in answered =>
                results.addrMappingAP = Mapped(port["behavior2"], DestOf("behavior2"))
  BY DEF Evidence
<1>2. port["behavior2"] \in LocalPorts
  BY DEF MappingTests
<1>3. Mapped(port["behavior2"], DestOf("behavior2")) \in RealAddr
  BY <1>2, MappedPort DEF WorldOK, Tests
<1>4. QED
  BY <1>1, <1>3, AddressAssumption DEF RealAddr, IsIPAddressZero

(* A conclusion from the mappings of one port is the class of the NAT.     *)
(* From mappings of different ports it can only be the strictest class, or *)
(* that there is no NAT, which every single mapping shows.                 *)
LEMMA MappingFollows ==
    ASSUME IInv, WorldOK, NEW P, NEW ownPorts \in BOOLEAN, Evidence(P, ownPorts),
           results.fBehaviorTestSuccess
    PROVE  /\ \A l : P \subseteq {l} => results.behavior = nat.mapping
           /\ nat.mapping = "Direct" => results.behavior = "Direct"
           /\ ownPorts /\ nat.mapping # "Direct" =>
                 results.behavior = "AddressAndPortDependent"
<1>1. PICK port \in [MappingTests -> LocalPorts] :
          /\ \A t \in MappingTests \cap answered : port[t] \in P
          /\ ownPorts => \A t, u \in MappingTests \cap answered :
                            port[t] = port[u] => t = u
          /\ results.fBindingTestSuccess =>
                /\ results.addrLocal = LocalAddr(port["test1"])
                /\ results.addrMapped = Mapped(port["test1"], DestOf("test1"))
          /\ "behavior2" \in answered =>
                results.addrMappingAP = Mapped(port["behavior2"], DestOf("behavior2"))
          /\ "behavior3" \in answered =>
                results.addrMappingAA = Mapped(port["behavior3"], DestOf("behavior3"))
  BY DEF Evidence
<1> DEFINE one   == port["test1"]
           two   == port["behavior2"]
           three == port["behavior3"]
<1>2. /\ one \in LocalPorts /\ two \in LocalPorts /\ three \in LocalPorts
      /\ "test1" \in Tests /\ "behavior2" \in Tests /\ "behavior3" \in Tests
      /\ nat \in NatClass
  BY DEF MappingTests, Tests, WorldOK
<1>3. /\ "test1" \in answered
      /\ results.addrLocal = LocalAddr(one)
      /\ results.addrMapped = Mapped(one, DestOf("test1"))
      /\ results.fIsDirect <=> results.addrMapped = results.addrLocal
  BY <1>1 DEF IInv, Binding, BehaviorTests
<1>4. results.fIsDirect <=> nat.mapping = "Direct"
  BY <1>2, <1>3, DirectIsSeen
<1>5. results.behavior \in {"Direct", "EndpointIndependent", "AddressDependent",
                            "AddressAndPortDependent"}
  BY DEF IInv, TypeOK, Results, Behavior, BehaviorTests, BehaviorEvidence
<1>6. CASE results.behavior = "Direct"
  BY <1>3, <1>4, <1>6 DEF IInv, BehaviorTests, BehaviorEvidence
<1>7. CASE results.behavior # "Direct"
  <2>1. "behavior2" \in answered
    BY <1>5, <1>7 DEF IInv, BehaviorTests, BehaviorEvidence
  <2>2. nat.mapping # "Direct" /\ results.addrMappingAP = Mapped(two, DestOf("behavior2"))
    BY <1>1, <1>4, <2>1 DEF WorldOK
  <2>3. /\ ownPorts => one # two
        /\ \A l : P \subseteq {l} => one = l /\ two = l
    BY <1>1, <1>3, <2>1 DEF MappingTests
  <2>4. CASE results.behavior = "EndpointIndependent"
    <3>1. Mapped(two, DestOf("behavior2")) = Mapped(one, DestOf("test1"))
      BY <1>3, <2>2, <2>4 DEF IInv, BehaviorTests, BehaviorEvidence
    <3>2. one = two
      BY <1>2, <3>1, DifferentPorts
    <3>3. nat.mapping = "EndpointIndependent"
      BY <1>2, <2>2, <3>1, <3>2, ClassIsSeen
    <3>4. QED
      BY <2>2, <2>3, <2>4, <3>2, <3>3
  <2>5. CASE results.behavior \in {"AddressDependent", "AddressAndPortDependent"}
    <3>1. /\ "behavior3" \in answered
          /\ results.addrMappingAP # results.addrMapped
          /\ results.behavior = "AddressDependent" <=>
                results.addrMappingAA = results.addrMappingAP
      BY <2>5 DEF IInv, BehaviorTests, BehaviorEvidence
    <3>2. results.addrMappingAA = Mapped(three, DestOf("behavior3"))
      BY <1>1, <3>1
    <3>3. /\ ownPorts => two # three
          /\ \A l : P \subseteq {l} => three = l
      BY <1>1, <2>1, <3>1 DEF MappingTests
    <3>4. ownPorts => results.behavior = "AddressAndPortDependent"
      BY <1>2, <2>2, <2>5, <3>1, <3>2, <3>3, DifferentPorts
    <3>5. ASSUME NEW l, P \subseteq {l}
          PROVE  results.behavior = nat.mapping
      <4>1. one = l /\ two = l /\ three = l
        BY <2>3, <3>3, <3>5
      <4>2. /\ nat.mapping # "EndpointIndependent"
            /\ results.behavior = "AddressDependent" <=>
                  nat.mapping \in {"EndpointIndependent", "AddressDependent"}
        BY <1>2, <1>3, <2>2, <3>1, <3>2, <4>1, ClassIsSeen
      <4>3. nat.mapping \in {"AddressDependent", "AddressAndPortDependent"}
        BY <1>2, <2>2, <4>2 DEF NatClass, Behavior
      <4>4. QED
        BY <2>5, <4>2, <4>3
    <3>6. QED
      BY <2>2, <3>4, <3>5
  <2>6. QED
    BY <1>5, <1>7, <2>4, <2>5
<1>8. QED
  BY <1>6, <1>7
=============================================================================
