-------------------------- MODULE StunClientLogic --------------------------
(***************************************************************************)
(* CStunClientLogic (jni/stunserver/all/stunclientlogic.cpp) and the five  *)
(* tests it sequences (stunclienttests.cpp): the basic binding test, the   *)
(* two NAT behaviour tests and the two NAT filtering tests.                *)
(*                                                                         *)
(* The object is a passive state machine.  Its owner calls Initialize      *)
(* once, then GetNextMessage and ProcessResponse in any order, until       *)
(* GetNextMessage returns RESULTS_READY.  GetNextMessage is a loop over    *)
(* the test list: one iteration of that loop is one action here, and `pc'  *)
(* says whether a call is being executed.                                  *)
(*                                                                         *)
(* Addresses are [ip, port] records, a message is reduced to what the      *)
(* tests read: the transaction id, the mapped address (XOR-MAPPED-ADDRESS  *)
(* or, failing that, MAPPED-ADDRESS) and OTHER-ADDRESS.                    *)
(***************************************************************************)
EXTENDS Naturals, Sequences

CONSTANTS
    IPs,              \* the IP addresses that can appear in a message
    Ports,            \* the ports that can appear in a message
    ZeroIP,           \* 0.0.0.0: what a zeroed CSocketAddress holds
    NoAddr,           \* the address attribute is absent from the message
    NoTid,            \* the all-zero transaction id of a test that has not sent
    ForeignTid,       \* a transaction id no test has chosen
    Configs,          \* the configurations the owner may pass to Initialize
    ClockModulus,     \* GetMillisecondCounter counts modulo this (2^32)
    TicksPerSecond,   \* clock ticks in a second (1000)
    DefaultTimeout,   \* seconds to wait when the configuration says 0 (3)
    DefaultAttempts   \* requests per test when the configuration says 0 (2)

RealAddr == [ip : IPs, port : Ports]
ZeroAddr == [ip |-> ZeroIP, port |-> 0]

(* What an address attribute can say: GetMappedAddress takes 0.0.0.0 too   *)
SentAddr == [ip : IPs \cup {ZeroIP}, port : Ports]
Addr     == SentAddr \cup {ZeroAddr}

IsIPAddressZero(a) == a.ip = ZeroIP
SetPort(a, p)      == [a EXCEPT !.port = p]

Config == [addrServer : RealAddr, fTimeoutIsInstant : BOOLEAN,
           timeoutSeconds : Nat, uMaxAttempts : Nat,
           fBehaviorTest : BOOLEAN, fFilteringTest : BOOLEAN]

ASSUME AddressAssumption == /\ ZeroIP \notin IPs
                            /\ NoAddr \notin Addr
ASSUME ConfigAssumption  == Configs \subseteq Config
ASSUME ClockAssumption   == /\ ClockModulus \in Nat \ {0}
                            /\ TicksPerSecond \in Nat \ {0}
                            /\ DefaultTimeout \in Nat \ {0}
                            /\ DefaultAttempts \in Nat \ {0}

Tests    == {"test1", "behavior2", "behavior3", "filtering2", "filtering3"}
Behavior == {"Unknown", "Direct", "EndpointIndependent",
             "AddressDependent", "AddressAndPortDependent"}
(* DirectConnectionFiltering is declared but no code ever concludes it     *)
Filtering == {"Unknown", "EndpointIndependent",
              "AddressDependent", "AddressAndPortDependent"}

(***************************************************************************)
(* Transaction ids are 64 random bits chosen by a test at its first        *)
(* request and kept for its retries; ids of different tests are taken to   *)
(* be different, so a test's id is named after the test.                   *)
(***************************************************************************)
ASSUME TidAssumption == /\ NoTid \notin Tests
                        /\ ForeignTid \notin Tests
                        /\ NoTid # ForeignTid

Response == [tid : Tests \cup {ForeignTid},
             mapped : SentAddr \cup {NoAddr},
             other : SentAddr \cup {NoAddr}]
Request  == [tid : Tests, dest : Addr,
             changeIP : BOOLEAN, changePort : BOOLEAN]

VARIABLES
    config, results, fInitialized, timeLastMessageSent, sendCount,
    fPreCheckRunOnTest, testlist, nTestIndex,
    fCompleted,       \* per test: CStunClientTestBase::_fCompleted
    transid,          \* per test: CStunClientTestBase::_transid
    pc,               \* "idle", or "next" inside a call of GetNextMessage
    timeCurrent,      \* the clock value passed to that call
    hr,               \* what the last completed call returned
    spMsg,            \* the request GetNextMessage built, {} before the first
    requests,         \* history: requests built, per test
    answered          \* history: the tests that accepted a response

logicVars == <<config, results, fInitialized, timeLastMessageSent, sendCount,
               fPreCheckRunOnTest, testlist, nTestIndex, fCompleted, transid>>
callVars  == <<pc, timeCurrent, hr, spMsg>>
history   == <<requests, answered>>
vars      == <<logicVars, callVars, history>>

-----------------------------------------------------------------------------
(* StunClientResults, and its Init                                         *)

Results == [fBindingTestSuccess : BOOLEAN, fIsDirect : BOOLEAN,
            addrLocal : Addr, addrMapped : Addr, fHasOtherAddress : BOOLEAN,
            addrPA : Addr, addrAP : Addr, addrAA : Addr,
            fBehaviorTestSuccess : BOOLEAN, behavior : Behavior,
            addrMappingAP : Addr, addrMappingAA : Addr,
            fFilteringTestSuccess : BOOLEAN, filtering : Filtering,
            fGotTest2Response : BOOLEAN, fGotTest3Response : BOOLEAN]

InitResults ==
    [fBindingTestSuccess |-> FALSE, fIsDirect |-> FALSE,
     addrLocal |-> ZeroAddr, addrMapped |-> ZeroAddr,
     fHasOtherAddress |-> FALSE,
     addrPA |-> ZeroAddr, addrAP |-> ZeroAddr, addrAA |-> ZeroAddr,
     fBehaviorTestSuccess |-> FALSE, behavior |-> "Unknown",
     addrMappingAP |-> ZeroAddr, addrMappingAA |-> ZeroAddr,
     fFilteringTestSuccess |-> FALSE, filtering |-> "Unknown",
     fGotTest2Response |-> FALSE, fGotTest3Response |-> FALSE]

(* The test list that Initialize builds                                    *)
TestList(fBehaviorTest, fFilteringTest) ==
    CASE  fBehaviorTest /\  fFilteringTest ->
            <<"test1", "behavior2", "behavior3", "filtering2", "filtering3">>
      []  fBehaviorTest /\ ~fFilteringTest -> <<"test1", "behavior2", "behavior3">>
      [] ~fBehaviorTest /\  fFilteringTest -> <<"test1", "filtering2", "filtering3">>
      [] ~fBehaviorTest /\ ~fFilteringTest -> <<"test1">>

(* What Initialize makes of the configuration it is given                  *)
EffectiveConfig(c) ==
    [c EXCEPT
      !.timeoutSeconds = IF c.fTimeoutIsInstant THEN 0
                         ELSE IF @ = 0 THEN DefaultTimeout ELSE @,
      !.uMaxAttempts   = IF @ = 0 THEN DefaultAttempts ELSE @]

CurrentTest == testlist[nTestIndex]
HasCurrentTest == nTestIndex <= Len(testlist)

-----------------------------------------------------------------------------
(* PreRunCheck, IsReadyToRun and GetMessage of the five tests              *)

CompletesInPreRunCheck(t) ==
    /\ t \in {"behavior2", "filtering2"}
    /\ results.fBindingTestSuccess
    /\ results.fIsDirect

(* Mutant: a direct host is given a filtering class of its own             *)
DirectPreRunResults(t) ==
    IF CompletesInPreRunCheck(t) /\ t = "filtering2"
    THEN [results EXCEPT !.filtering = "DirectConnection",
                         !.fFilteringTestSuccess = TRUE]
    ELSE results

PreRunResults(t) ==
    IF ~CompletesInPreRunCheck(t) THEN results
    ELSE IF t = "behavior2"
    THEN [results EXCEPT !.behavior = "Direct", !.fBehaviorTestSuccess = TRUE]
    ELSE [results EXCEPT !.filtering = "EndpointIndependent",
                         !.fFilteringTestSuccess = TRUE]

(* Mutant: behavior3 runs only if behavior2 has learnt nothing             *)
IsReadyToRunNegated(t) ==
    /\ ~fCompleted[t]
    /\ t # "test1" => results.fBindingTestSuccess /\ results.fHasOtherAddress
    /\ t \in {"behavior2", "behavior3"} => ~results.fBehaviorTestSuccess
    /\ t = "behavior3" => IsIPAddressZero(results.addrMappingAP)

IsReadyToRun(t) ==
    /\ ~fCompleted[t]
    /\ t # "test1" => results.fBindingTestSuccess /\ results.fHasOtherAddress
    /\ t \in {"behavior2", "behavior3"} => ~results.fBehaviorTestSuccess
    /\ t = "behavior3" => ~IsIPAddressZero(results.addrMappingAP)
    /\ t \in {"filtering2", "filtering3"} => /\ ~results.fFilteringTestSuccess
                                             /\ ~results.fGotTest2Response

(* Mutant: only filtering2 carries a change request                        *)
GetMessageOneChange(t) ==
    [tid |-> t,
     dest |-> CASE t = "behavior2" -> results.addrAP
                [] t = "behavior3" -> results.addrAA
                [] OTHER -> config.addrServer,
     changeIP |-> t = "filtering2", changePort |-> t = "filtering2"]

GetMessage(t) ==
    [tid |-> t,
     dest |-> CASE t = "behavior2" -> results.addrAP
                [] t = "behavior3" -> results.addrAA
                [] OTHER -> config.addrServer,
     changeIP   |-> t = "filtering2",
     changePort |-> t \in {"filtering2", "filtering3"}]

(* Mutants: NotifyTimeout does not ask which filtering test it belongs to; *)
(* or it leaves the verdict without the success flag                       *)
EagerTimeoutResults(t) ==
    IF t \in {"filtering2", "filtering3"}
    THEN [results EXCEPT !.fFilteringTestSuccess = TRUE,
                         !.filtering = "AddressAndPortDependent"]
    ELSE results

SilentTimeoutResults(t) ==
    IF t = "filtering3"
    THEN [results EXCEPT !.filtering = "AddressAndPortDependent"]
    ELSE results

(* NotifyTimeout: the results after test t gave up                         *)
TimeoutResults(t) ==
    CASE t = "test1" -> [results EXCEPT !.fBindingTestSuccess = FALSE]
      [] t \in {"behavior2", "behavior3"} ->
            [results EXCEPT !.fBehaviorTestSuccess = FALSE]
      [] t = "filtering2" -> results
      [] t = "filtering3" ->
            [results EXCEPT !.fFilteringTestSuccess = TRUE,
                            !.filtering = "AddressAndPortDependent"]

(* Mutant: the transaction id of a response is not looked at               *)
AcceptsAnyTid(t, m) == t \notin {"filtering2", "filtering3"} => m.mapped # NoAddr

(* ProcessResponse: does test t accept message m, and the results after it *)
Accepts(t, m) ==
    /\ m.tid = transid[t]                        \* BasicReaderValidation
    /\ t \notin {"filtering2", "filtering3"} => m.mapped # NoAddr

(* Mutant: the two half-alternate addresses are exchanged                  *)
BindingResultsSwapped(m, addrLocal) ==
    LET r == [results EXCEPT
                !.fBindingTestSuccess = TRUE,
                !.fIsDirect = (addrLocal = m.mapped),
                !.addrLocal = addrLocal,
                !.addrMapped = m.mapped,
                !.fHasOtherAddress = (m.other # NoAddr)]
    IN  IF m.other = NoAddr THEN r
        ELSE [r EXCEPT !.addrAA = m.other,
                       !.addrAP = SetPort(config.addrServer, m.other.port),
                       !.addrPA = SetPort(m.other, config.addrServer.port)]

BindingResults(m, addrLocal) ==
    LET r == [results EXCEPT
                !.fBindingTestSuccess = TRUE,
                !.fIsDirect = (addrLocal = m.mapped),
                !.addrLocal = addrLocal,
                !.addrMapped = m.mapped,
                !.fHasOtherAddress = (m.other # NoAddr)]
    IN  IF m.other = NoAddr THEN r
        ELSE [r EXCEPT !.addrAA = m.other,
                       !.addrPA = SetPort(config.addrServer, m.other.port),
                       !.addrAP = SetPort(m.other, config.addrServer.port)]

Behavior2Results(m) ==
    IF m.mapped = results.addrMapped
    THEN [results EXCEPT !.addrMappingAP = m.mapped,
                         !.fBehaviorTestSuccess = TRUE,
                         !.behavior = "EndpointIndependent"]
    ELSE [results EXCEPT !.addrMappingAP = m.mapped]

(* Mutant: the third mapping is compared with the first, not the second    *)
FirstMappingResults(m) ==
    [results EXCEPT !.addrMappingAA = m.mapped,
                    !.fBehaviorTestSuccess = TRUE,
                    !.behavior = IF m.mapped = results.addrMapped
                                 THEN "AddressDependent"
                                 ELSE "AddressAndPortDependent"]

Behavior3Results(m) ==
    [results EXCEPT !.addrMappingAA = m.mapped,
                    !.fBehaviorTestSuccess = TRUE,
                    !.behavior = IF m.mapped = results.addrMappingAP
                                 THEN "AddressDependent"
                                 ELSE "AddressAndPortDependent"]

Filtering2Results ==
    [results EXCEPT !.fGotTest2Response = TRUE,
                    !.fFilteringTestSuccess = TRUE,
                    !.filtering = "EndpointIndependent"]

Filtering3Results ==
    [results EXCEPT !.fGotTest3Response = TRUE,
                    !.fFilteringTestSuccess = TRUE,
                    !.filtering = "AddressDependent"]

ResponseResults(t, m, addrLocal) ==
    CASE t = "test1"      -> BindingResults(m, addrLocal)
      [] t = "behavior2"  -> Behavior2Results(m)
      [] t = "behavior3"  -> Behavior3Results(m)
      [] t = "filtering2" -> Filtering2Results
      [] t = "filtering3" -> Filtering3Results

-----------------------------------------------------------------------------
Init ==
    /\ config \in Configs          \* meaningless until Initialize
    /\ results = InitResults
    /\ fInitialized = FALSE
    /\ timeLastMessageSent = 0
    /\ sendCount = 0
    /\ fPreCheckRunOnTest = FALSE
    /\ testlist = <<>>
    /\ nTestIndex = 1
    /\ fCompleted = [t \in Tests |-> FALSE]
    /\ transid = [t \in Tests |-> NoTid]
    /\ pc = "idle"
    /\ timeCurrent = 0
    /\ hr = "none"
    /\ spMsg = {}
    /\ requests = [t \in Tests |-> 0]
    /\ answered = {}

Return(code) == pc' = "idle" /\ hr' = code

(* Initialize: an instance is never reused                                 *)
Initialize(c) ==
    /\ pc = "idle"
    /\ ~fInitialized
    /\ config' = EffectiveConfig(c)
    /\ fInitialized' = TRUE
    /\ nTestIndex' = 1
    /\ testlist' = TestList(c.fBehaviorTest, c.fFilteringTest)
    /\ fPreCheckRunOnTest' = FALSE
    /\ timeLastMessageSent' = 0
    /\ Return("S_OK")
    /\ UNCHANGED <<results, sendCount, fCompleted, transid,
                   timeCurrent, spMsg, history>>

Reinitialize ==
    /\ pc = "idle"
    /\ fInitialized
    /\ Return("E_UNEXPECTED")
    /\ UNCHANGED <<logicVars, timeCurrent, spMsg, history>>

(* Any call before Initialize fails and changes nothing                    *)
CallUninitialized ==
    /\ pc = "idle"
    /\ ~fInitialized
    /\ Return("E_FAIL")
    /\ UNCHANGED <<logicVars, timeCurrent, spMsg, history>>

(* Any call with an argument its guards refuse: a server address without   *)
(* IP address or port, a missing buffer or one that is too small           *)
InvalidArgument ==
    /\ pc = "idle"
    /\ Return("E_INVALIDARG")
    /\ UNCHANGED <<logicVars, timeCurrent, spMsg, history>>

(* GetNextMessage(now): the call, then one action per way through its loop *)
CallGetNextMessage(now) ==
    /\ pc = "idle"
    /\ fInitialized
    /\ pc' = "next"
    /\ timeCurrent' = now
    /\ UNCHANGED <<logicVars, hr, spMsg, history>>

ResultsReady ==
    /\ pc = "next"
    /\ ~HasCurrentTest
    /\ Return("RESULTS_READY")
    /\ UNCHANGED <<logicVars, timeCurrent, spMsg, history>>

PreRunCheck ==
    /\ pc = "next"
    /\ HasCurrentTest
    /\ ~fPreCheckRunOnTest
    /\ results' = PreRunResults(CurrentTest)
    /\ fCompleted' = [fCompleted EXCEPT
                        ![CurrentTest] = @ \/ CompletesInPreRunCheck(CurrentTest)]
    /\ fPreCheckRunOnTest' = TRUE
    /\ UNCHANGED <<config, fInitialized, timeLastMessageSent, sendCount,
                   testlist, nTestIndex, transid, callVars, history>>

InTest == pc = "next" /\ HasCurrentTest /\ fPreCheckRunOnTest

(* Mutant: the attempts of one test are charged to the next                *)
NextTestSameCount ==
    /\ InTest
    /\ fCompleted[CurrentTest] \/ ~IsReadyToRun(CurrentTest)
    /\ nTestIndex' = nTestIndex + 1
    /\ fPreCheckRunOnTest' = FALSE
    /\ UNCHANGED <<config, results, fInitialized, timeLastMessageSent, sendCount,
                   testlist, fCompleted, transid, callVars, history>>

NextTest ==
    /\ InTest
    /\ fCompleted[CurrentTest] \/ ~IsReadyToRun(CurrentTest)
    /\ nTestIndex' = nTestIndex + 1
    /\ sendCount' = 0
    /\ fPreCheckRunOnTest' = FALSE
    /\ UNCHANGED <<config, results, fInitialized, timeLastMessageSent,
                   testlist, fCompleted, transid, callVars, history>>

(* Mutants: the seconds are rounded up; the subtraction does not wrap      *)
SecondsRoundedUp ==
    (((timeCurrent + ClockModulus - timeLastMessageSent) % ClockModulus)
        + TicksPerSecond - 1) \div TicksPerSecond

SecondsNoWrap ==
    (IF timeCurrent < timeLastMessageSent THEN 0 ELSE timeCurrent - timeLastMessageSent)
        \div TicksPerSecond

(* Whole seconds since the last request; the subtraction is 32 bit wide    *)
SecondsSinceSend ==
    ((timeCurrent + ClockModulus - timeLastMessageSent) % ClockModulus)
        \div TicksPerSecond

InWait == SecondsSinceSend < config.timeoutSeconds /\ sendCount # 0

KeepWaiting ==
    /\ InTest
    /\ IsReadyToRun(CurrentTest)
    /\ InWait
    /\ Return("STILL_WAITING")
    /\ UNCHANGED <<logicVars, timeCurrent, spMsg, history>>

(* Mutant: giving up does not complete the test                            *)
NotifyTimeoutOnly ==
    /\ InTest
    /\ IsReadyToRun(CurrentTest)
    /\ ~InWait
    /\ sendCount >= config.uMaxAttempts
    /\ results' = TimeoutResults(CurrentTest)
    /\ UNCHANGED <<config, fInitialized, timeLastMessageSent, sendCount,
                   fPreCheckRunOnTest, testlist, nTestIndex, fCompleted, transid,
                   callVars, history>>

NotifyTimeout ==
    /\ InTest
    /\ IsReadyToRun(CurrentTest)
    /\ ~InWait
    /\ sendCount >= config.uMaxAttempts
    /\ results' = TimeoutResults(CurrentTest)
    /\ fCompleted' = [fCompleted EXCEPT ![CurrentTest] = TRUE]
    /\ UNCHANGED <<config, fInitialized, timeLastMessageSent, sendCount,
                   fPreCheckRunOnTest, testlist, nTestIndex, transid,
                   callVars, history>>

SendRequest ==
    /\ InTest
    /\ IsReadyToRun(CurrentTest)
    /\ ~InWait
    /\ sendCount < config.uMaxAttempts
    /\ transid' = [transid EXCEPT
                     ![CurrentTest] = IF @ = NoTid THEN CurrentTest ELSE @]
    /\ spMsg' = {GetMessage(CurrentTest)}
    /\ sendCount' = sendCount + 1
    /\ timeLastMessageSent' = timeCurrent
    /\ Return("S_OK")
    /\ requests' = [requests EXCEPT ![CurrentTest] = @ + 1]
    /\ UNCHANGED <<config, results, fInitialized, fPreCheckRunOnTest, testlist,
                   nTestIndex, fCompleted, timeCurrent, answered>>

GetNextMessageStep ==
    ResultsReady \/ PreRunCheck \/ NextTest \/ KeepWaiting \/ NotifyTimeout
        \/ SendRequest

(* ProcessResponse(m, addrLocal)                                           *)
(* Mutant: a test that is done still takes responses                       *)
CanProcessAlways == HasCurrentTest

CanProcess == HasCurrentTest /\ ~fCompleted[CurrentTest]

AcceptResponse(m, addrLocal) ==
    /\ pc = "idle"
    /\ fInitialized
    /\ CanProcess
    /\ Accepts(CurrentTest, m)
    /\ results' = ResponseResults(CurrentTest, m, addrLocal)
    /\ fCompleted' = [fCompleted EXCEPT ![CurrentTest] = TRUE]
    /\ Return("S_OK")
    /\ answered' = answered \cup {CurrentTest}
    /\ UNCHANGED <<config, fInitialized, timeLastMessageSent, sendCount,
                   fPreCheckRunOnTest, testlist, nTestIndex, transid,
                   timeCurrent, spMsg, requests>>

RejectResponse(m) ==
    /\ pc = "idle"
    /\ fInitialized
    /\ IF CanProcess THEN ~Accepts(CurrentTest, m) /\ Return("E_FAIL")
                     ELSE Return("E_UNEXPECTED")
    /\ UNCHANGED <<logicVars, timeCurrent, spMsg, history>>

ProcessResponse(m, addrLocal) == AcceptResponse(m, addrLocal) \/ RejectResponse(m)

-----------------------------------------------------------------------------
(* The object under any owner: any call, any clock value, any message.     *)
Next ==
    \/ \E c \in Configs : Initialize(c)
    \/ Reinitialize
    \/ CallUninitialized
    \/ InvalidArgument
    \/ \E now \in 0 .. ClockModulus - 1 : CallGetNextMessage(now)
    \/ ResultsReady
    \/ PreRunCheck
    \/ NextTest
    \/ KeepWaiting
    \/ NotifyTimeout
    \/ SendRequest
    \/ \E m \in Response, a \in RealAddr : AcceptResponse(m, a)
    \/ \E m \in Response : RejectResponse(m)

(* A call runs to its end: the object is driven by one thread.             *)
Fairness == WF_vars(GetNextMessageStep)

Spec     == Init /\ [][Next]_vars
FairSpec == Spec /\ Fairness

-----------------------------------------------------------------------------
TypeOK ==
    /\ config \in Config
    /\ results \in Results
    /\ fInitialized \in BOOLEAN
    /\ timeLastMessageSent \in 0 .. ClockModulus - 1
    /\ sendCount \in Nat
    /\ fPreCheckRunOnTest \in BOOLEAN
    /\ testlist \in Seq(Tests)
    /\ nTestIndex \in Nat \ {0}
    /\ fCompleted \in [Tests -> BOOLEAN]
    /\ transid \in [Tests -> Tests \cup {NoTid}]
    /\ pc \in {"idle", "next"}
    /\ timeCurrent \in 0 .. ClockModulus - 1
    /\ hr \in {"none", "S_OK", "E_FAIL", "E_INVALIDARG", "E_UNEXPECTED",
               "STILL_WAITING", "RESULTS_READY"}
    /\ spMsg \in SUBSET Request
    /\ requests \in [Tests -> Nat]
    /\ answered \in SUBSET Tests

Exhausted(t) == t \notin answered /\ requests[t] = config.uMaxAttempts

(* The tests run strictly one after the other and each sends no more        *)
(* requests than the configuration allows: sendCount is reset exactly when *)
(* the list moves on, so no test inherits or loses attempts of another.    *)
RetryBudget ==
    \A i \in 1 .. Len(testlist) :
        LET t == testlist[i] IN
        /\ requests[t] <= config.uMaxAttempts
        /\ i = nTestIndex => requests[t] = sendCount
        /\ i > nTestIndex => requests[t] = 0 /\ ~fCompleted[t]

(* A mapping verdict stands on the responses that justify it, still in the *)
(* results when it is read: the addresses compared by the two behaviour    *)
(* tests are not overwritten between the tests or afterwards.              *)
BehaviorEvidence ==
    results.fBehaviorTestSuccess =>
        /\ results.behavior # "Unknown"
        /\ results.behavior = "Direct" =>
              results.fBindingTestSuccess /\ results.addrMapped = results.addrLocal
        /\ results.behavior = "EndpointIndependent" =>
              /\ "behavior2" \in answered
              /\ results.addrMappingAP = results.addrMapped
        /\ results.behavior \in {"AddressDependent", "AddressAndPortDependent"} =>
              /\ {"behavior2", "behavior3"} \subseteq answered
              /\ results.addrMappingAP # results.addrMapped
              /\ results.behavior = "AddressDependent" <=>
                    results.addrMappingAA = results.addrMappingAP

(* A filtering verdict is an argument from silence: each stricter class is *)
(* concluded only when every less strict one was asked for as often as the *)
(* configuration allows and never answered.                                *)
FilteringEvidence ==
    results.fFilteringTestSuccess =>
        /\ results.filtering # "Unknown"
        /\ results.filtering = "EndpointIndependent" =>
              results.fIsDirect \/ "filtering2" \in answered
        /\ results.filtering = "AddressDependent" =>
              Exhausted("filtering2") /\ "filtering3" \in answered
        /\ results.filtering = "AddressAndPortDependent" =>
              Exhausted("filtering2") /\ Exhausted("filtering3")

(* RESULTS_READY means there is nothing left to learn: a missing binding   *)
(* or behaviour verdict is explained by a test that used up its attempts,  *)
(* or by an answer to behavior2 that gave 0.0.0.0 as the mapped address,   *)
(* which behavior3 takes for no answer (stunclienttests.cpp:230).  The     *)
(* filtering tests, where they can run at all, always conclude.            *)
ConclusiveAtEnd ==
    (fInitialized /\ ~HasCurrentTest) =>
        LET CanTest == /\ results.fBindingTestSuccess
                       /\ results.fIsDirect \/ results.fHasOtherAddress
        IN  /\ results.fBindingTestSuccess \/ Exhausted("test1")
            /\ (config.fBehaviorTest /\ CanTest) =>
                  \/ results.fBehaviorTestSuccess
                  \/ Exhausted("behavior2")
                  \/ Exhausted("behavior3")
                  \/ "behavior2" \in answered /\ IsIPAddressZero(results.addrMappingAP)
            /\ (config.fFilteringTest /\ CanTest) => results.fFilteringTestSuccess

(* What a concluded test has put into the results                          *)
Kept(flag, fields) ==
    results[flag] => \A f \in {flag} \cup fields : results'[f] = results[f]

VerdictsKept ==
    /\ Kept("fBindingTestSuccess", {"fIsDirect", "addrLocal", "addrMapped",
            "fHasOtherAddress", "addrPA", "addrAP", "addrAA"})
    /\ Kept("fBehaviorTestSuccess", {"behavior", "addrMappingAP", "addrMappingAA"})
    /\ Kept("fFilteringTestSuccess", {"filtering"})

(* What has been concluded is never revised: not by a duplicate or late    *)
(* response, and not by NotifyTimeout, which clears the success flags of   *)
(* the binding and behaviour tests unconditionally.                        *)
VerdictsStand == [][VerdictsKept]_vars

(* GetNextMessage returns: NotifyTimeout always completes the test, which  *)
(* is the assertion inside its loop, and the list is finite.               *)
CallReturns == pc = "next" ~> pc = "idle"
=============================================================================
