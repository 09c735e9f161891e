--------------------------- MODULE UdpClientLoop ---------------------------
(***************************************************************************)
(* UdpClientLoop (clientmain.cpp): the loop that drives CStunClientLogic   *)
(* over a UDP socket, through a NAT and over a network that delays,        *)
(* reorders, duplicates and loses datagrams.                               *)
(***************************************************************************)
EXTENDS StunWorld

CONSTANTS
    ClockStarts,   \* what the clock may show when the program starts
    Clocks,        \* subset of {"steady", "wall"}: may the clock be set once?
    Networks       \* subset of BOOLEAN: the values `reliable' may have

HalfSecond == TicksPerSecond \div 2

ASSUME UdpAssumption ==
    /\ ClockStarts \subseteq 0 .. ClockModulus - 1
    /\ Clocks \subseteq {"steady", "wall"}
    /\ Networks \subseteq BOOLEAN
    /\ HalfSecond * 2 = TicksPerSecond
    /\ LocalPorts = {1}

ASSUME CommandLineAssumption == Configs \subseteq UdpConfigs

VARIABLES
    loop,        \* where UdpClientLoop is
    now,         \* GetMillisecondCounter, in ticks
    clock,       \* the wall clock behind it: is it steady, can it still be set,
                 \* was it set, and has a test been cut short for it?
    elapsed,     \* history: the time since the last request, up to a second more
                 \* than a test waits
    reliable,    \* fixed: no datagram is lost or takes a half-second
    natSent,     \* the addresses the phone has sent to through the NAT
    toServer, toClient    \* the datagrams in flight

worldVars == <<nat, sockets, reliable, natSent, toServer, toClient>>
fixedVars == <<nat, sockets, reliable>>
udpVars   == <<vars, loop, now, clock, elapsed, worldVars>>

-----------------------------------------------------------------------------
(* A datagram is let in at an address the socket is mapped to towards a    *)
(* destination it has sent to, if it comes from where the filter allows    *)
LetIn(p) ==
    \E d \in natSent :
        /\ Mapped(1, d) = p.dst
        /\ nat.filtering = "AddressDependent" => d.ip = p.src.ip
        /\ nat.filtering = "AddressAndPortDependent" => d = p.src

ServerAnswers ==
    \E p \in toServer :
        /\ toServer' = toServer \ {p}
        /\ toClient' = toClient \cup Answers(p, FALSE)
        /\ UNCHANGED <<vars, loop, now, clock, elapsed, fixedVars, natSent>>

(* Datagrams that are lost, or that the NAT does not let in, are those     *)
(* that stay in flight for ever; one that is late may find the NAT more    *)
(* open than it was.  On a reliable network, where SelectTimeout waits for *)
(* them, the NAT drops them when they arrive.                              *)
NatDrops ==
    /\ reliable
    /\ \E p \in toClient :
        /\ ~LetIn(p)
        /\ toClient' = toClient \ {p}
        /\ UNCHANGED <<vars, loop, now, clock, elapsed, fixedVars, natSent, toServer>>

-----------------------------------------------------------------------------
(* The loop                                                                *)

UdpInit ==
    /\ Init
    /\ loop = "Start"
    /\ now \in ClockStarts
    /\ clock \in Clocks
    /\ elapsed = 0
    /\ nat \in Nats
    /\ sockets \in Servers
    /\ reliable \in Networks
    /\ natSent = {}
    /\ toServer = {}
    /\ toClient = {}

Start ==
    /\ loop = "Start"
    /\ \E c \in Configs : Initialize(c)
    /\ loop' \in {"GetNextMessage", "Failed"}    \* UDPInit may fail
    /\ UNCHANGED <<now, clock, elapsed, worldVars>>

CallLogic ==
    /\ loop = "GetNextMessage"
    /\ CallGetNextMessage(now)
    /\ loop' = "Result"
    /\ UNCHANGED <<now, clock, elapsed, worldVars>>

(* A test is asked again, or given up, before it was waited for as long as *)
(* configured                                                              *)
CutShort ==
    /\ sendCount > 0
    /\ \/ sendCount' = sendCount + 1
       \/ nTestIndex' # nTestIndex /\ CurrentTest \notin answered
    /\ elapsed < config.timeoutSeconds * TicksPerSecond

LogicStep ==
    /\ loop = "Result"
    /\ GetNextMessageStep
    /\ elapsed' = IF sendCount' = sendCount + 1 THEN 0 ELSE elapsed
    /\ clock' = IF CutShort THEN "spent" ELSE clock
    /\ UNCHANGED <<loop, now, worldVars>>

Returned(code) == loop = "Result" /\ pc = "idle" /\ hr = code

(* sendto may fail, and the loop does not care                             *)
Sendto ==
    /\ Returned("S_OK")
    /\ \/ \E m \in spMsg :
            /\ natSent' = natSent \cup {m.dest}
            /\ toServer' = toServer \cup {[src |-> Mapped(1, m.dest), dst |-> m.dest, msg |-> m]}
       \/ ~reliable /\ UNCHANGED <<natSent, toServer>>
    /\ loop' = "Select"
    /\ UNCHANGED <<vars, now, clock, elapsed, fixedVars, toClient>>

StillWaiting ==
    /\ Returned("STILL_WAITING")
    /\ loop' = "Select"
    /\ UNCHANGED <<vars, now, clock, elapsed, worldVars>>

Break ==
    /\ Returned("RESULTS_READY")
    /\ loop' = "Done"
    /\ UNCHANGED <<vars, now, clock, elapsed, worldVars>>

(* select, recvfromex and ProcessResponse.  On a network that is not       *)
(* reliable a duplicate of the datagram may still come.                    *)
ReceiveDatagram ==
    /\ loop = "Select"
    /\ \E p \in toClient :
         /\ LetIn(p)
         /\ ProcessResponse(p.msg, LocalAddr(1))
         /\ toClient' = IF reliable THEN toClient \ {p} ELSE toClient
    /\ loop' = "GetNextMessage"
    /\ UNCHANGED <<now, clock, elapsed, fixedVars, natSent, toServer>>

SelectTimeout ==
    /\ loop = "Select"
    /\ reliable => toServer = {} /\ toClient = {}
    /\ now' = (now + HalfSecond) % ClockModulus
    /\ elapsed' = IF elapsed + HalfSecond > (config.timeoutSeconds + 1) * TicksPerSecond
                  THEN elapsed ELSE elapsed + HalfSecond
    /\ loop' = "GetNextMessage"
    /\ UNCHANGED <<vars, clock, worldVars>>

(* The counter is the time of day: the user, or the network, may set it    *)
(* forward or back while the loop waits                                    *)
ClockSet ==
    /\ loop = "Select" /\ clock = "wall"
    /\ now' \in (0 .. ClockModulus - 1) \ {now}
    /\ clock' = "set"
    /\ UNCHANGED <<vars, loop, elapsed, worldVars>>

Stopped == loop \in {"Done", "Failed"} /\ UNCHANGED udpVars

LoopStep == Start \/ CallLogic \/ LogicStep \/ Sendto \/ StillWaiting \/ Break
                \/ ReceiveDatagram

UdpNext ==
    \/ Start \/ CallLogic \/ LogicStep \/ Sendto \/ StillWaiting \/ Break
    \/ ReceiveDatagram \/ SelectTimeout \/ ClockSet
    \/ ServerAnswers \/ NatDrops
    \/ Stopped

(* The process runs; datagrams do not arrive in an endless stream without  *)
(* a half-second's pause, so select times out again and again; on a        *)
(* reliable network every datagram gets to where it is going.              *)
UdpFairness ==
    /\ WF_udpVars(LoopStep)
    /\ SF_udpVars(SelectTimeout)
    /\ WF_udpVars(reliable /\ ServerAnswers)
    /\ WF_udpVars(NatDrops)

UdpSpec == UdpInit /\ [][UdpNext]_udpVars /\ UdpFairness

-----------------------------------------------------------------------------
Strictness(f) == CASE f = "EndpointIndependent" -> 1
                   [] f = "AddressDependent" -> 2
                   [] f = "AddressAndPortDependent" -> 3

(* Silence can make a NAT look stricter than it is, never looser: to be    *)
(* reported as able to receive from anywhere, or from any port of an IP    *)
(* address, the phone must have received such a datagram.                  *)
FilteringNeverLooser ==
    results.fFilteringTestSuccess =>
        Strictness(results.filtering) >= Strictness(nat.filtering)

(* Two things make it look looser all the same.  Behavior2 has used the    *)
(* same mapping to send to the alternate IP address, so an address-        *)
(* dependent filter lets the answer to filtering2 in.                      *)
OpenedByBehaviorTest ==
    /\ nat.mapping = "EndpointIndependent"
    /\ nat.filtering = "AddressDependent"
    /\ results.addrAP \in natSent

(* And a filter that does not translate, a firewall, is never asked: the   *)
(* pre-run check concludes from the direct mapping that nothing is there.  *)
TakenForDirect ==
    /\ nat.mapping = "Direct"
    /\ results.fIsDirect
    /\ requests["filtering2"] = 0 /\ requests["filtering3"] = 0

(* There is no third: neither a late, duplicate or foreign datagram nor a  *)
(* lost one makes a filter look looser than it is.                         *)
FilteringSound == OpenedByBehaviorTest \/ TakenForDirect \/ FilteringNeverLooser

(* Every test is waited for as long as configured, on a clock that wraps   *)
(* around at any moment; a clock that is set can cost one wait, and no     *)
(* more: the next request starts from the new time.                        *)
NoEarlyGiveUp == [][CutShort => clock = "set"]_udpVars

(* On a network that loses nothing the diagnosis is what it should be, and *)
(* complete whenever the server has the sockets for it, even if the clock  *)
(* was set: the second attempt makes up for the wait that was cut short.   *)
(* It is the NAT's class but for the two exceptions: a firewall is always  *)
(* diagnosed as endpoint independent.                                      *)
ExactDiagnosis ==
    (reliable /\ loop = "Done") =>
        /\ results.fBindingTestSuccess
        /\ (config.fBehaviorTest /\ sockets = Server!Socket) =>
              results.fBehaviorTestSuccess /\ results.behavior = nat.mapping
        /\ (config.fFilteringTest /\ sockets = Server!Socket) =>
              /\ results.fFilteringTestSuccess
              /\ IF nat.mapping = "Direct"
                 THEN results.filtering = "EndpointIndependent"
                 ELSE results.filtering = nat.filtering \/ OpenedByBehaviorTest

(* DumpResults asks for the success of the behaviour test where it prints  *)
(* the filtering test.  That costs the user a verdict when behavior2 or    *)
(* behavior3 was not answered, and never shows him a class that was not    *)
(* concluded: once the behaviour test has succeeded, so has the other.     *)
DumpedByWrongFlag == results.fFilteringTestSuccess /\ ~results.fBehaviorTestSuccess

DumpMatchesResults ==
    (loop = "Done" /\ config.fFilteringTest) =>
        IF DumpedByWrongFlag THEN DumpResults.filtering = "fail"
        ELSE DumpResults.filtering = (IF results.fFilteringTestSuccess
                                      THEN results.filtering ELSE "fail")

(* The program ends, whatever the network does                             *)
Terminates == <>(loop \in {"Done", "Failed"})
=============================================================================
