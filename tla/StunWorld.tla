----------------------------- MODULE StunWorld -----------------------------
(***************************************************************************)
(* What CStunClientLogic measures, shared by the two client loops: the NAT *)
(* in front of the phone and the STUN server beyond it.                    *)
(*                                                                         *)
(* The NAT is not in the repository.  It is what RFC 5780, which the tests *)
(* implement, says a NAT is: a class of mapping and a class of filtering.  *)
(* The server answers as module StunService promises.                      *)
(***************************************************************************)
EXTENDS StunClientLogic

CONSTANTS
    ServerIP, AlternateIP,   \* the two IP addresses of the server
    NatIP, LocalIP,          \* the phone as seen outside and inside the NAT
    Nats,                    \* the NATs the phone may be behind
    Servers,                 \* the sets of sockets the server may have
    LocalPorts               \* the ports local sockets may have

NatClass == [mapping : Behavior \ {"Unknown"}, filtering : Filtering \ {"Unknown"}]

ASSUME WorldAssumption ==
    /\ {ServerIP, AlternateIP, NatIP, LocalIP} \subseteq IPs
    /\ Nats \subseteq NatClass
    /\ LocalPorts \subseteq Nat /\ LocalPorts # {}
    /\ \A l \in LocalPorts : {l} \cup (4 * l + 1) .. (4 * l + 4) \subseteq Ports
    /\ {1, 2} \subseteq Ports

Server == INSTANCE StunService
            WITH sockets <- {}, addrs <- <<>>, pending <- {}, answer <- <<>>

ASSUME ServerAssumption ==
    /\ ServerIP # AlternateIP
    /\ \A s \in Servers : s \subseteq Server!Socket

VARIABLES nat, sockets       \* the NAT and the sockets of the server, fixed

-----------------------------------------------------------------------------
(* The program's options, as far as a loop depends on them; "" is one that *)
(* is not given, "other" any text the program does not know.  Host names,  *)
(* ports and adapters are the constants of this world.                     *)
ClientCmdLineArgs == [strMode     : {"", "basic", "full", "other"},
                      strProtocol : {"", "udp", "tcp", "other"}]

(* An unknown protocol ends the program; an unknown mode is only logged    *)
Accepted == {args \in ClientCmdLineArgs : args.strProtocol # "other"}

fTCP(args) == args.strProtocol = "tcp"

CreateConfigFromCommandLine(args) ==
    [addrServer        |-> [ip |-> ServerIP, port |-> 1],
     fTimeoutIsInstant |-> FALSE,
     timeoutSeconds    |-> 0,
     uMaxAttempts      |-> IF fTCP(args) THEN 1 ELSE 0,
     fBehaviorTest     |-> args.strMode = "full",
     fFilteringTest    |-> args.strMode = "full" /\ ~fTCP(args)]

(* main: the configurations each loop is started with                      *)
UdpConfigs == {CreateConfigFromCommandLine(args) : args \in {a \in Accepted : ~fTCP(a)}}
TcpConfigs == {CreateConfigFromCommandLine(args) : args \in {a \in Accepted : fTCP(a)}}

-----------------------------------------------------------------------------
LocalAddr(l) == [ip |-> LocalIP, port |-> l]

(* The address at which the socket on local port l appears to destination  *)
(* d: which part of d the NAT looks at is its class, and different local   *)
(* ports never share an external one                                       *)
Mapped(l, d) ==
    LET ipPart == IF d.ip = ServerIP THEN 0 ELSE 2
    IN  IF nat.mapping = "Direct" THEN LocalAddr(l)
        ELSE [ip |-> NatIP, port |-> 4 * l +
                CASE nat.mapping = "EndpointIndependent"     -> 1
                  [] nat.mapping = "AddressDependent"        -> 1 + ipPart
                  [] nat.mapping = "AddressAndPortDependent" -> d.port + ipPart]

(* The server: one answer per request                                      *)
ServerAddr(s) == [ip   |-> IF s.ip = "Primary" THEN ServerIP ELSE AlternateIP,
                  port |-> IF s.port = "Primary" THEN 1 ELSE 2]

RequestAt(s, p, fConnectionOriented) ==
    [socket |-> s, addrLocal |-> ServerAddr(s), addrRemote |-> p.src,
     fConnectionOriented |-> fConnectionOriented,
     msg |-> [class |-> "Request", type |-> "Binding", responsePort |-> 0,
              fHasPadding |-> FALSE, integrity |-> "None",
              change |-> [fChangeIP |-> p.msg.changeIP, fChangePort |-> p.msg.changePort]],
     auth |-> [responseType |-> "NoProvider", authCredMech |-> "ShortTerm",
               fRealm |-> FALSE, fNonce |-> FALSE]]

ResponseTo(s, p, fConnectionOriented) ==
    LET addrs  == [t \in Server!Socket |-> ServerAddr(t)]
        answer == Server!Answer(RequestAt(s, p, fConnectionOriented), sockets, addrs,
                                Server!NoChallenge)
        r      == answer.response
    IN  [src |-> ServerAddr(answer.from), dst |-> answer.to,
         msg |-> [tid |-> p.msg.tid,
                  mapped |-> IF r.kind = "Success" THEN r.mapped ELSE NoAddr,
                  other  |-> IF r.kind = "Success" THEN r.other ELSE NoAddr]]

(* The answers to a packet, none if no socket of the server is at its      *)
(* destination                                                             *)
Answers(p, fConnectionOriented) ==
    {ResponseTo(s, p, fConnectionOriented) : s \in {t \in sockets : ServerAddr(t) = p.dst}}

-----------------------------------------------------------------------------
(* DumpResults: what the user is told                                      *)
DumpResults ==
    [binding   |-> IF results.fBindingTestSuccess THEN "success" ELSE "fail",
     behavior  |-> IF ~config.fBehaviorTest THEN "none"
                   ELSE IF results.fBehaviorTestSuccess THEN results.behavior ELSE "fail",
     filtering |-> IF ~config.fFilteringTest THEN "none"
                   ELSE IF results.fBehaviorTestSuccess THEN results.filtering ELSE "fail"]

(* A mapping class is never reported unless it is the NAT's, whatever the  *)
(* transport does to the requests and the responses.                       *)
MappingSound ==
    results.fBehaviorTestSuccess => results.behavior = nat.mapping
=============================================================================
