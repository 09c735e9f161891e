-------------------------- MODULE MCUdpClientLoop --------------------------
(***************************************************************************)
(* The UDP client behind every class of NAT, behind firewalls and behind   *)
(* nothing, against a server with four sockets and with a single socket.   *)
(* A second is two ticks, a test waits one second, and the clock wraps     *)
(* around after five ticks: in every position relative to a request.       *)
(* Behind one of the NATs it may also be set at any moment, in full mode   *)
(* when nothing is lost and in basic mode when anything may be.            *)
(***************************************************************************)
EXTENDS UdpClientLoop

MCIPs   == {"server", "alternate", "nat", "local"}
MCPorts == 1 .. 8

NatOf(m, f) == [mapping |-> m, filtering |-> f]

(* Every class of mapping and every class of filtering                     *)
TranslatingNats ==
    {NatOf("EndpointIndependent", "EndpointIndependent"),
     NatOf("EndpointIndependent", "AddressDependent"),
     NatOf("EndpointIndependent", "AddressAndPortDependent"),
     NatOf("AddressDependent", "EndpointIndependent"),
     NatOf("AddressDependent", "AddressAndPortDependent"),
     NatOf("AddressAndPortDependent", "AddressDependent")}

(* No NAT at all, and firewalls that do not translate                      *)
DirectConnections ==
    {NatOf("Direct", f) : f \in {"EndpointIndependent", "AddressDependent",
                                 "AddressAndPortDependent"}}

NineNats == TranslatingNats \cup DirectConnections

FourSockets == Server!Socket
OneSocket   == {[ip |-> "Primary", port |-> "Primary"]}
AllServers  == {FourSockets, OneSocket}

FullMode == {CreateConfigFromCommandLine([strMode |-> "full", strProtocol |-> "udp"])}
AllModes == UdpConfigs

LateStart == {3}

BothClocks == {"steady", "wall"}

OneNat == NatOf("AddressDependent", "AddressAndPortDependent")

MCInit == UdpInit /\ (clock = "wall" => nat = OneNat /\ sockets = FourSockets)

MCNext == UdpNext /\ (clock = "wall" /\ loop = "Start" =>
                          (config'.fBehaviorTest <=> reliable))

MCSpec == MCInit /\ [][MCNext]_udpVars /\ UdpFairness
=============================================================================
