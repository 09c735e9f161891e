-------------------------- MODULE MCTcpClientLoop --------------------------
(***************************************************************************)
(* The TCP client in every mode, with a local port of the user's and with  *)
(* ephemeral ones, behind every kind of mapping.  Three tests send at most *)
(* three requests, the fourth socket is opened for nothing.                *)
(***************************************************************************)
EXTENDS TcpClientLoop

MCIPs   == {"server", "alternate", "nat", "local"}
MCPorts == 1 .. 20

MCNats == [mapping : {"EndpointIndependent", "AddressDependent",
                      "AddressAndPortDependent", "Direct"},
           filtering : {"EndpointIndependent"}]

MCServers == {Server!Socket, {[ip |-> "Primary", port |-> "Primary"]}}

AllModes == TcpConfigs

MCLocalPorts == 1 .. 4
MCOptions    == {0, 2}
=============================================================================
