------------------------- MODULE MCStunClientLogic -------------------------
(***************************************************************************)
(* CStunClientLogic alone, driven by an arbitrary owner: any order of      *)
(* calls, any clock value, any message with any transaction id.            *)
(***************************************************************************)
EXTENDS StunClientLogic

MCIPs   == {"server", "other"}
MCPorts == {1}

Cfg(b, f, instant, attempts) ==
    [addrServer |-> [ip |-> "server", port |-> 1], fTimeoutIsInstant |-> instant,
     timeoutSeconds |-> 0, uMaxAttempts |-> attempts,
     fBehaviorTest |-> b, fFilteringTest |-> f]

MCFull     == {Cfg(TRUE, TRUE, FALSE, 0)}
MCConfigs  == MCFull \cup
              {Cfg(TRUE, FALSE, TRUE, 1), Cfg(FALSE, TRUE, FALSE, 1),
               Cfg(FALSE, FALSE, FALSE, 0)}

=============================================================================
