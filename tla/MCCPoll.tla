------------------------------ MODULE MCCPoll ------------------------------
(***************************************************************************)
(* CPoll has three sockets in a table for three; CEpoll has three sockets  *)
(* and room for the events of two; and one more caller uses every public   *)
(* operation of a table of its own, with duplicate keys.  Two columns make *)
(* chains collide.                                                         *)
(***************************************************************************)
EXTENDS Polling

MCKeys == 1 .. 3
MCVals == 0 .. 2

(* The other caller stores a different value in every node                 *)
ValuesDiffer == \A n \in Chained(table) : table.nodes[n][2] = n

(* One socket in one place is enough to change what is wanted: nothing     *)
(* reads the flags                                                         *)
OneChanges == \A i \in DOMAIN fds : fds[i].events # Flags => fds[i].fd = 1 /\ i = 1

MCNext == PollingNext /\ OneChanges' /\ (user = "other" => ValuesDiffer')

MCSpec == PollingInit /\ [][MCNext]_pollingVars
=============================================================================
