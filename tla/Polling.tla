------------------------------ MODULE Polling ------------------------------
(***************************************************************************)
(* The two polling objects CreatePollingInstance chooses from, and the     *)
(* hash table by itself.  What chooses is the build and the caller: a      *)
(* server has one of the two, and another caller of FastHash uses every    *)
(* public operation of a table of its own.                                 *)
(***************************************************************************)
EXTENDS CPoll, CEpoll

VARIABLE user

pollingVars == <<user, table, pollVars, epollVars>>

PollingInit ==
    user \in {"CPoll", "CEpoll", "other"} /\ HashInit /\ PollInit /\ EpollInit

PollingNext ==
    /\ \/ user = "CPoll" /\ PollNext /\ UNCHANGED epollVars
       \/ user = "CEpoll" /\ EpollNext /\ UNCHANGED <<table, pollVars>>
       \/ user = "other" /\ HashNext /\ UNCHANGED <<pollVars, epollVars>>
    /\ UNCHANGED user

PollingSpec == PollingInit /\ [][PollingNext]_pollingVars

(* Neither polling object loses an event: what poll() or epoll_wait() has  *)
(* reported of a watched socket stays until WaitForNextEvent gives it out, *)
(* whatever is added, changed or removed meanwhile.  CPoll counts those it *)
(* still has, and beyond them exactly the reports of removed sockets.      *)
NoEventLost == CountIsExact /\ ActivityAwaitsReport
=============================================================================
