------------------------------- MODULE CPoll -------------------------------
(***************************************************************************)
(* CPoll: the sockets a server waits for, in a vector handed to poll(),    *)
(* with a FastHash from a socket to its place in the vector.  One poll()   *)
(* may report several sockets; WaitForNextEvent gives them out one by one. *)
(***************************************************************************)
EXTENDS FastHash

CONSTANTS
    Flags          \* the events a caller can want

ASSUME PollAssumption == 0 .. fsize - 1 \subseteq Val      \* places in the vector

VARIABLES
    fInitialized,
    fds,           \* the vector: socket, wanted flags, whether revents is not 0
    rotation,      \* where the next scan starts
    unreadcount,   \* sockets the last poll() reported, less those given out
    orphans        \* history: the reports among them whose socket was removed

pollVars == <<fds, rotation, unreadcount, orphans, fInitialized>>

-----------------------------------------------------------------------------
PollInit ==
    /\ fds = <<>>
    /\ rotation = 0
    /\ unreadcount = 0 /\ orphans = 0
    /\ fInitialized = FALSE

(* CreateInstance initializes the object it has made; the server may close *)
(* it and initialize it again                                              *)
Initialize ==
    /\ ~fInitialized
    /\ rotation' = 0 /\ unreadcount' = 0 /\ orphans' = 0
    /\ table' = NewTable
    /\ fInitialized' = TRUE
    /\ UNCHANGED fds

Close ==
    /\ fInitialized
    /\ fds' = <<>>
    /\ fInitialized' = FALSE
    /\ UNCHANGED <<rotation, unreadcount, orphans, table>>

(* Assumed: nobody adds more sockets than the object was initialized for.  *)
(* Add does not ask whether Insert found room for another one              *)
Add(fd, flags) ==
    /\ fInitialized
    /\ ~Exists(table, fd)
    /\ ~Full(table)
    /\ fds' = Append(fds, [fd |-> fd, events |-> flags, ready |-> FALSE])
    /\ table' = InsertKey(table, fd, Len(fds))
    /\ UNCHANGED <<rotation, unreadcount, orphans, fInitialized>>

(* The last entry takes the place of the one that goes                     *)
Moved == fds[Len(fds)]

WithoutEntry(pos) ==
    IF pos = Len(fds) - 1 THEN Front(fds)
    ELSE Front([fds EXCEPT ![pos + 1] = Moved])

(* Mutant: the entry that moved is not looked up again (the compiler bug   *)
(* of polling.cpp:406-409)                                                 *)
TableWithOldPosition(fd, pos) == RemoveKey(table, fd)

TableWithMoved(fd, pos) ==
    RemoveKey(IF pos = Len(fds) - 1 THEN table ELSE SetValue(table, Moved.fd, pos), fd)

(* Mutant: a removal uncounts a report whether or not there was one        *)
UnreadLessOne == IF unreadcount = 0 THEN 0 ELSE unreadcount - 1

(* A report of the socket that goes stays counted                          *)
UnreadAfterRemove == unreadcount

RemoveSocket(fd) ==
    LET pos == Lookup(table, fd)
    IN  /\ fInitialized /\ fds # <<>>
        /\ Exists(table, fd)
        /\ pos < Len(fds) /\ fds[pos + 1].fd = fd
        /\ fds' = WithoutEntry(pos)
        /\ table' = TableWithMoved(fd, pos)
        /\ unreadcount' = UnreadAfterRemove
        /\ orphans' = IF fds[pos + 1].ready THEN orphans + 1 ELSE orphans
        /\ UNCHANGED <<rotation, fInitialized>>

(* What was reported for the old flags is still given out                  *)
ChangeEventSet(fd, flags) ==
    LET pos == Lookup(table, fd)
    IN  /\ fInitialized /\ fds # <<>>
        /\ Exists(table, fd)
        /\ pos < Len(fds) /\ fds[pos + 1].fd = fd
        /\ fds' = [fds EXCEPT ![pos + 1].events = flags]
        /\ UNCHANGED <<rotation, unreadcount, orphans, fInitialized, table>>

-----------------------------------------------------------------------------
Pending(list) == {i \in DOMAIN list : list[i].ready}

Start(list) == IF rotation >= Len(list) THEN 0 ELSE rotation

(* The first entry with a report, scanning from the rotation               *)
NextSlot(list) ==
    LET slot(i) == ((i + Start(list)) % Len(list)) + 1
    IN  slot(CHOOSE i \in 0 .. Len(list) - 1 :
                /\ slot(i) \in Pending(list)
                /\ \A j \in 0 .. i - 1 : slot(j) \notin Pending(list))

(* FindNextEvent on a vector and a count: give out one report              *)
GiveOut(list, unread) ==
    LET s == NextSlot(list)
    IN  /\ fds' = [i \in DOMAIN list |-> IF i = s THEN [list[i] EXCEPT !.ready = FALSE] ELSE list[i]]
        /\ rotation' = Start(list) + 1
        /\ unreadcount' = unread - 1

Found == unreadcount > 0 /\ Pending(fds) # {}

WaitPending ==
    /\ fInitialized /\ fds # <<>>
    /\ Found
    /\ GiveOut(fds, unreadcount)
    /\ UNCHANGED <<fInitialized, orphans, table>>

(* poll() may report any socket: errors and hang-ups need not be wanted    *)
Polled(ready) == [i \in DOMAIN fds |-> [fds[i] EXCEPT !.ready = i \in ready]]

(* Without a report, a time-out or an error: no event, nothing counted.  A *)
(* scan that found nothing has still brought the rotation back into range. *)
WaitPoll ==
    /\ fInitialized /\ fds # <<>>
    /\ ~Found
    /\ \/ \E ready \in (SUBSET DOMAIN fds) \ {{}} : GiveOut(Polled(ready), Cardinality(ready))
       \/ /\ fds' = Polled({})
          /\ unreadcount' = 0
          /\ rotation' = IF unreadcount > 0 THEN Start(fds) ELSE rotation
    /\ orphans' = 0
    /\ UNCHANGED <<fInitialized, table>>

WaitForNextEvent == WaitPending \/ WaitPoll

PollNext ==
    \/ Initialize
    \/ Close
    \/ \E fd \in Key, flags \in SUBSET Flags : Add(fd, flags) \/ ChangeEventSet(fd, flags)
    \/ \E fd \in Key : RemoveSocket(fd)
    \/ WaitForNextEvent

-----------------------------------------------------------------------------
(* The vector never outgrows its table, no count goes below zero, and the  *)
(* table is in order: no node is lost or listed twice.                     *)
PollTypeOK ==
    /\ HashTypeOK
    /\ fds \in Seq([fd : Key, events : SUBSET Flags, ready : BOOLEAN])
    /\ Len(fds) <= fsize
    /\ rotation \in Nat /\ unreadcount \in 0 .. fsize
    /\ fInitialized \in BOOLEAN

(* The table and the vector agree: every socket is in the vector once, at  *)
(* the place the table gives, whatever was removed before.  Remove and     *)
(* ChangeEventSet assert it (polling.cpp:386-404, 429-436).                *)
PositionsMatch ==
    fInitialized =>
        /\ table.size = Len(fds)
        /\ \A i \in DOMAIN fds : Exists(table, fds[i].fd) /\ Lookup(table, fds[i].fd) = i - 1

(* The count is the number of reports that can still be given out, and of  *)
(* those whose socket was removed, which nothing takes back.  So no report *)
(* is forgotten in favour of another poll() and none is given out twice.   *)
(* But the count is then not zero where WaitForNextEvent asserts that it   *)
(* is: what the code does with the rest, reset it (polling.cpp:465), is    *)
(* right, and its assertion is not (NothingUnreadAtPoll).                  *)
CountIsExact == fInitialized => unreadcount = Cardinality(Pending(fds)) + orphans

(* ASSERT(_unreadcount == 0), polling.cpp:463: when there is nothing more  *)
(* to give out and WaitForNextEvent turns to poll(), no report is counted  *)
(* as unread.  Violated once a socket with a report is removed.            *)
NothingUnreadAtPoll == fInitialized /\ fds # <<>> /\ ~Found => unreadcount = 0
=============================================================================
