------------------------------ MODULE CEpoll ------------------------------
(***************************************************************************)
(* CEpoll: the sockets a server waits for, kept by the kernel.  One        *)
(* epoll_wait() fills an array with the events of several sockets;         *)
(* WaitForNextEvent gives them out one by one.                             *)
(*                                                                         *)
(* The kernel is external: it has a list of watched sockets and a ready    *)
(* list.  A report takes an edge-triggered socket off the ready list; a    *)
(* level-triggered one stays there until its owner has read everything.    *)
(***************************************************************************)
EXTENDS Naturals, Sequences, FiniteSets

CONSTANTS
    Sockets,       \* the descriptors a caller may add, -1 not among them
    maxSockets     \* what the object is initialized for

ASSUME EpollAssumption == maxSockets \in Nat \ {0}

VARIABLES
    epollfd,             \* is there an epoll descriptor?
    watched,             \* kernel: the watched sockets, and which on edges
    ready,               \* kernel: the ready list
    events,              \* the array, as far as it is filled (_pendingCount)
    currentEventIndex,   \* how much of it has been given out
    unseen               \* history: active since their events were last given out

epollVars == <<epollfd, watched, ready, events, currentEventIndex, unseen>>

-----------------------------------------------------------------------------
Watched == DOMAIN watched

Nothing ==
    /\ watched' = [fd \in {} |-> FALSE]
    /\ ready' = {} /\ unseen' = {}
    /\ events' = <<>> /\ currentEventIndex' = 0

EpollInit ==
    /\ epollfd = FALSE
    /\ watched = [fd \in {} |-> FALSE]
    /\ ready = {} /\ unseen = {}
    /\ events = <<>> /\ currentEventIndex = 0

(* Success is what it returns, whether or not epoll_create failed          *)
EpollInitialize ==
    /\ ~epollfd
    /\ epollfd' \in BOOLEAN
    /\ Nothing

EpollClose ==
    /\ epollfd
    /\ epollfd' = FALSE
    /\ Nothing

(* EPOLL_CTL_ADD refuses a socket that is watched already                  *)
EpollAdd(fd, fEdge) ==
    /\ epollfd
    /\ fd \notin Watched
    /\ watched' = [s \in Watched \cup {fd} |-> IF s = fd THEN fEdge ELSE watched[s]]
    /\ UNCHANGED <<epollfd, ready, events, currentEventIndex, unseen>>

(* The array is not looked at: an event in it outlives its socket          *)
EpollRemove(fd) ==
    /\ epollfd
    /\ fd \in Watched
    /\ watched' = [s \in Watched \ {fd} |-> watched[s]]
    /\ ready' = ready \ {fd}
    /\ unseen' = unseen \ {fd}
    /\ UNCHANGED <<epollfd, events, currentEventIndex>>

(* EPOLL_CTL_MOD also looks again whether the socket is ready              *)
EpollChangeEventSet(fd, fEdge) ==
    /\ epollfd
    /\ fd \in Watched
    /\ watched' = [watched EXCEPT ![fd] = fEdge]
    /\ ready' \in {ready, ready \cup {fd}}
    /\ UNCHANGED <<epollfd, events, currentEventIndex, unseen>>

-----------------------------------------------------------------------------
(* Mutant: the last event of a batch is taken to be given out already      *)
BatchGivenOutEarly == currentEventIndex + 1 >= Len(events)

BatchGivenOut == currentEventIndex >= Len(events)

(* What epoll_wait() may put into the array: ready sockets, each once, in  *)
(* any order, and no more than the array holds                             *)
Batches ==
    UNION {{b \in [1 .. n -> ready] : \A i, j \in 1 .. n : b[i] = b[j] => i = j} :
              n \in 1 .. maxSockets}

GiveOutEvent(list, index) ==
    /\ events' = list
    /\ currentEventIndex' = index + 1
    /\ unseen' = unseen \ {list[index + 1]}

EpollWaitPending ==
    /\ epollfd
    /\ ~BatchGivenOut
    /\ GiveOutEvent(events, currentEventIndex)
    /\ UNCHANGED <<epollfd, watched, ready>>

(* A time-out or an error leaves an empty array                            *)
EpollWait ==
    /\ epollfd
    /\ BatchGivenOut
    /\ \/ \E batch \in Batches :
             /\ GiveOutEvent(batch, 0)
             /\ ready' = {fd \in ready : \A i \in DOMAIN batch : batch[i] = fd => ~watched[fd]}
       \/ /\ events' = <<>> /\ currentEventIndex' = 0
          /\ UNCHANGED <<ready, unseen>>
    /\ UNCHANGED <<epollfd, watched>>

EpollWaitForNextEvent == EpollWaitPending \/ EpollWait

(* Something happens at a watched socket                                   *)
Activity(fd) ==
    /\ fd \in Watched
    /\ ready' = ready \cup {fd}
    /\ unseen' = unseen \cup {fd}
    /\ UNCHANGED <<epollfd, watched, events, currentEventIndex>>

(* Its owner, told of it, has read everything there was                    *)
Drained(fd) ==
    /\ fd \in ready \ unseen
    /\ ready' = ready \ {fd}
    /\ UNCHANGED <<epollfd, watched, events, currentEventIndex, unseen>>

EpollNext ==
    \/ EpollInitialize
    \/ EpollClose
    \/ \E fd \in Sockets, fEdge \in BOOLEAN : EpollAdd(fd, fEdge) \/ EpollChangeEventSet(fd, fEdge)
    \/ \E fd \in Sockets : EpollRemove(fd) \/ Activity(fd) \/ Drained(fd)
    \/ EpollWaitForNextEvent

-----------------------------------------------------------------------------
(* No activity is lost: what a watched socket has to say is on the ready   *)
(* list or in the part of the array that has not been given out, even for  *)
(* an edge-triggered socket, which the kernel reports once.                *)
ActivityAwaitsReport ==
    \A fd \in unseen :
        \/ fd \in ready
        \/ \E i \in DOMAIN events : i > currentEventIndex /\ events[i] = fd
=============================================================================
