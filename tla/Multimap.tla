------------------------------ MODULE Multimap ------------------------------
(***************************************************************************)
(* What FastHash promises its callers: a bounded map that keeps every      *)
(* value inserted under a key (fasthash.h:26) and shows the last one.      *)
(***************************************************************************)
EXTENDS Naturals, Sequences, FiniteSets

CONSTANTS Key, Val, Capacity

VARIABLE content       \* the values under each key, the last inserted first

-----------------------------------------------------------------------------
Size == Cardinality(UNION {{k} \X DOMAIN content[k] : k \in Key})

Init == content = [k \in Key |-> <<>>]

Insert(k, v) ==
    /\ Size < Capacity
    /\ content' = [content EXCEPT ![k] = <<v>> \o @]

Remove(k) ==
    /\ content[k] # <<>>
    /\ content' = [content EXCEPT ![k] = Tail(@)]

(* A caller may write through the pointer Lookup gives it                  *)
SetLast(k, v) ==
    /\ content[k] # <<>>
    /\ content' = [content EXCEPT ![k] = <<v>> \o Tail(@)]

(* A caller that moves one value and removes another, as one step          *)
MoveAndRemove(k, v, gone) ==
    /\ k # gone /\ content[k] # <<>> /\ content[gone] # <<>>
    /\ content' = [content EXCEPT ![k] = <<v>> \o Tail(@), ![gone] = Tail(@)]

Reset == content' = [k \in Key |-> <<>>]

Next ==
    \/ \E k \in Key, v \in Val : Insert(k, v) \/ SetLast(k, v)
    \/ \E k \in Key : Remove(k)
    \/ \E k, gone \in Key, v \in Val : MoveAndRemove(k, v, gone)
    \/ Reset

Spec == Init /\ [][Next]_content
=============================================================================
