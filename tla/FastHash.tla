------------------------------ MODULE FastHash ------------------------------
(***************************************************************************)
(* FastHashBase: a hash table that never allocates.  Items live in a fixed *)
(* array of nodes; a node is on the free list or on the chain of its       *)
(* column.  A circular list of node numbers gives access by position; it   *)
(* is kept up to date while that is cheap and rebuilt when it is not.      *)
(*                                                                         *)
(* Chains and the free list, linked through pNext in the code, are         *)
(* sequences of node numbers.  The item of a free node is not kept: no     *)
(* operation reads one, as IndexShowsEveryItem says of the list.           *)
(***************************************************************************)
EXTENDS Integers, SequencesExt, FiniteSets

CONSTANTS
    Key,       \* integers: FastHash_Hash of an int is the int
    Val,
    fsize,     \* how many items fit
    tsize      \* how many columns

ASSUME HashAssumption ==
    /\ Key \subseteq Nat
    /\ fsize \in Nat \ {0} /\ tsize \in Nat \ {0}

VARIABLE table

Nodes == 0 .. fsize - 1

-----------------------------------------------------------------------------
(* A table as Init leaves it                                               *)
NewTable ==
    [chains |-> [c \in 0 .. tsize - 1 |-> <<>>],
     free |-> [i \in 1 .. fsize |-> i - 1],
     nodes |-> [n \in Nodes |-> <<>>],
     indexlist |-> [i \in Nodes |-> 0], fIndexValid |-> TRUE, indexStart |-> 0,
     size |-> 0]

(* Reset leaves the old numbers in the list                                *)
ResetTable(t) == [NewTable EXCEPT !.indexlist = t.indexlist]

Column(k) == k % tsize

(* The place of key k in its chain, 0 when it is not there                 *)
Find(t, k) ==
    LET chain == t.chains[Column(k)]
    IN  SelectInSeq(chain, LAMBDA n : t.nodes[n][1] = k)

Exists(t, k) == Find(t, k) # 0

NodeOf(t, k) == t.chains[Column(k)][Find(t, k)]

Lookup(t, k) == t.nodes[NodeOf(t, k)][2]

(* A caller writes through the pointer Lookup returns                      *)
SetValue(t, k, v) == [t EXCEPT !.nodes[NodeOf(t, k)] = <<k, v>>]

(* Called before size grows: the list is circular                          *)
UpdateIndexWithAdd(t, n) ==
    IF t.fIndexValid /\ t.size < fsize
    THEN [t EXCEPT !.indexlist[(t.size + t.indexStart) % fsize] = n]
    ELSE t

(* Insert refuses when no node is free; a new item hides an older one      *)
Full(t) == t.free = <<>>

InsertKey(t, k, v) ==
    LET n      == Head(t.free)
        placed == [t EXCEPT !.free = Tail(@),
                            !.nodes[n] = <<k, v>>,
                            !.chains[Column(k)] = <<n>> \o @]
    IN  IF Full(t) THEN t
        ELSE [UpdateIndexWithAdd(placed, n) EXCEPT !.size = @ + 1]

(* Mutant: a removal in the middle leaves the list as it is                *)
UpdateIndexAtFront(t, n) ==
    IF t.size = 1 THEN [t EXCEPT !.fIndexValid = TRUE, !.indexStart = 0]
    ELSE IF t.fIndexValid /\ n = t.indexlist[t.indexStart]
         THEN [t EXCEPT !.indexStart = (@ + 1) % fsize]
    ELSE t

(* Called before size shrinks: cheap at either end of the list, otherwise  *)
(* the list is no longer valid                                             *)
UpdateIndexWithRemove(t, n) ==
    LET last == (t.indexStart + t.size - 1) % fsize
    IN  CASE t.size = 1 -> [t EXCEPT !.fIndexValid = TRUE, !.indexStart = 0]
          [] t.size > 1 /\ ~t.fIndexValid -> t
          [] t.size > 1 /\ t.fIndexValid /\ n = t.indexlist[t.indexStart] ->
                [t EXCEPT !.indexStart = (@ + 1) % fsize]
          [] t.size > 1 /\ t.fIndexValid /\ n # t.indexlist[t.indexStart] ->
                [t EXCEPT !.fIndexValid = (n = t.indexlist[last])]

(* Mutant: the node stays off the free list                                *)
RemoveLeaks(t, k) ==
    LET n == NodeOf(t, k)
    IN  [UpdateIndexWithRemove([t EXCEPT !.chains[Column(k)] = RemoveAt(@, Find(t, k))], n)
           EXCEPT !.size = @ - 1]

(* Mutant: the oldest item under the key goes                              *)
RemoveOldest(t, k) ==
    LET chain == t.chains[Column(k)]
        place == SelectLastInSeq(chain, LAMBDA n : t.nodes[n][1] = k)
    IN  [UpdateIndexWithRemove([t EXCEPT !.chains[Column(k)] = RemoveAt(@, place)], chain[place])
           EXCEPT !.free = <<chain[place]>> \o @, !.nodes[chain[place]] = <<>>, !.size = @ - 1]

RemoveKey(t, k) ==
    LET n         == NodeOf(t, k)
        unchained == [t EXCEPT !.chains[Column(k)] = RemoveAt(@, Find(t, k))]
    IN  [UpdateIndexWithRemove(unchained, n) EXCEPT !.free = <<n>> \o @, !.nodes[n] = <<>>,
                                                    !.size = @ - 1]

Chained(t) == UNION {ToSet(t.chains[c]) : c \in DOMAIN t.chains}

(* Where there is an item: a column, and a place on its chain              *)
Slots(t) == UNION {{c} \X DOMAIN t.chains[c] : c \in DOMAIN t.chains}

(* The slots that ReIndex comes to before slot s                           *)
Ahead(t, s) == {r \in Slots(t) : r[1] < s[1] \/ (r[1] = s[1] /\ r[2] < s[2])}

(* The nodes in use, column by column, fill the list from its start        *)
ReIndex(t) ==
    LET at(i)   == {s \in Slots(t) : Cardinality(Ahead(t, s)) = i}
        node(s) == t.chains[s[1]][s[2]]
    IN  [t EXCEPT !.indexlist = [i \in Nodes |-> IF at(i) = {} THEN @[i]
                                                ELSE node(CHOOSE s \in at(i) : TRUE)],
                  !.fIndexValid = TRUE, !.indexStart = 0]

(* What LookupByIndex does to the table, and the node it then finds        *)
Indexed(t) == IF t.fIndexValid THEN t ELSE ReIndex(t)

NodeByIndex(t, i) == Indexed(t).indexlist[(Indexed(t).indexStart + i) % fsize]

-----------------------------------------------------------------------------
(* The public operations, by a caller who uses all of them                 *)
HashInit == table = NewTable

HashInsert        == \E k \in Key, v \in Val : table' = InsertKey(table, k, v)
HashRemove        == \E k \in Key : Exists(table, k) /\ table' = RemoveKey(table, k)
HashLookupByIndex == table.size > 0 /\ table' = Indexed(table)
HashReset         == table' = ResetTable(table)

HashNext == HashInsert \/ HashRemove \/ HashLookupByIndex \/ HashReset

-----------------------------------------------------------------------------
(* Every node is either free or on the chain of its key's column, once,    *)
(* and size counts the chained ones.                                       *)
HashTypeOK ==
    /\ table.free \in Seq(Nodes)
    /\ \A c \in 0 .. tsize - 1 :
          \A i \in DOMAIN table.chains[c] :
              LET n == table.chains[c][i]
              IN  /\ table.nodes[n] \in Key \X Val
                  /\ Column(table.nodes[n][1]) = c
    /\ Chained(table) \cup ToSet(table.free) = Nodes
    /\ table.size + Len(table.free) = fsize
    /\ table.size = Cardinality(Chained(table))
    /\ table.indexStart \in Nodes

(* Access by position shows every item in the table exactly once, whatever *)
(* insertions, removals and look-ups came before: when the list counts as  *)
(* valid it lists exactly the chained nodes (UpdateIndexWithAdd,           *)
(* UpdateIndexWithRemove, ReIndex, LookupByIndex).                         *)
IndexShowsEveryItem ==
    {NodeByIndex(table, i) : i \in 0 .. table.size - 1} = Chained(table)

(* The chains, read as a map from keys to the values under them: the j-th  *)
(* place with key k on its chain holds the j-th value under k.             *)
Places(t, k) ==
    {i \in DOMAIN t.chains[Column(k)] : t.nodes[t.chains[Column(k)][i]][1] = k}

Rank(P, i) == Cardinality({h \in P : h <= i})

ValueAt(t, k, i) == t.nodes[t.chains[Column(k)][i]][2]

Content ==
    [k \in Key |->
        LET P == Places(table, k)
        IN  [j \in 1 .. Cardinality(P) |->
                ValueAt(table, k, CHOOSE i \in P : Rank(P, i) = j)]]

Map == INSTANCE Multimap WITH Capacity <- fsize, content <- Content

(* The table is a bounded multimap: it refuses only when it is full, shows *)
(* the value inserted last and gives the others back in turn.              *)
ImplementsMultimap == Map!Spec
=============================================================================
