--------------------------- MODULE Polling_proofs ---------------------------
(***************************************************************************)
(* Proofs about Polling: FastHash keeps its table in order and implements  *)
(* Multimap, CPoll's vector and its table agree, neither polling object    *)
(* loses an event.                                                         *)
(*                                                                         *)
(* TableOK is the invariant of the table by itself: every node is on one   *)
(* chain or on the free list, once, and a list that counts as valid shows  *)
(* every chained node once.  The first part shows that each operation      *)
(* keeps it.  PollInv adds that the table and the vector are maps inverse  *)
(* to one another, and that CPoll's count is exact; the second part shows  *)
(* that each action keeps that.  The third part reads the chains as the    *)
(* map that Multimap describes.                                            *)
(***************************************************************************)
EXTENDS Polling, FiniteSetTheorems, TLAPS

-----------------------------------------------------------------------------
(* The table                                                               *)
Columns == 0 .. tsize - 1

(* Numbers                                                                 *)
LEMMA LeastOf ==
    ASSUME NEW S, S \subseteq Nat, S # {}
    PROVE  \E x \in S : \A y \in S : x <= y
<1>1. PICK R : R = OpToRel(<, Nat)
  OBVIOUS
<1>2. R = {p \in Nat \X Nat : p[1] < p[2]}
  BY <1>1, Zenon DEF OpToRel
<1>3. IsWellFoundedOn(R, Nat)
  BY <1>1, NatLessThanWellFounded, Zenon
<1>4. PICK x \in S : \A y \in S : ~(<<y, x>> \in R)
  BY <1>3, WFMin, Zenon
<1>5. \A y \in S : y < x => <<y, x>> \in R
  BY <1>2
<1>6. \A y \in S : ~(y < x)
  BY <1>4, <1>5, Zenon
<1>7. \A y \in S : x <= y
  BY <1>6
<1>8. QED
  BY <1>7, Zenon

(* A circular list of m places: m is where it wraps around                 *)
LEMMA Wraps ==
    ASSUME NEW m \in Nat \ {0}, NEW x \in Nat, x < 2 * m
    PROVE  x % m = IF x < m THEN x ELSE x - m
<1>1. x - m \in Int /\ (x < m \/ x - m \in 0 .. m - 1)
  OBVIOUS
<1>2. CASE x < m
  BY <1>2
<1>3. CASE x >= m
  BY <1>1, <1>3
<1>4. QED
  BY <1>2, <1>3

(* The places of the circular list                                         *)
LEMMA Circle ==
    ASSUME NEW s \in Nodes
    PROVE  /\ \A i \in Nat : (s + i) % fsize \in Nodes
           /\ \A i \in Nat : (i + s) % fsize = (s + i) % fsize
           /\ (s + 0) % fsize = s
           /\ \A i \in 0 .. fsize - 2 : (((s + 1) % fsize) + i) % fsize = (s + (i + 1)) % fsize
           /\ \A i, j \in 0 .. fsize - 1 : (s + i) % fsize = (s + j) % fsize => i = j
<1>1. PICK m \in Nat \ {0} : m = fsize
  BY HashAssumption
<1>2. s \in 0 .. m - 1
  BY <1>1 DEF Nodes
<1>3. ASSUME NEW i \in Nat
      PROVE  (s + i) % m \in 0 .. m - 1 /\ (i + s) % m = (s + i) % m
  <2>1. PICK e \in Nat : e = s + i /\ e = i + s
    BY <1>2
  <2>2. e % m \in 0 .. m - 1
    OBVIOUS
  <2>3. QED
    BY <2>1, <2>2
<1>4. \A i \in 0 .. m - 1 : (s + i) % m = IF s + i < m THEN s + i ELSE s + i - m
  <2> TAKE i \in 0 .. m - 1
  <2>1. PICK e \in Nat : e = s + i
    BY <1>2
  <2>2. e < 2 * m
    BY <1>2, <2>1
  <2>3. e % m = IF e < m THEN e ELSE e - m
    BY <2>2, Wraps
  <2>4. QED
    BY <1>2, <2>1, <2>3
<1>5. (s + 0) % m = s
  BY <1>2, <1>4
<1>6. ASSUME NEW i \in 0 .. m - 2
      PROVE  (((s + 1) % m) + i) % m = (s + (i + 1)) % m
  <2>1. /\ i \in 0 .. m - 1 /\ i + 1 \in 0 .. m - 1 /\ 1 \in 0 .. m - 1
    BY <1>6
  <2>2. PICK e : e = (s + 1) % m
    OBVIOUS
  <2>3. e = IF s + 1 < m THEN s + 1 ELSE s + 1 - m
    BY <1>4, <2>1, <2>2
  <2>4. e \in Nat /\ e + i \in Nat /\ e + i < 2 * m
    BY <1>2, <2>1, <2>3
  <2>5. PICK f \in Nat : f = e + i
    BY <2>4
  <2>6. f % m = IF f < m THEN f ELSE f - m
    BY <2>4, <2>5, Wraps
  <2>7. (s + (i + 1)) % m = IF s + (i + 1) < m THEN s + (i + 1) ELSE s + (i + 1) - m
    BY <1>4, <2>1
  <2>8. f % m = (s + (i + 1)) % m
    BY <1>2, <2>1, <2>3, <2>5, <2>6, <2>7
  <2>9. QED
    BY <2>2, <2>5, <2>8
<1>7. ASSUME NEW i \in 0 .. m - 1, NEW j \in 0 .. m - 1, (s + i) % m = (s + j) % m
      PROVE  i = j
  <2>1. /\ (s + i) % m = IF s + i < m THEN s + i ELSE s + i - m
        /\ (s + j) % m = IF s + j < m THEN s + j ELSE s + j - m
    BY <1>4
  <2>2. PICK x : x = (s + i) % m
    OBVIOUS
  <2>3. /\ x = IF s + i < m THEN s + i ELSE s + i - m
        /\ x = IF s + j < m THEN s + j ELSE s + j - m
    BY <1>7, <2>1, <2>2
  <2>4. QED
    BY <1>2, <2>3
<1>8. QED
  BY <1>1, <1>3, <1>5, <1>6, <1>7 DEF Nodes

(* In a finite set whose elements are ordered, where B gives those before  *)
(* each, there is exactly one element of every rank.                       *)
LEMMA Ranks ==
    ASSUME NEW S, IsFiniteSet(S), NEW B \in [S -> SUBSET S],
           \A x \in S : x \notin B[x],
           \A x, y \in S : x # y => x \in B[y] \/ y \in B[x],
           \A x, y \in S : x \in B[y] => B[x] \subseteq B[y]
    PROVE  /\ \A x \in S : Cardinality(B[x]) \in 0 .. Cardinality(S) - 1
           /\ \A x, y \in S : Cardinality(B[x]) = Cardinality(B[y]) => x = y
           /\ \A i \in 0 .. Cardinality(S) - 1 : \E x \in S : Cardinality(B[x]) = i
<1>1. \A x \in S : /\ IsFiniteSet(B[x]) /\ Cardinality(B[x]) \in Nat
                   /\ Cardinality(S) \in Nat
                   /\ Cardinality(B[x]) < Cardinality(S)
  <2> TAKE x \in S
  <2>1. B[x] \in SUBSET S /\ B[x] # S
    OBVIOUS
  <2>2. /\ IsFiniteSet(B[x]) /\ Cardinality(B[x]) <= Cardinality(S)
        /\ Cardinality(S) # Cardinality(B[x])
    BY <2>1, FS_Subset
  <2>3. Cardinality(B[x]) \in Nat /\ Cardinality(S) \in Nat
    BY <2>2, FS_CardinalityType
  <2>4. QED
    BY <2>2, <2>3
<1>2. \A x, y \in S : x \in B[y] => Cardinality(B[x]) < Cardinality(B[y])
  <2> TAKE x, y \in S
  <2> HAVE x \in B[y]
  <2>1. B[x] \in SUBSET B[y] /\ B[x] # B[y]
    OBVIOUS
  <2>2. Cardinality(B[x]) <= Cardinality(B[y]) /\ Cardinality(B[x]) # Cardinality(B[y])
    BY <1>1, <2>1, FS_Subset
  <2>3. QED
    BY <1>1, <2>2
<1>3. \A x, y \in S : Cardinality(B[x]) = Cardinality(B[y]) => x = y
  <2> TAKE x, y \in S
  <2>1. /\ x \in B[y] => Cardinality(B[x]) < Cardinality(B[y])
        /\ y \in B[x] => Cardinality(B[y]) < Cardinality(B[x])
        /\ Cardinality(B[x]) \in Nat /\ Cardinality(B[y]) \in Nat
    BY <1>1, <1>2
  <2>2. QED
    BY <2>1
<1>4. Cardinality(S) \in Nat
  BY FS_CardinalityType
<1> DEFINE N == Cardinality(S)
           T == 0 .. N - 1
           f == [x \in S |-> Cardinality(B[x])]
<1>5. f \in Injection(S, T)
  <2>1. f \in [S -> T]
    BY <1>1, <1>4
  <2>2. \A x, y \in S : f[x] = f[y] => x = y
    BY <1>3
  <2>3. QED
    BY <2>1, <2>2 DEF Injection, IsInjective
<1>6. IsFiniteSet(T) /\ Cardinality(T) = N
  BY <1>4, FS_Interval
<1>7. f \in Surjection(S, T)
  <2> HIDE DEF f, T, N
  <2>1. Cardinality(S) = Cardinality(T)
    BY <1>6 DEF N
  <2>2. QED
    BY <1>5, <1>6, <2>1, FS_Injection
<1>8. \A i \in T : \E x \in S : f[x] = i
  BY <1>7 DEF Surjection
<1>9. QED
  BY <1>1, <1>3, <1>4, <1>8

-----------------------------------------------------------------------------
(* Sequences                                                               *)
LEMMA Prepended ==
    ASSUME NEW S, NEW s \in Seq(S), NEW x \in S
    PROVE  /\ <<x>> \o s \in Seq(S) /\ Len(<<x>> \o s) = Len(s) + 1
           /\ (<<x>> \o s)[1] = x
           /\ \A i \in 1 .. Len(s) : (<<x>> \o s)[i + 1] = s[i]
OBVIOUS

LEMMA Removed ==
    ASSUME NEW S, NEW s \in Seq(S), NEW p \in 1 .. Len(s)
    PROVE  /\ RemoveAt(s, p) \in Seq(S) /\ Len(RemoveAt(s, p)) = Len(s) - 1
           /\ \A i \in 1 .. Len(s) - 1 :
                 RemoveAt(s, p)[i] = IF i < p THEN s[i] ELSE s[i + 1]
<1>1. /\ SubSeq(s, 1, p - 1) \in Seq(S) /\ Len(SubSeq(s, 1, p - 1)) = p - 1
      /\ \A i \in 1 .. p - 1 : SubSeq(s, 1, p - 1)[i] = s[i]
  OBVIOUS
<1>2. /\ SubSeq(s, p + 1, Len(s)) \in Seq(S) /\ Len(SubSeq(s, p + 1, Len(s))) = Len(s) - p
      /\ \A i \in 1 .. Len(s) - p : SubSeq(s, p + 1, Len(s))[i] = s[p + i]
  OBVIOUS
<1>3. PICK a \in Seq(S) : a = SubSeq(s, 1, p - 1)
  BY <1>1
<1>4. PICK b \in Seq(S) : b = SubSeq(s, p + 1, Len(s))
  BY <1>2
<1>5. RemoveAt(s, p) = a \o b
  BY <1>3, <1>4 DEF RemoveAt
<1>6. /\ a \o b \in Seq(S) /\ Len(a \o b) = Len(a) + Len(b)
      /\ \A i \in 1 .. Len(a) + Len(b) : (a \o b)[i] = IF i <= Len(a) THEN a[i] ELSE b[i - Len(a)]
  OBVIOUS
<1>7. \A i \in 1 .. Len(s) - 1 : (a \o b)[i] = IF i < p THEN s[i] ELSE s[i + 1]
  <2> TAKE i \in 1 .. Len(s) - 1
  <2>1. /\ Len(a) = p - 1 /\ Len(b) = Len(s) - p /\ Len(s) \in Nat
        /\ i \in Int /\ p \in Int
    BY <1>1, <1>2, <1>3, <1>4
  <2>2. CASE i < p
    <3>1. i \in 1 .. p - 1 /\ i \in 1 .. Len(a) + Len(b) /\ i <= Len(a)
      BY <2>1, <2>2
    <3>2. (a \o b)[i] = a[i] /\ a[i] = s[i]
      BY <1>1, <1>3, <1>6, <3>1
    <3>3. QED
      BY <2>2, <3>2
  <2>3. CASE ~(i < p)
    <3>1. i - (p - 1) \in 1 .. Len(s) - p /\ p + (i - (p - 1)) = i + 1
      BY <2>1, <2>3
    <3>2. i \in 1 .. Len(a) + Len(b) /\ ~(i <= Len(a)) /\ i - Len(a) = i - (p - 1)
      BY <2>1, <2>3
    <3>3. (a \o b)[i] = b[i - (p - 1)]
      BY <1>6, <3>2
    <3>4. b[i - (p - 1)] = s[i + 1]
      BY <1>2, <1>4, <3>1
    <3>5. QED
      BY <2>3, <3>3, <3>4
  <2>4. QED
    BY <2>2, <2>3
<1>8. Len(a) + Len(b) = Len(s) - 1
  <2>1. Len(a) = p - 1 /\ Len(b) = Len(s) - p /\ Len(s) \in Nat /\ p \in Int
    BY <1>1, <1>2, <1>3, <1>4
  <2>2. QED
    BY <2>1
<1>9. QED
  BY <1>5, <1>6, <1>7, <1>8

-----------------------------------------------------------------------------
Item == Key \X Val

Table ==
    [chains : [Columns -> Seq(Nodes)], free : Seq(Nodes), nodes : [Nodes -> Item \cup {<<>>}],
     indexlist : [Nodes -> Nodes], fIndexValid : BOOLEAN, indexStart : Nodes, size : Nat]

(* Every chained node has an item of the chain's column, and is on it once *)
ChainsOK(t) ==
    \A c \in Columns : \A i \in 1 .. Len(t.chains[c]) :
        /\ t.nodes[t.chains[c][i]] \in Item
        /\ Column(t.nodes[t.chains[c][i]][1]) = c
        /\ \A j \in 1 .. Len(t.chains[c]) : t.chains[c][i] = t.chains[c][j] => i = j

(* The others are free, each once                                          *)
FreeOK(t) ==
    /\ \A i, j \in 1 .. Len(t.free) : t.free[i] = t.free[j] => i = j
    /\ \A n \in Nodes : n \in Chained(t) <=> n \notin ToSet(t.free)

SizeOK(t) == t.size = Cardinality(Chained(t)) /\ t.size + Len(t.free) = fsize

Entry(t, i) == t.indexlist[(t.indexStart + i) % fsize]

(* The list shows every chained node, each once                            *)
Listed(t) ==
    /\ \A i \in 0 .. t.size - 1 : Entry(t, i) \in Chained(t)
    /\ \A i, j \in 0 .. t.size - 1 : Entry(t, i) = Entry(t, j) => i = j
    /\ \A n \in Chained(t) : \E i \in 0 .. t.size - 1 : Entry(t, i) = n

TableOK(t) ==
    t \in Table /\ ChainsOK(t) /\ FreeOK(t) /\ SizeOK(t) /\ (t.fIndexValid => Listed(t))

-----------------------------------------------------------------------------
LEMMA ColumnType == \A k \in Key : Column(k) \in Columns
BY HashAssumption DEF Column, Columns

LEMMA ChainedNodes ==
    ASSUME NEW t \in Table
    PROVE  /\ Chained(t) \subseteq Nodes
           /\ \A n : n \in Chained(t) <=>
                 \E c \in Columns : \E i \in 1 .. Len(t.chains[c]) : n = t.chains[c][i]
           /\ IsFiniteSet(Chained(t))
<1>1. /\ DOMAIN t.chains = Columns
      /\ \A c \in Columns : t.chains[c] \in Seq(Nodes) /\ DOMAIN t.chains[c] = 1 .. Len(t.chains[c])
  BY DEF Table
<1>2. \A n : n \in Chained(t) <=>
                 \E c \in Columns : \E i \in 1 .. Len(t.chains[c]) : n = t.chains[c][i]
  <2>1. Chained(t) = UNION {ToSet(t.chains[c]) : c \in Columns}
    BY <1>1 DEF Chained
  <2>2. \A c \in Columns : ToSet(t.chains[c]) = {t.chains[c][i] : i \in 1 .. Len(t.chains[c])}
    BY <1>1 DEF ToSet
  <2>3. \A n : n \in Chained(t) <=> \E c \in Columns : n \in ToSet(t.chains[c])
    BY <2>1, Zenon
  <2>4. \A n : \A c \in Columns :
           n \in ToSet(t.chains[c]) <=> \E i \in 1 .. Len(t.chains[c]) : n = t.chains[c][i]
    BY <2>2
  <2>5. QED
    BY <2>3, <2>4, Zenon
<1>3. Chained(t) \subseteq Nodes
  BY <1>1, <1>2
<1>4. IsFiniteSet(Nodes)
  BY FS_Interval, HashAssumption DEF Nodes
<1>5. QED
  BY <1>2, <1>3, <1>4, FS_Subset

(* What Find finds                                                         *)
LEMMA FindFacts ==
    ASSUME NEW t \in Table, NEW k \in Key
    PROVE  /\ Exists(t, k) <=> \E i \in 1 .. Len(t.chains[Column(k)]) :
                                  t.nodes[t.chains[Column(k)][i]][1] = k
           /\ Exists(t, k) =>
                 /\ Find(t, k) \in 1 .. Len(t.chains[Column(k)])
                 /\ t.nodes[t.chains[Column(k)][Find(t, k)]][1] = k
                 /\ \A i \in 1 .. Find(t, k) - 1 : t.nodes[t.chains[Column(k)][i]][1] # k
<1> DEFINE chain == t.chains[Column(k)]
           I     == {i \in 1 .. Len(chain) : t.nodes[chain[i]][1] = k}
<1>1. chain \in Seq(Nodes)
  BY ColumnType DEF Table
<1>2. Find(t, k) = IF I # {} THEN Min(I) ELSE 0
  BY DEF Find, SelectInSeq
<1>3. ASSUME I # {}
      PROVE  Min(I) \in I /\ \A i \in I : Min(I) <= i
  <2>1. I \subseteq Nat
    OBVIOUS
  <2>2. \E x \in I : \A y \in I : x <= y
    BY <1>3, <2>1, LeastOf
  <2>3. QED
    BY <2>2 DEF Min
<1>4. Exists(t, k) <=> I # {}
  <2>1. 0 \notin I
    BY <1>1
  <2> HIDE DEF I
  <2>2. QED
    BY <1>2, <1>3, <2>1 DEF Exists
<1>5. ASSUME I # {}
      PROVE  /\ Find(t, k) \in I
             /\ \A i \in 1 .. Find(t, k) - 1 : t.nodes[chain[i]][1] # k
  <2>1. Find(t, k) \in I /\ \A i \in I : Find(t, k) <= i
    BY <1>2, <1>3, <1>5
  <2>2. QED
    BY <1>1, <2>1
<1>6. QED
  BY <1>4, <1>5

-----------------------------------------------------------------------------
LEMMA EmptyTableOK ==
    ASSUME NEW t \in Table, t.free = NewTable.free, t.chains = NewTable.chains,
           t.size = 0
    PROVE  TableOK(t)
<1>1. /\ \A c \in Columns : t.chains[c] = <<>> /\ Len(t.chains[c]) = 0
      /\ t.free = [i \in 1 .. fsize |-> i - 1]
  BY DEF NewTable, Columns
<1>2. Chained(t) = {}
  BY <1>1, ChainedNodes
<1>3. /\ Len(t.free) = fsize /\ \A i \in 1 .. fsize : t.free[i] = i - 1
      /\ DOMAIN t.free = 1 .. fsize
  BY <1>1, HashAssumption
<1>4. \A n \in Nodes : n \in ToSet(t.free)
  <2> TAKE n \in Nodes
  <2>1. n + 1 \in DOMAIN t.free /\ t.free[n + 1] = n
    BY <1>3 DEF Nodes
  <2>2. QED
    BY <2>1 DEF ToSet
<1>5. FreeOK(t)
  <2>1. \A i, j \in 1 .. fsize : i - 1 = j - 1 => i = j
    BY HashAssumption
  <2>2. QED
    BY <1>2, <1>3, <1>4, <2>1 DEF FreeOK
<1>6. SizeOK(t)
  BY <1>2, <1>3, FS_EmptySet, HashAssumption DEF SizeOK
<1>7. ChainsOK(t)
  BY <1>1 DEF ChainsOK
<1>8. Listed(t)
  BY <1>2 DEF Listed
<1>9. QED
  BY <1>5, <1>6, <1>7, <1>8 DEF TableOK

LEMMA NewTableOK == TableOK(NewTable)
<1>1. 0 \in Nodes /\ [i \in 1 .. fsize |-> i - 1] \in Seq(Nodes)
  BY HashAssumption DEF Nodes
<1>2. NewTable \in Table
  BY <1>1 DEF NewTable, Table, Columns
<1>3. NewTable.size = 0
  BY DEF NewTable
<1>4. QED
  BY <1>2, <1>3, EmptyTableOK

LEMMA ResetTableOK ==
    ASSUME NEW t \in Table
    PROVE  TableOK(ResetTable(t))
<1>1. NewTable \in Table
  BY NewTableOK DEF TableOK
<1>2. /\ ResetTable(t) \in Table
      /\ ResetTable(t).free = NewTable.free /\ ResetTable(t).chains = NewTable.chains
      /\ ResetTable(t).size = NewTable.size
  BY <1>1 DEF ResetTable, Table
<1>3. NewTable.size = 0
  BY DEF NewTable
<1>4. QED
  BY <1>2, <1>3, EmptyTableOK

-----------------------------------------------------------------------------
(* An item is added                                                        *)
Inserted(t, k, v, n, u) ==
    /\ n \in Nodes /\ t.free # <<>> /\ t.size < fsize /\ u \in Table
    /\ u.free = Tail(t.free) /\ u.size = t.size + 1
    /\ u.nodes = [t.nodes EXCEPT ![n] = <<k, v>>]
    /\ u.chains = [t.chains EXCEPT ![Column(k)] = <<n>> \o @]
    /\ u.fIndexValid = t.fIndexValid /\ u.indexStart = t.indexStart
    /\ t.fIndexValid =>
          u.indexlist = [t.indexlist EXCEPT ![(t.size + t.indexStart) % fsize] = n]

LEMMA InsertFields ==
    ASSUME NEW t \in Table, NEW k \in Key, NEW v \in Val, ~Full(t),
           SizeOK(t)
    PROVE  Inserted(t, k, v, Head(t.free), InsertKey(t, k, v))
<1> DEFINE n == Head(t.free)
           u == InsertKey(t, k, v)
           placed == [t EXCEPT !.free = Tail(@), !.nodes[n] = <<k, v>>,
                               !.chains[Column(k)] = <<n>> \o @]
<1>1. t.free \in Seq(Nodes) /\ t.free # <<>> /\ n \in Nodes /\ Tail(t.free) \in Seq(Nodes)
  BY DEF Table, Full
<1>2. Len(t.free) > 0 /\ t.size \in Nat /\ t.size < fsize
  BY <1>1, HashAssumption DEF SizeOK, Table
<1>3. Column(k) \in Columns /\ <<k, v>> \in Item
  BY ColumnType DEF Item
<1>4. /\ t.chains[Column(k)] \in Seq(Nodes) /\ <<n>> \o t.chains[Column(k)] \in Seq(Nodes)
  BY <1>1, <1>3 DEF Table
<1>5. /\ placed \in Table
      /\ placed.free = Tail(t.free) /\ placed.size = t.size
      /\ placed.nodes = [t.nodes EXCEPT ![n] = <<k, v>>]
      /\ placed.chains = [t.chains EXCEPT ![Column(k)] = <<n>> \o @]
      /\ placed.fIndexValid = t.fIndexValid /\ placed.indexStart = t.indexStart
      /\ placed.indexlist = t.indexlist
  BY <1>1, <1>3, <1>4 DEF Table
<1>6. u = [UpdateIndexWithAdd(placed, n) EXCEPT !.size = @ + 1]
  BY <1>1 DEF InsertKey, Full
<1> HIDE DEF placed
<1>7. (t.size + t.indexStart) % fsize \in Nodes
  BY Circle DEF Table
<1> DEFINE w == UpdateIndexWithAdd(placed, n)
<1>8. w = IF t.fIndexValid
          THEN [placed EXCEPT !.indexlist[(t.size + t.indexStart) % fsize] = n]
          ELSE placed
  BY <1>2, <1>5 DEF UpdateIndexWithAdd
<1>9. /\ w \in Table
      /\ w.free = placed.free /\ w.size = placed.size /\ w.nodes = placed.nodes
      /\ w.chains = placed.chains /\ w.fIndexValid = t.fIndexValid
      /\ w.indexStart = t.indexStart
      /\ t.fIndexValid =>
            w.indexlist = [t.indexlist EXCEPT ![(t.size + t.indexStart) % fsize] = n]
  <2>1. CASE t.fIndexValid
    <3>1. PICK e \in Nodes : e = (t.size + t.indexStart) % fsize
      BY <1>7
    <3>2. PICK x \in [Nodes -> Nodes] : x = [placed.indexlist EXCEPT ![e] = n]
      BY <1>1, <1>5 DEF Table
    <3> HIDE DEF w
    <3>3. w = [placed EXCEPT !.indexlist = x]
      BY <1>8, <2>1, <3>1, <3>2
    <3>4. /\ w \in Table
          /\ w.free = placed.free /\ w.size = placed.size /\ w.nodes = placed.nodes
          /\ w.chains = placed.chains /\ w.fIndexValid = placed.fIndexValid
          /\ w.indexStart = placed.indexStart
          /\ w.indexlist = x
      BY <1>5, <3>3 DEF Table
    <3>5. QED
      BY <1>5, <3>1, <3>2, <3>4
  <2>2. CASE ~t.fIndexValid
    BY <1>5, <1>8, <2>2
  <2>3. QED
    BY <2>1, <2>2
<1> HIDE DEF w
<1>10. /\ u \in Table /\ u.free = w.free /\ u.size = w.size + 1 /\ u.nodes = w.nodes
       /\ u.chains = w.chains /\ u.fIndexValid = w.fIndexValid
       /\ u.indexStart = w.indexStart /\ u.indexlist = w.indexlist
  <2>1. PICK x \in Nat : x = w.size + 1
    BY <1>9 DEF Table
  <2>2. u = [w EXCEPT !.size = x]
    BY <1>6, <2>1 DEF w
  <2> HIDE DEF u
  <2>3. /\ u \in Table /\ u.free = w.free /\ u.size = x /\ u.nodes = w.nodes
        /\ u.chains = w.chains /\ u.fIndexValid = w.fIndexValid
        /\ u.indexStart = w.indexStart /\ u.indexlist = w.indexlist
    BY <1>9, <2>2 DEF Table
  <2>4. QED
    BY <2>1, <2>3
<1> HIDE DEF u
<1>11. QED
  <2>1. Inserted(t, k, v, n, u)
    BY <1>1, <1>2, <1>5, <1>9, <1>10 DEF Inserted
  <2>2. QED
    BY <2>1 DEF u

LEMMA InsertRest ==
    ASSUME NEW t \in Table, NEW k \in Key, NEW v \in Val, ~Full(t), SizeOK(t)
    PROVE  /\ Head(t.free) \in Nodes /\ t.free # <<>> /\ t.size < fsize
           /\ InsertKey(t, k, v) \in Table
           /\ InsertKey(t, k, v).free = Tail(t.free) /\ InsertKey(t, k, v).size = t.size + 1
<1>1. Inserted(t, k, v, Head(t.free), InsertKey(t, k, v))
  BY InsertFields
<1>2. QED
  BY <1>1, Zenon DEF Inserted

LEMMA InsertNodes ==
    ASSUME NEW t \in Table, NEW k \in Key, NEW v \in Val, ~Full(t), SizeOK(t)
    PROVE  InsertKey(t, k, v).nodes = [t.nodes EXCEPT ![Head(t.free)] = <<k, v>>]
<1>1. Inserted(t, k, v, Head(t.free), InsertKey(t, k, v))
  BY InsertFields
<1>2. QED
  BY <1>1, Zenon DEF Inserted

LEMMA InsertChain ==
    ASSUME NEW t \in Table, NEW k \in Key, NEW v \in Val, ~Full(t), SizeOK(t)
    PROVE  InsertKey(t, k, v).chains =
               [t.chains EXCEPT ![Column(k)] = <<Head(t.free)>> \o @]
<1>1. Inserted(t, k, v, Head(t.free), InsertKey(t, k, v))
  BY InsertFields
<1>2. QED
  BY <1>1, Zenon DEF Inserted

LEMMA InsertIndex ==
    ASSUME NEW t \in Table, NEW k \in Key, NEW v \in Val, ~Full(t), SizeOK(t)
    PROVE  LET u == InsertKey(t, k, v)
           IN  /\ u.fIndexValid = t.fIndexValid /\ u.indexStart = t.indexStart
               /\ t.fIndexValid => u.indexlist =
                     [t.indexlist EXCEPT ![(t.size + t.indexStart) % fsize] = Head(t.free)]
<1>1. Inserted(t, k, v, Head(t.free), InsertKey(t, k, v))
  BY InsertFields
<1>2. QED
  BY <1>1, Zenon DEF Inserted

LEMMA InsertChained ==
    ASSUME NEW t, TableOK(t), NEW k \in Key, NEW v \in Val, ~Full(t)
    PROVE  LET n == Head(t.free)
               u == InsertKey(t, k, v)
           IN  Chained(u) = Chained(t) \cup {n} /\ n \notin Chained(t)
<1> DEFINE n == Head(t.free)
           u == InsertKey(t, k, v)
           c == Column(k)
<1>1. t \in Table /\ FreeOK(t) /\ SizeOK(t)
  BY DEF TableOK
<1>2. n \in Nodes /\ t.free # <<>> /\ u \in Table
  BY <1>1, InsertRest
<1>3. u.chains = [t.chains EXCEPT ![c] = <<n>> \o @]
  BY <1>1, InsertChain
<1> HIDE DEF u
<1>4. n \notin Chained(t)
  <2>1. 1 \in DOMAIN t.free /\ n = t.free[1]
    BY <1>1, <1>2 DEF Table
  <2>2. n \in ToSet(t.free)
    BY <2>1 DEF ToSet
  <2>3. QED
    BY <1>1, <1>2, <2>2 DEF FreeOK
<1> HIDE DEF n
<1>5. /\ c \in Columns /\ t.chains[c] \in Seq(Nodes)
      /\ u.chains[c] = <<n>> \o t.chains[c]
      /\ \A d \in Columns : d # c => u.chains[d] = t.chains[d]
  BY <1>1, <1>2, <1>3, ColumnType DEF Table
<1>6. /\ Len(u.chains[c]) = Len(t.chains[c]) + 1 /\ Len(t.chains[c]) \in Nat
      /\ u.chains[c][1] = n
      /\ \A i \in 1 .. Len(t.chains[c]) : u.chains[c][i + 1] = t.chains[c][i]
  BY <1>2, <1>5, Prepended
<1> HIDE DEF c
<1>7. \A m : (\E i \in 1 .. Len(u.chains[c]) : m = u.chains[c][i]) <=>
                 m = n \/ \E i \in 1 .. Len(t.chains[c]) : m = t.chains[c][i]
  <2> TAKE m
  <2>1. ASSUME NEW i \in 1 .. Len(u.chains[c]), m = u.chains[c][i]
        PROVE  m = n \/ \E j \in 1 .. Len(t.chains[c]) : m = t.chains[c][j]
    <3>1. CASE i = 1
      BY <1>6, <2>1, <3>1
    <3>2. CASE i # 1
      <4>1. i - 1 \in 1 .. Len(t.chains[c]) /\ (i - 1) + 1 = i
        BY <1>6, <3>2
      <4>2. QED
        BY <1>6, <2>1, <4>1
    <3>3. QED
      BY <3>1, <3>2
  <2>2. ASSUME m = n
        PROVE  \E i \in 1 .. Len(u.chains[c]) : m = u.chains[c][i]
    BY <1>6, <2>2
  <2>3. ASSUME NEW j \in 1 .. Len(t.chains[c]), m = t.chains[c][j]
        PROVE  \E i \in 1 .. Len(u.chains[c]) : m = u.chains[c][i]
    <3>1. j + 1 \in 1 .. Len(u.chains[c])
      BY <1>6
    <3>2. QED
      BY <1>6, <2>3, <3>1
  <2>4. QED
    BY <2>1, <2>2, <2>3
<1>8. \A m : m \in Chained(u) <=> m \in Chained(t) \/ m = n
  <2> TAKE m
  <2>1. ASSUME NEW d \in Columns
        PROVE  (\E i \in 1 .. Len(u.chains[d]) : m = u.chains[d][i]) <=>
                   (\E i \in 1 .. Len(t.chains[d]) : m = t.chains[d][i]) \/ (m = n /\ d = c)
    <3>1. CASE d = c
      BY <1>7, <3>1, Zenon
    <3>2. CASE d # c
      BY <1>5, <3>2
    <3>3. QED
      BY <3>1, <3>2
  <2>2. m \in Chained(u) <=> \E d \in Columns : \E i \in 1 .. Len(u.chains[d]) : m = u.chains[d][i]
    <3>1. PICK w \in Table : w = u
      BY <1>2
    <3>2. m \in Chained(w) <=> \E d \in Columns : \E i \in 1 .. Len(w.chains[d]) : m = w.chains[d][i]
      BY <3>1, ChainedNodes
    <3>3. QED
      BY <3>1, <3>2
  <2>3. m \in Chained(t) <=> \E d \in Columns : \E i \in 1 .. Len(t.chains[d]) : m = t.chains[d][i]
    BY <1>1, ChainedNodes
  <2>4. QED
    BY <1>5, <2>1, <2>2, <2>3
<1>9. QED
  BY <1>4, <1>8 DEF n, u

LEMMA InsertChainsOK ==
    ASSUME NEW t, TableOK(t), NEW k \in Key, NEW v \in Val, ~Full(t)
    PROVE  ChainsOK(InsertKey(t, k, v))
<1> DEFINE n == Head(t.free)
           u == InsertKey(t, k, v)
           c == Column(k)
<1>1. t \in Table /\ ChainsOK(t) /\ SizeOK(t)
  BY DEF TableOK
<1>2. /\ n \in Nodes /\ u \in Table
      /\ u.nodes = [t.nodes EXCEPT ![n] = <<k, v>>]
      /\ u.chains = [t.chains EXCEPT ![c] = <<n>> \o @]
  <2>1. n \in Nodes /\ u \in Table
    BY <1>1, InsertRest
  <2>2. u.nodes = [t.nodes EXCEPT ![n] = <<k, v>>]
    BY <1>1, InsertNodes
  <2>3. u.chains = [t.chains EXCEPT ![c] = <<n>> \o @]
    BY <1>1, InsertChain
  <2>4. QED
    BY <2>1, <2>2, <2>3
<1>3. n \notin Chained(t)
  BY InsertChained
<1> HIDE DEF n, u
<1>4. /\ c \in Columns /\ t.chains[c] \in Seq(Nodes)
      /\ u.chains[c] = <<n>> \o t.chains[c]
      /\ \A d \in Columns : d # c => u.chains[d] = t.chains[d]
  BY <1>1, <1>2, ColumnType DEF Table
<1>5. /\ Len(u.chains[c]) = Len(t.chains[c]) + 1 /\ Len(t.chains[c]) \in Nat
      /\ u.chains[c][1] = n
      /\ \A i \in 1 .. Len(t.chains[c]) : u.chains[c][i + 1] = t.chains[c][i]
  BY <1>2, <1>4, Prepended
<1>6. <<k, v>> \in Item /\ Column(<<k, v>>[1]) = c
  BY DEF Item
<1>7. u.nodes[n] = <<k, v>> /\ \A m \in Nodes : m # n => u.nodes[m] = t.nodes[m]
  BY <1>1, <1>2 DEF Table
<1>8. \A d \in Columns : \A i \in 1 .. Len(t.chains[d]) :
         /\ t.chains[d][i] \in Nodes /\ t.chains[d][i] # n
         /\ t.nodes[t.chains[d][i]] \in Item
         /\ Column(t.nodes[t.chains[d][i]][1]) = d
         /\ \A j \in 1 .. Len(t.chains[d]) : t.chains[d][i] = t.chains[d][j] => i = j
  <2> TAKE d \in Columns
  <2> TAKE i \in 1 .. Len(t.chains[d])
  <2>1. t.chains[d][i] \in Chained(t)
    BY <1>1, ChainedNodes
  <2>2. t.chains[d][i] \in Nodes /\ t.chains[d][i] # n
    BY <1>1, <1>3, <2>1, ChainedNodes
  <2>3. QED
    BY <1>1, <2>2 DEF ChainsOK
<1> HIDE DEF c
<1>9. SUFFICES ASSUME NEW d \in Columns, NEW i \in 1 .. Len(u.chains[d])
      PROVE  /\ u.nodes[u.chains[d][i]] \in Item
             /\ Column(u.nodes[u.chains[d][i]][1]) = d
             /\ \A j \in 1 .. Len(u.chains[d]) : u.chains[d][i] = u.chains[d][j] => i = j
  BY DEF ChainsOK, u
<1>10. CASE d # c
  <2>1. u.chains[d] = t.chains[d]
    BY <1>4, <1>10
  <2>2. u.nodes[t.chains[d][i]] = t.nodes[t.chains[d][i]]
    BY <1>7, <1>8, <2>1
  <2>3. QED
    BY <1>8, <2>1, <2>2
<1>11. CASE d = c
  <2>1. \A j \in 1 .. Len(u.chains[c]) :
           \/ j = 1 /\ u.chains[c][j] = n
           \/ /\ j # 1 /\ j - 1 \in 1 .. Len(t.chains[c])
              /\ u.chains[c][j] = t.chains[c][j - 1] /\ u.chains[c][j] # n
    <3> TAKE j \in 1 .. Len(u.chains[c])
    <3>1. CASE j = 1
      BY <1>5, <3>1
    <3>2. CASE j # 1
      <4>1. j - 1 \in 1 .. Len(t.chains[c]) /\ (j - 1) + 1 = j
        BY <1>5, <3>2
      <4>2. QED
        BY <1>4, <1>5, <1>8, <3>2, <4>1
    <3>3. QED
      BY <3>1, <3>2
  <2>2. \A j \in 1 .. Len(u.chains[c]) : u.chains[c][i] = u.chains[c][j] => i = j
    <3> TAKE j \in 1 .. Len(u.chains[c])
    <3> HAVE u.chains[c][i] = u.chains[c][j]
    <3>1. CASE i = 1 \/ j = 1
      BY <1>11, <2>1, <3>1
    <3>2. CASE i # 1 /\ j # 1
      <4>1. /\ i - 1 \in 1 .. Len(t.chains[c]) /\ j - 1 \in 1 .. Len(t.chains[c])
            /\ t.chains[c][i - 1] = t.chains[c][j - 1]
        BY <1>11, <2>1, <3>2
      <4>2. i - 1 = j - 1
        BY <1>4, <1>8, <4>1, Zenon
      <4>3. i \in Int /\ j \in Int
        BY <1>4
      <4>4. QED
        BY <4>2, <4>3
    <3>3. QED
      BY <3>1, <3>2
  <2>3. u.nodes[u.chains[c][i]] \in Item /\ Column(u.nodes[u.chains[c][i]][1]) = c
    <3>1. CASE i = 1
      BY <1>6, <1>7, <1>11, <2>1, <3>1
    <3>2. CASE i # 1
      <4>1. /\ i - 1 \in 1 .. Len(t.chains[c]) /\ u.chains[c][i] = t.chains[c][i - 1]
        BY <1>11, <2>1, <3>2
      <4>2. u.nodes[u.chains[c][i]] = t.nodes[t.chains[c][i - 1]]
        BY <1>4, <1>7, <1>8, <4>1
      <4>3. QED
        BY <1>4, <1>8, <4>1, <4>2
    <3>3. QED
      BY <3>1, <3>2
  <2>4. QED
    BY <1>11, <2>2, <2>3
<1>12. QED
  BY <1>10, <1>11

LEMMA InsertFreeOK ==
    ASSUME NEW t, TableOK(t), NEW k \in Key, NEW v \in Val, ~Full(t)
    PROVE  FreeOK(InsertKey(t, k, v)) /\ SizeOK(InsertKey(t, k, v))
<1> DEFINE n == Head(t.free)
           u == InsertKey(t, k, v)
<1>1. t \in Table /\ FreeOK(t) /\ SizeOK(t)
  BY DEF TableOK
<1>2. /\ n \in Nodes /\ u \in Table /\ t.free # <<>>
      /\ u.free = Tail(t.free) /\ u.size = t.size + 1
  BY <1>1, InsertRest
<1>3. n \notin Chained(t) /\ Chained(u) = Chained(t) \cup {n}
  BY InsertChained
<1> HIDE DEF u
<1>4. /\ t.free \in Seq(Nodes) /\ n = t.free[1] /\ Len(t.free) \in Nat /\ Len(t.free) >= 1
      /\ Len(u.free) = Len(t.free) - 1
      /\ \A i \in 1 .. Len(u.free) : u.free[i] = t.free[i + 1]
      /\ DOMAIN u.free = 1 .. Len(u.free) /\ DOMAIN t.free = 1 .. Len(t.free)
  BY <1>1, <1>2 DEF Table
<1>5. \A i, j \in 1 .. Len(t.free) : t.free[i] = t.free[j] => i = j
  BY <1>1 DEF FreeOK
<1> HIDE DEF n
<1>6. \A i, j \in 1 .. Len(u.free) : u.free[i] = u.free[j] => i = j
  <2> TAKE i, j \in 1 .. Len(u.free)
  <2> HAVE u.free[i] = u.free[j]
  <2>1. i + 1 \in 1 .. Len(t.free) /\ j + 1 \in 1 .. Len(t.free) /\ t.free[i + 1] = t.free[j + 1]
    BY <1>4
  <2>2. i + 1 = j + 1
    BY <1>5, <2>1
  <2>3. QED
    BY <2>2
<1>7. \A m \in Nodes : m \in ToSet(u.free) <=> m # n /\ m \in ToSet(t.free)
  <2> TAKE m \in Nodes
  <2>1. ASSUME m \in ToSet(u.free)
        PROVE  m # n /\ m \in ToSet(t.free)
    <3>1. PICK i \in 1 .. Len(u.free) : m = u.free[i]
      BY <1>4, <2>1 DEF ToSet
    <3>2. i + 1 \in 1 .. Len(t.free) /\ 1 \in 1 .. Len(t.free) /\ i + 1 # 1 /\ m = t.free[i + 1]
      BY <1>4, <3>1
    <3>3. QED
      BY <1>4, <1>5, <3>2 DEF ToSet
  <2>2. ASSUME m # n, m \in ToSet(t.free)
        PROVE  m \in ToSet(u.free)
    <3>1. PICK i \in 1 .. Len(t.free) : m = t.free[i]
      BY <1>4, <2>2 DEF ToSet
    <3>2. i - 1 \in 1 .. Len(u.free) /\ (i - 1) + 1 = i
      BY <1>4, <2>2, <3>1
    <3>3. u.free[i - 1] = m
      BY <1>4, <3>1, <3>2
    <3>4. QED
      BY <1>4, <3>2, <3>3 DEF ToSet
  <2>3. QED
    BY <2>1, <2>2
<1>8. FreeOK(u)
  <2>1. \A m \in Nodes : m \in Chained(u) <=> m \notin ToSet(u.free)
    <3>1. \A m \in Nodes : m \in Chained(t) <=> m \notin ToSet(t.free)
      BY <1>1 DEF FreeOK
    <3>2. QED
      BY <1>3, <1>7, <3>1, Zenon
  <2>2. QED
    BY <1>6, <2>1 DEF FreeOK
<1>9. SizeOK(u)
  <2>1. IsFiniteSet(Chained(t))
    BY <1>1, ChainedNodes
  <2>2. Cardinality(Chained(u)) = Cardinality(Chained(t)) + 1
    BY <1>3, <2>1, FS_AddElement
  <2>3. t.size \in Nat
    BY <1>1 DEF Table
  <2>4. QED
    BY <1>1, <1>2, <1>4, <2>2, <2>3, HashAssumption DEF SizeOK
<1>10. QED
  BY <1>8, <1>9 DEF u

LEMMA InsertOK ==
    ASSUME NEW t, TableOK(t), NEW k \in Key, NEW v \in Val, ~Full(t)
    PROVE  TableOK(InsertKey(t, k, v))
<1> DEFINE n == Head(t.free)
           u == InsertKey(t, k, v)
<1>1. t \in Table /\ FreeOK(t) /\ SizeOK(t) /\ (t.fIndexValid => Listed(t))
  BY DEF TableOK
<1>2. /\ n \in Nodes /\ u \in Table /\ t.size < fsize /\ u.size = t.size + 1
      /\ u.fIndexValid = t.fIndexValid /\ u.indexStart = t.indexStart
      /\ t.fIndexValid =>
            u.indexlist = [t.indexlist EXCEPT ![(t.size + t.indexStart) % fsize] = n]
  <2>1. n \in Nodes /\ u \in Table /\ t.size < fsize /\ u.size = t.size + 1
    BY <1>1, InsertRest
  <2>2. /\ u.fIndexValid = t.fIndexValid /\ u.indexStart = t.indexStart
        /\ t.fIndexValid =>
              u.indexlist = [t.indexlist EXCEPT ![(t.size + t.indexStart) % fsize] = n]
    BY <1>1, InsertIndex
  <2>3. QED
    BY <2>1, <2>2
<1>3. n \notin Chained(t) /\ Chained(u) = Chained(t) \cup {n}
  BY InsertChained
<1>4. ChainsOK(u) /\ FreeOK(u) /\ SizeOK(u)
  BY InsertChainsOK, InsertFreeOK
<1> HIDE DEF n, u
<1>5. ASSUME u.fIndexValid
      PROVE  Listed(u)
  <2>1. /\ Listed(t)
        /\ u.indexlist = [t.indexlist EXCEPT ![(t.size + t.indexStart) % fsize] = n]
    BY <1>1, <1>2, <1>5
  <2>2. PICK s \in Nodes : s = t.indexStart
    BY <1>1 DEF Table
  <2>3. PICK m \in Nat : m = t.size
    BY <1>1 DEF Table
  <2>4. m \in 0 .. fsize - 1 /\ (m + s) % fsize = (s + m) % fsize /\ (s + m) % fsize \in Nodes
    <3>1. m < fsize
      BY <1>2, <2>3
    <3>2. m \in 0 .. fsize - 1
      BY <3>1, HashAssumption
    <3>3. (m + s) % fsize = (s + m) % fsize
      BY Circle
    <3>4. (s + m) % fsize \in Nodes
      BY Circle
    <3>5. QED
      BY <3>2, <3>3, <3>4
  <2>5. Entry(u, m) = n
    <3>1. PICK e \in Nodes : e = (s + m) % fsize
      BY <2>4
    <3>2. u.indexlist[e] = n
      BY <1>1, <2>1, <2>2, <2>3, <2>4, <3>1 DEF Table
    <3>3. QED
      BY <1>2, <2>2, <3>1, <3>2 DEF Entry
  <2>6. ASSUME NEW i \in 0 .. m - 1
        PROVE  Entry(u, i) = Entry(t, i)
    <3>1. i \in 0 .. fsize - 1 /\ i # m
      BY <1>2, <2>3, HashAssumption
    <3>2. PICK e \in Nodes : e = (s + m) % fsize
      BY <2>4
    <3>3. (s + i) % fsize \in Nodes
      BY <3>1, Circle
    <3>4. PICK f \in Nodes : f = (s + i) % fsize
      BY <3>3
    <3>5. e # f
      BY <2>4, <3>1, <3>2, <3>4, Circle
    <3>6. u.indexlist = [t.indexlist EXCEPT ![e] = n]
      BY <2>1, <2>2, <2>3, <2>4, <3>2
    <3>7. u.indexlist[f] = t.indexlist[f]
      BY <1>1, <3>5, <3>6 DEF Table
    <3>8. QED
      BY <1>2, <2>2, <3>4, <3>7 DEF Entry
  <2>7. \A i \in 0 .. u.size - 1 : (i = m /\ Entry(u, i) = n)
                                    \/ (i \in 0 .. m - 1 /\ Entry(u, i) = Entry(t, i))
    BY <1>2, <2>3, <2>5, <2>6
  <2>8. /\ \A i \in 0 .. m - 1 : Entry(t, i) \in Chained(t)
        /\ \A i, j \in 0 .. m - 1 : Entry(t, i) = Entry(t, j) => i = j
        /\ \A x \in Chained(t) : \E i \in 0 .. m - 1 : Entry(t, i) = x
    BY <2>1, <2>3 DEF Listed
  <2>9. \A i \in 0 .. u.size - 1 : Entry(u, i) \in Chained(u)
    BY <1>3, <2>7, <2>8, Zenon
  <2>10. \A i, j \in 0 .. u.size - 1 : Entry(u, i) = Entry(u, j) => i = j
    <3> TAKE i, j \in 0 .. u.size - 1
    <3>1. /\ (i = m /\ Entry(u, i) = n) \/ (i \in 0 .. m - 1 /\ Entry(u, i) = Entry(t, i))
          /\ (j = m /\ Entry(u, j) = n) \/ (j \in 0 .. m - 1 /\ Entry(u, j) = Entry(t, j))
      BY <2>7, Zenon
    <3>2. QED
      BY <1>3, <2>8, <3>1, Zenon
  <2>11. \A x \in Chained(u) : \E i \in 0 .. u.size - 1 : Entry(u, i) = x
    <3> TAKE x \in Chained(u)
    <3>1. m \in 0 .. u.size - 1 /\ \A i \in 0 .. m - 1 : i \in 0 .. u.size - 1
      BY <1>2, <2>3
    <3>2. CASE x = n
      BY <2>5, <3>1, <3>2
    <3>3. CASE x # n
      <4>1. PICK i \in 0 .. m - 1 : Entry(t, i) = x
        BY <1>3, <2>8, <3>3
      <4>2. QED
        BY <2>6, <3>1, <4>1
    <3>4. QED
      BY <3>2, <3>3
  <2>12. QED
    BY <2>9, <2>10, <2>11 DEF Listed
<1>6. QED
  BY <1>2, <1>4, <1>5 DEF TableOK, u

-----------------------------------------------------------------------------
(* An item is removed                                                      *)
LEMMA NodeOfFacts ==
    ASSUME NEW t, TableOK(t), NEW k \in Key, Exists(t, k)
    PROVE  /\ Find(t, k) \in 1 .. Len(t.chains[Column(k)])
           /\ NodeOf(t, k) \in Nodes /\ NodeOf(t, k) \in Chained(t)
           /\ t.nodes[NodeOf(t, k)] \in Item /\ t.nodes[NodeOf(t, k)][1] = k
           /\ t.size \in Nat /\ t.size >= 1
<1>1. t \in Table /\ ChainsOK(t) /\ SizeOK(t)
  BY DEF TableOK
<1>2. /\ Find(t, k) \in 1 .. Len(t.chains[Column(k)])
      /\ t.nodes[t.chains[Column(k)][Find(t, k)]][1] = k
  BY <1>1, FindFacts
<1>3. NodeOf(t, k) = t.chains[Column(k)][Find(t, k)]
  BY DEF NodeOf
<1>4. NodeOf(t, k) \in Chained(t) /\ Chained(t) \subseteq Nodes
  BY <1>1, <1>2, <1>3, ChainedNodes, ColumnType
<1>5. t.nodes[NodeOf(t, k)] \in Item
  BY <1>1, <1>2, <1>3, ColumnType DEF ChainsOK
<1>6. t.size \in Nat /\ t.size >= 1
  <2>1. t.size \in Nat /\ t.size = Cardinality(Chained(t))
    BY <1>1 DEF Table, SizeOK
  <2>2. Cardinality(Chained(t)) # 0
    BY <1>1, <1>4, ChainedNodes, FS_EmptySet
  <2>3. QED
    BY <2>1, <2>2
<1>7. QED
  BY <1>2, <1>3, <1>4, <1>5, <1>6

Taken(t, k, n, u) ==
    /\ u \in Table
    /\ u.free = <<n>> \o t.free /\ u.size = t.size - 1
    /\ u.nodes = [t.nodes EXCEPT ![n] = <<>>]
    /\ u.chains = [t.chains EXCEPT ![Column(k)] = RemoveAt(@, Find(t, k))]
    /\ u.indexlist = t.indexlist
    /\ t.size = 1 => u.fIndexValid = TRUE /\ u.indexStart = 0
    /\ t.size > 1 /\ ~t.fIndexValid => u.fIndexValid = FALSE
    /\ t.size > 1 /\ t.fIndexValid /\ n = t.indexlist[t.indexStart] =>
          u.indexStart = (t.indexStart + 1) % fsize
    /\ t.size > 1 /\ t.fIndexValid /\ n # t.indexlist[t.indexStart] =>
          /\ u.fIndexValid = (n = t.indexlist[(t.indexStart + t.size - 1) % fsize])
          /\ u.indexStart = t.indexStart

LEMMA RemoveFields ==
    ASSUME NEW t, TableOK(t), NEW k \in Key, Exists(t, k)
    PROVE  Taken(t, k, NodeOf(t, k), RemoveKey(t, k))
<1> DEFINE n == NodeOf(t, k)
           p == Find(t, k)
           c == Column(k)
           u == RemoveKey(t, k)
           last == (t.indexStart + t.size - 1) % fsize
           unchained == [t EXCEPT !.chains[c] = RemoveAt(@, p)]
           w == UpdateIndexWithRemove(unchained, n)
<1>1. t \in Table
  BY DEF TableOK
<1>2. /\ p \in 1 .. Len(t.chains[c]) /\ n \in Nodes
      /\ t.size \in Nat /\ t.size >= 1 /\ c \in Columns
  BY NodeOfFacts, ColumnType
<1>3. u = [w EXCEPT !.free = <<n>> \o @, !.nodes[n] = <<>>, !.size = @ - 1]
  BY DEF RemoveKey
<1>4. RemoveAt(t.chains[c], p) \in Seq(Nodes)
  <2>1. PICK s \in Seq(Nodes) : s = t.chains[c]
    BY <1>1, <1>2 DEF Table
  <2>2. RemoveAt(s, p) \in Seq(Nodes)
    BY <1>2, <2>1, Removed
  <2>3. QED
    BY <2>1, <2>2
<1> HIDE DEF n, p, c
<1>5. /\ unchained \in Table
      /\ unchained.chains = [t.chains EXCEPT ![c] = RemoveAt(@, p)]
      /\ unchained.free = t.free /\ unchained.nodes = t.nodes /\ unchained.size = t.size
      /\ unchained.indexlist = t.indexlist /\ unchained.fIndexValid = t.fIndexValid
      /\ unchained.indexStart = t.indexStart
  <2>1. PICK g \in [Columns -> Seq(Nodes)] : g = [t.chains EXCEPT ![c] = RemoveAt(@, p)]
    <3>1. PICK r \in Seq(Nodes) : r = RemoveAt(t.chains[c], p)
      BY <1>4
    <3>2. [t.chains EXCEPT ![c] = r] \in [Columns -> Seq(Nodes)]
      BY <1>1, <1>2 DEF Table
    <3>3. QED
      BY <3>1, <3>2
  <2>2. unchained = [t EXCEPT !.chains = g]
    BY <1>1, <2>1 DEF Table
  <2> HIDE DEF unchained
  <2>3. /\ unchained \in Table /\ unchained.chains = g
        /\ unchained.free = t.free /\ unchained.nodes = t.nodes /\ unchained.size = t.size
        /\ unchained.indexlist = t.indexlist /\ unchained.fIndexValid = t.fIndexValid
        /\ unchained.indexStart = t.indexStart
    BY <1>1, <2>2 DEF Table
  <2>4. QED
    BY <2>1, <2>3
<1> HIDE DEF unchained
<1>6. (t.indexStart + 1) % fsize \in Nodes /\ 0 \in Nodes
  <2>1. PICK m \in Nodes : m = t.indexStart
    BY <1>1 DEF Table
  <2>2. (m + 1) % fsize \in Nodes
    BY Circle
  <2>3. QED
    BY <2>1, <2>2, HashAssumption DEF Nodes
<1>7. /\ t.size = 1 => w = [unchained EXCEPT !.fIndexValid = TRUE, !.indexStart = 0]
      /\ t.size > 1 /\ ~t.fIndexValid => w = unchained
      /\ t.size > 1 /\ t.fIndexValid /\ n = t.indexlist[t.indexStart] =>
            w = [unchained EXCEPT !.indexStart = (@ + 1) % fsize]
      /\ t.size > 1 /\ t.fIndexValid /\ n # t.indexlist[t.indexStart] =>
            w = [unchained EXCEPT !.fIndexValid = (n = t.indexlist[last])]
  BY <1>2, <1>5 DEF UpdateIndexWithRemove
<1> HIDE DEF w, last
<1>8. ASSUME t.size = 1
      PROVE  /\ w \in Table
             /\ w.chains = unchained.chains /\ w.free = unchained.free
             /\ w.nodes = unchained.nodes /\ w.size = unchained.size
             /\ w.indexlist = unchained.indexlist
             /\ w.fIndexValid = TRUE /\ w.indexStart = 0
  <2>1. w = [unchained EXCEPT !.fIndexValid = TRUE, !.indexStart = 0]
    BY <1>7, <1>8
  <2>2. QED
    BY <1>5, <1>6, <2>1 DEF Table
<1>9. ASSUME t.size > 1, ~t.fIndexValid
      PROVE  w = unchained /\ w.fIndexValid = FALSE
  <2>1. w = unchained
    BY <1>7, <1>9
  <2>2. w.fIndexValid = t.fIndexValid /\ t.fIndexValid \in BOOLEAN
    BY <1>1, <1>5, <2>1 DEF Table
  <2>3. QED
    BY <1>9, <2>1, <2>2, Zenon
<1>10. ASSUME t.size > 1, t.fIndexValid, n = t.indexlist[t.indexStart]
      PROVE  /\ w \in Table
             /\ w.chains = unchained.chains /\ w.free = unchained.free
             /\ w.nodes = unchained.nodes /\ w.size = unchained.size
             /\ w.indexlist = unchained.indexlist
             /\ w.indexStart = (t.indexStart + 1) % fsize
  <2>1. PICK x \in Nodes : x = (unchained.indexStart + 1) % fsize
    BY <1>5, <1>6
  <2>2. w = [unchained EXCEPT !.indexStart = x]
    BY <1>7, <1>10, <2>1
  <2>3. /\ w \in Table
        /\ w.chains = unchained.chains /\ w.free = unchained.free
        /\ w.nodes = unchained.nodes /\ w.size = unchained.size
        /\ w.indexlist = unchained.indexlist /\ w.indexStart = x
    BY <1>5, <2>2 DEF Table
  <2>4. QED
    BY <1>5, <2>1, <2>3
<1>11. ASSUME t.size > 1, t.fIndexValid, n # t.indexlist[t.indexStart]
      PROVE  /\ w \in Table
             /\ w.chains = unchained.chains /\ w.free = unchained.free
             /\ w.nodes = unchained.nodes /\ w.size = unchained.size
             /\ w.indexlist = unchained.indexlist
             /\ w.indexStart = unchained.indexStart
             /\ w.fIndexValid = (n = t.indexlist[last])
  <2>1. PICK x \in BOOLEAN : x = (n = t.indexlist[last])
    OBVIOUS
  <2>2. w = [unchained EXCEPT !.fIndexValid = (n = t.indexlist[last])]
    BY <1>7, <1>11
  <2>3. w = [unchained EXCEPT !.fIndexValid = x]
    BY <2>1, <2>2, Zenon
  <2>4. /\ w \in Table
        /\ w.chains = unchained.chains /\ w.free = unchained.free
        /\ w.nodes = unchained.nodes /\ w.size = unchained.size
        /\ w.indexlist = unchained.indexlist
        /\ w.indexStart = unchained.indexStart
    BY <1>5, <2>3 DEF Table
  <2>5. w.fIndexValid = x
    BY <1>5, <2>3 DEF Table
  <2>6. QED
    BY <2>1, <2>4, <2>5, Zenon
<1>12. /\ w \in Table
      /\ w.chains = unchained.chains /\ w.free = t.free /\ w.nodes = t.nodes
      /\ w.size = t.size /\ w.indexlist = t.indexlist
  <2>1. \/ t.size = 1
        \/ t.size > 1 /\ ~t.fIndexValid
        \/ t.size > 1 /\ t.fIndexValid /\ n = t.indexlist[t.indexStart]
        \/ t.size > 1 /\ t.fIndexValid /\ n # t.indexlist[t.indexStart]
    BY <1>2
  <2>2. /\ w \in Table
        /\ w.chains = unchained.chains /\ w.free = unchained.free
        /\ w.nodes = unchained.nodes /\ w.size = unchained.size
        /\ w.indexlist = unchained.indexlist
    BY <1>5, <1>8, <1>9, <1>10, <1>11, <2>1, Zenon
  <2>3. QED
    BY <1>5, <2>2, Zenon
<1>13. /\ u \in Table
      /\ u.free = <<n>> \o w.free /\ u.size = w.size - 1
      /\ u.nodes = [w.nodes EXCEPT ![n] = <<>>] /\ u.chains = w.chains
      /\ u.indexlist = w.indexlist /\ u.fIndexValid = w.fIndexValid
      /\ u.indexStart = w.indexStart
  <2>1. PICK x \in Nat : x = w.size - 1
    BY <1>2, <1>12
  <2>2. PICK f \in Seq(Nodes) : f = <<n>> \o w.free
    BY <1>2, <1>12, Prepended DEF Table
  <2>3. PICK g \in [Nodes -> Item \cup {<<>>}] : g = [w.nodes EXCEPT ![n] = <<>>]
    BY <1>2, <1>12 DEF Table
  <2>4. u = [w EXCEPT !.free = f, !.nodes = g, !.size = x]
    BY <1>3, <1>12, <2>1, <2>2, <2>3 DEF Table
  <2> HIDE DEF u
  <2>5. QED
    BY <1>12, <2>1, <2>2, <2>3, <2>4 DEF Table
<1> HIDE DEF u
<1>14. /\ t.size = 1 => u.fIndexValid = TRUE /\ u.indexStart = 0
       /\ t.size > 1 /\ ~t.fIndexValid => u.fIndexValid = FALSE
       /\ t.size > 1 /\ t.fIndexValid /\ n = t.indexlist[t.indexStart] =>
             u.indexStart = (t.indexStart + 1) % fsize
       /\ t.size > 1 /\ t.fIndexValid /\ n # t.indexlist[t.indexStart] =>
             u.fIndexValid = (n = t.indexlist[last]) /\ u.indexStart = t.indexStart
  BY <1>5, <1>13, <1>8, <1>9, <1>10, <1>11, Zenon
<1>15. /\ u.free = <<n>> \o t.free /\ u.size = t.size - 1
       /\ u.nodes = [t.nodes EXCEPT ![n] = <<>>]
       /\ u.chains = [t.chains EXCEPT ![c] = RemoveAt(@, p)]
       /\ u.indexlist = t.indexlist
  BY <1>5, <1>12, <1>13
<1>16. QED
  <2>1. Taken(t, k, n, u)
    BY <1>13, <1>14, <1>15, Zenon DEF Taken, p, c, last
  <2>2. QED
    BY <2>1 DEF u, n

LEMMA RemoveRest ==
    ASSUME NEW t, TableOK(t), NEW k \in Key, Exists(t, k)
    PROVE  LET u == RemoveKey(t, k)
           IN  /\ u \in Table /\ u.free = <<NodeOf(t, k)>> \o t.free
               /\ u.size = t.size - 1 /\ u.indexlist = t.indexlist
<1>1. Taken(t, k, NodeOf(t, k), RemoveKey(t, k))
  BY RemoveFields
<1>2. QED
  BY <1>1, Zenon DEF Taken

LEMMA RemoveNodes ==
    ASSUME NEW t, TableOK(t), NEW k \in Key, Exists(t, k)
    PROVE  RemoveKey(t, k).nodes = [t.nodes EXCEPT ![NodeOf(t, k)] = <<>>]
<1>1. Taken(t, k, NodeOf(t, k), RemoveKey(t, k))
  BY RemoveFields
<1>2. QED
  BY <1>1, Zenon DEF Taken

LEMMA RemoveChain ==
    ASSUME NEW t, TableOK(t), NEW k \in Key, Exists(t, k)
    PROVE  RemoveKey(t, k).chains = [t.chains EXCEPT ![Column(k)] = RemoveAt(@, Find(t, k))]
<1>1. Taken(t, k, NodeOf(t, k), RemoveKey(t, k))
  BY RemoveFields
<1>2. QED
  BY <1>1, Zenon DEF Taken

LEMMA RemoveIndex ==
    ASSUME NEW t, TableOK(t), NEW k \in Key, Exists(t, k)
    PROVE  LET n == NodeOf(t, k)
               u == RemoveKey(t, k)
           IN  /\ t.size = 1 => u.fIndexValid = TRUE /\ u.indexStart = 0
               /\ t.size > 1 /\ ~t.fIndexValid => u.fIndexValid = FALSE
               /\ t.size > 1 /\ t.fIndexValid /\ n = t.indexlist[t.indexStart] =>
                     u.indexStart = (t.indexStart + 1) % fsize
               /\ t.size > 1 /\ t.fIndexValid /\ n # t.indexlist[t.indexStart] =>
                     /\ u.fIndexValid = (n = t.indexlist[(t.indexStart + t.size - 1) % fsize])
                     /\ u.indexStart = t.indexStart
<1>1. Taken(t, k, NodeOf(t, k), RemoveKey(t, k))
  BY RemoveFields
<1>2. QED
  BY <1>1, Zenon DEF Taken

LEMMA RemoveChains ==
    ASSUME NEW t, TableOK(t), NEW k \in Key, Exists(t, k)
    PROVE  /\ Chained(RemoveKey(t, k)) = Chained(t) \ {NodeOf(t, k)}
           /\ ChainsOK(RemoveKey(t, k))
<1> DEFINE n == NodeOf(t, k)
           p == Find(t, k)
           c == Column(k)
           u == RemoveKey(t, k)
           from(i) == IF i < p THEN i ELSE i + 1
<1>1. t \in Table /\ ChainsOK(t)
  BY DEF TableOK
<1>2. /\ p \in 1 .. Len(t.chains[c]) /\ n \in Nodes /\ c \in Columns
      /\ t.nodes[n] \in Item /\ t.nodes[n][1] = k
  BY NodeOfFacts, ColumnType
<1>3. n = t.chains[c][p] /\ Column(t.nodes[n][1]) = c
  BY <1>2 DEF NodeOf
<1>4. u \in Table
  BY RemoveRest
<1>5. u.nodes = [t.nodes EXCEPT ![n] = <<>>]
  BY RemoveNodes
<1>6. u.chains = [t.chains EXCEPT ![c] = RemoveAt(@, p)]
  BY RemoveChain
<1> HIDE DEF n, p, u
<1> HIDE DEF c
<1>7. /\ t.chains[c] \in Seq(Nodes) /\ u.chains[c] = RemoveAt(t.chains[c], p)
      /\ \A d \in Columns : d # c => u.chains[d] = t.chains[d]
  BY <1>1, <1>2, <1>6 DEF Table
<1>8. /\ Len(u.chains[c]) = Len(t.chains[c]) - 1 /\ Len(t.chains[c]) \in Nat /\ p \in Int
      /\ \A i \in 1 .. Len(t.chains[c]) - 1 :
            u.chains[c][i] = IF i < p THEN t.chains[c][i] ELSE t.chains[c][i + 1]
  <2>1. PICK s \in Seq(Nodes) : s = t.chains[c]
    BY <1>7
  <2>2. p \in 1 .. Len(s)
    BY <1>2, <2>1
  <2>3. /\ Len(RemoveAt(s, p)) = Len(s) - 1
        /\ \A i \in 1 .. Len(s) - 1 :
              RemoveAt(s, p)[i] = IF i < p THEN s[i] ELSE s[i + 1]
    BY <2>2, Removed
  <2>4. QED
    BY <1>2, <1>7, <2>1, <2>3
<1>9. \A i \in 1 .. Len(u.chains[c]) :
         /\ from(i) \in 1 .. Len(t.chains[c]) /\ from(i) # p
         /\ u.chains[c][i] = t.chains[c][from(i)]
  BY <1>8
<1>10. \A i, j \in 1 .. Len(u.chains[c]) : from(i) = from(j) => i = j
  BY <1>8
<1>11. \A j \in 1 .. Len(t.chains[c]) : j # p => \E i \in 1 .. Len(u.chains[c]) : from(i) = j
  <2> TAKE j \in 1 .. Len(t.chains[c])
  <2> HAVE j # p
  <2>1. CASE j < p
    <3>1. j \in 1 .. Len(u.chains[c]) /\ from(j) = j
      BY <1>2, <1>8, <2>1
    <3>2. QED
      BY <3>1
  <2>2. CASE j > p
    <3>1. j - 1 \in 1 .. Len(u.chains[c]) /\ from(j - 1) = j
      BY <1>2, <1>8, <2>2
    <3>2. QED
      BY <3>1
  <2>3. QED
    BY <1>8, <2>1, <2>2
<1> HIDE DEF from
<1>12. \A d \in Columns : \A i \in 1 .. Len(t.chains[d]) :
          /\ t.chains[d][i] \in Nodes
          /\ t.nodes[t.chains[d][i]] \in Item
          /\ Column(t.nodes[t.chains[d][i]][1]) = d
          /\ \A j \in 1 .. Len(t.chains[d]) : t.chains[d][i] = t.chains[d][j] => i = j
  <2> TAKE d \in Columns
  <2> TAKE i \in 1 .. Len(t.chains[d])
  <2>1. t.chains[d][i] \in Nodes
    BY <1>1 DEF Table
  <2>2. QED
    BY <1>1, <2>1 DEF ChainsOK
<1>13. \A d \in Columns : \A i \in 1 .. Len(t.chains[d]) :
          t.chains[d][i] = n <=> d = c /\ i = p
  <2> TAKE d \in Columns
  <2> TAKE i \in 1 .. Len(t.chains[d])
  <2>1. ASSUME t.chains[d][i] = n
        PROVE  d = c /\ i = p
    <3>1. Column(t.nodes[t.chains[d][i]][1]) = d
      BY <1>12
    <3>2. d = c
      BY <1>3, <2>1, <3>1, Zenon
    <3>3. i = p
      BY <1>2, <1>3, <1>12, <2>1, <3>2
    <3>4. QED
      BY <3>2, <3>3
  <2>2. QED
    BY <1>3, <2>1
<1>14. \A m : m \in Chained(u) <=> m \in Chained(t) /\ m # n
  <2> TAKE m
  <2>1. PICK w \in Table : w = u
    BY <1>4
  <2>2. m \in Chained(w) <=> \E d \in Columns : \E i \in 1 .. Len(w.chains[d]) : m = w.chains[d][i]
    BY ChainedNodes
  <2>3. m \in Chained(t) <=> \E d \in Columns : \E i \in 1 .. Len(t.chains[d]) : m = t.chains[d][i]
    BY <1>1, ChainedNodes
  <2>4. ASSUME NEW d \in Columns, NEW i \in 1 .. Len(u.chains[d]), m = u.chains[d][i]
        PROVE  m # n /\ \E j \in 1 .. Len(t.chains[d]) : m = t.chains[d][j]
    <3>1. CASE d = c
      BY <1>2, <1>9, <1>13, <2>4, <3>1
    <3>2. CASE d # c
      BY <1>7, <1>13, <2>4, <3>2
    <3>3. QED
      BY <3>1, <3>2
  <2>5. ASSUME NEW d \in Columns, NEW i \in 1 .. Len(t.chains[d]), m = t.chains[d][i], m # n
        PROVE  \E j \in 1 .. Len(u.chains[d]) : m = u.chains[d][j]
    <3>1. CASE d = c
      <4>1. i # p /\ i \in 1 .. Len(t.chains[c])
        BY <1>3, <2>5, <3>1
      <4>2. PICK j \in 1 .. Len(u.chains[c]) : from(j) = i
        BY <1>11, <4>1
      <4>3. QED
        BY <1>9, <2>5, <3>1, <4>2
    <3>2. CASE d # c
      BY <1>7, <2>5, <3>2
    <3>3. QED
      BY <3>1, <3>2
  <2>6. QED
    BY <2>1, <2>2, <2>3, <2>4, <2>5
<1>15. \A m \in Nodes : m # n => u.nodes[m] = t.nodes[m]
  BY <1>1, <1>5 DEF Table
<1>16. ASSUME NEW d \in Columns, NEW i \in 1 .. Len(u.chains[d])
       PROVE  /\ u.nodes[u.chains[d][i]] \in Item
              /\ Column(u.nodes[u.chains[d][i]][1]) = d
              /\ \A j \in 1 .. Len(u.chains[d]) : u.chains[d][i] = u.chains[d][j] => i = j
  <2>1. CASE d # c
    <3>1. u.chains[d] = t.chains[d]
      BY <1>7, <2>1
    <3>2. t.chains[d][i] # n /\ t.chains[d][i] \in Nodes
      BY <1>12, <1>13, <2>1, <3>1
    <3>3. u.nodes[t.chains[d][i]] = t.nodes[t.chains[d][i]]
      BY <1>15, <3>2
    <3>4. QED
      BY <1>12, <3>1, <3>3
  <2>2. CASE d = c
    <3>1. /\ from(i) \in 1 .. Len(t.chains[c]) /\ from(i) # p
          /\ u.chains[c][i] = t.chains[c][from(i)]
      BY <1>9, <2>2
    <3>2. t.chains[c][from(i)] # n /\ t.chains[c][from(i)] \in Nodes
      BY <1>2, <1>12, <1>13, <3>1
    <3>3. u.nodes[u.chains[c][i]] = t.nodes[t.chains[c][from(i)]]
      BY <1>15, <3>1, <3>2
    <3>4. u.nodes[u.chains[c][i]] \in Item /\ Column(u.nodes[u.chains[c][i]][1]) = c
      BY <1>2, <1>12, <3>1, <3>3, Zenon
    <3>5. \A j \in 1 .. Len(u.chains[c]) : u.chains[c][i] = u.chains[c][j] => i = j
      <4> TAKE j \in 1 .. Len(u.chains[c])
      <4> HAVE u.chains[c][i] = u.chains[c][j]
      <4>1. from(j) \in 1 .. Len(t.chains[c]) /\ t.chains[c][from(i)] = t.chains[c][from(j)]
        BY <1>9, <3>1
      <4>2. from(i) = from(j)
        BY <1>2, <1>12, <3>1, <4>1, Zenon
      <4>3. QED
        BY <1>10, <2>2, <4>2
    <3>6. QED
      BY <2>2, <3>4, <3>5
  <2>3. QED
    BY <2>1, <2>2
<1>17. ChainsOK(u)
  BY <1>16 DEF ChainsOK
<1>18. Chained(u) = Chained(t) \ {n}
  BY <1>14
<1>19. QED
  BY <1>17, <1>18 DEF u, n

LEMMA RemoveFreeOK ==
    ASSUME NEW t, TableOK(t), NEW k \in Key, Exists(t, k)
    PROVE  FreeOK(RemoveKey(t, k)) /\ SizeOK(RemoveKey(t, k))
<1> DEFINE n == NodeOf(t, k)
           u == RemoveKey(t, k)
<1>1. t \in Table /\ FreeOK(t) /\ SizeOK(t)
  BY DEF TableOK
<1>2. n \in Nodes /\ n \in Chained(t) /\ t.size \in Nat /\ t.size >= 1
  BY NodeOfFacts
<1>3. u \in Table /\ u.free = <<n>> \o t.free /\ u.size = t.size - 1
  BY RemoveRest
<1>4. Chained(u) = Chained(t) \ {n}
  BY RemoveChains
<1> HIDE DEF u, n
<1>5. t.free \in Seq(Nodes) /\ u.free \in Seq(Nodes)
  BY <1>1, <1>3 DEF Table
<1>6. /\ Len(u.free) = Len(t.free) + 1 /\ Len(t.free) \in Nat
      /\ u.free[1] = n
      /\ \A i \in 1 .. Len(t.free) : u.free[i + 1] = t.free[i]
      /\ DOMAIN u.free = 1 .. Len(u.free) /\ DOMAIN t.free = 1 .. Len(t.free)
  <2>1. PICK s \in Seq(Nodes) : s = t.free
    BY <1>5
  <2>2. /\ Len(<<n>> \o s) = Len(s) + 1
        /\ (<<n>> \o s)[1] = n
        /\ \A i \in 1 .. Len(s) : (<<n>> \o s)[i + 1] = s[i]
    BY <1>2, Prepended
  <2>3. QED
    BY <1>3, <1>5, <2>1, <2>2
<1>7. \A m : m \in ToSet(t.free) <=> \E i \in 1 .. Len(t.free) : m = t.free[i]
  BY <1>6 DEF ToSet
<1>8. \A m : m \in ToSet(u.free) <=> \E i \in 1 .. Len(u.free) : m = u.free[i]
  BY <1>6 DEF ToSet
<1>9. n \notin ToSet(t.free)
  BY <1>1, <1>2 DEF FreeOK
<1>10. \A i \in 1 .. Len(u.free) :
          \/ i = 1 /\ u.free[i] = n
          \/ i # 1 /\ i - 1 \in 1 .. Len(t.free) /\ u.free[i] = t.free[i - 1]
  <2> TAKE i \in 1 .. Len(u.free)
  <2>1. CASE i = 1
    BY <1>6, <2>1
  <2>2. CASE i # 1
    <3>1. i - 1 \in 1 .. Len(t.free) /\ (i - 1) + 1 = i
      BY <1>6, <2>2
    <3>2. QED
      BY <1>6, <2>2, <3>1
  <2>3. QED
    BY <2>1, <2>2
<1>11. \A i, j \in 1 .. Len(u.free) : u.free[i] = u.free[j] => i = j
  <2> TAKE i, j \in 1 .. Len(u.free)
  <2> HAVE u.free[i] = u.free[j]
  <2>1. CASE i = 1 \/ j = 1
    BY <1>7, <1>9, <1>10, <2>1
  <2>2. CASE i # 1 /\ j # 1
    <3>1. /\ i - 1 \in 1 .. Len(t.free) /\ j - 1 \in 1 .. Len(t.free)
          /\ t.free[i - 1] = t.free[j - 1]
      BY <1>10, <2>2
    <3>2. i - 1 = j - 1
      BY <1>1, <3>1 DEF FreeOK
    <3>3. i \in Int /\ j \in Int
      BY <1>6
    <3>4. QED
      BY <3>2, <3>3
  <2>3. QED
    BY <2>1, <2>2
<1>12. \A m : m \in ToSet(u.free) <=> m = n \/ m \in ToSet(t.free)
  <2> TAKE m
  <2>1. ASSUME m \in ToSet(u.free)
        PROVE  m = n \/ m \in ToSet(t.free)
    <3>1. PICK i \in 1 .. Len(u.free) : m = u.free[i]
      BY <1>8, <2>1
    <3>2. m = n \/ (i - 1 \in 1 .. Len(t.free) /\ m = t.free[i - 1])
      BY <1>10, <3>1
    <3>3. QED
      BY <1>7, <3>2
  <2>2. ASSUME m = n
        PROVE  m \in ToSet(u.free)
    <3>1. 1 \in 1 .. Len(u.free)
      BY <1>6
    <3>2. QED
      BY <1>6, <1>8, <2>2, <3>1
  <2>3. ASSUME m \in ToSet(t.free)
        PROVE  m \in ToSet(u.free)
    <3>1. PICK i \in 1 .. Len(t.free) : m = t.free[i]
      BY <1>7, <2>3
    <3>2. i + 1 \in 1 .. Len(u.free) /\ u.free[i + 1] = m
      BY <1>6, <3>1
    <3>3. QED
      BY <1>8, <3>2
  <2>4. QED
    BY <2>1, <2>2, <2>3
<1>13. FreeOK(u)
  <2>1. \A m \in Nodes : m \in Chained(t) <=> m \notin ToSet(t.free)
    BY <1>1 DEF FreeOK
  <2>2. \A m \in Nodes : m \in Chained(u) <=> m \notin ToSet(u.free)
    BY <1>4, <1>9, <1>12, <2>1
  <2>3. QED
    BY <1>11, <2>2 DEF FreeOK
<1>14. SizeOK(u)
  <2>1. IsFiniteSet(Chained(t))
    BY <1>1, ChainedNodes
  <2>2. Cardinality(Chained(u)) = Cardinality(Chained(t)) - 1
    BY <1>2, <1>4, <2>1, FS_RemoveElement
  <2>3. QED
    BY <1>1, <1>2, <1>3, <1>6, <2>2, HashAssumption DEF SizeOK
<1>15. QED
  BY <1>13, <1>14 DEF u

LEMMA RemoveOK ==
    ASSUME NEW t, TableOK(t), NEW k \in Key, Exists(t, k)
    PROVE  TableOK(RemoveKey(t, k))
<1> DEFINE n == NodeOf(t, k)
           u == RemoveKey(t, k)
           last == (t.indexStart + t.size - 1) % fsize
<1>1. t \in Table /\ SizeOK(t) /\ (t.fIndexValid => Listed(t))
  BY DEF TableOK
<1>2. t.size \in Nat /\ t.size >= 1 /\ t.size <= fsize
  <2>1. Len(t.free) \in Nat
    BY <1>1 DEF Table
  <2>2. QED
    BY <1>1, <2>1, NodeOfFacts, HashAssumption DEF SizeOK
<1>3. u \in Table /\ u.size = t.size - 1 /\ u.indexlist = t.indexlist
  BY RemoveRest
<1>4. /\ t.size > 1 /\ ~t.fIndexValid => u.fIndexValid = FALSE
      /\ t.size > 1 /\ t.fIndexValid /\ n = t.indexlist[t.indexStart] =>
            u.indexStart = (t.indexStart + 1) % fsize
      /\ t.size > 1 /\ t.fIndexValid /\ n # t.indexlist[t.indexStart] =>
            u.fIndexValid = (n = t.indexlist[last]) /\ u.indexStart = t.indexStart
  BY RemoveIndex, Zenon
<1>5. Chained(u) = Chained(t) \ {n} /\ ChainsOK(u) /\ FreeOK(u) /\ SizeOK(u)
  BY RemoveChains, RemoveFreeOK
<1> HIDE DEF n, u
<1>6. ASSUME u.fIndexValid
      PROVE  Listed(u)
  <2>1. CASE t.size = 1
    <3>1. u.size = 0
      BY <1>3, <2>1
    <3>2. PICK w \in Table : w = u
      BY <1>3
    <3>3. IsFiniteSet(Chained(w))
      BY ChainedNodes
    <3>4. Chained(u) = {}
      BY <1>5, <3>1, <3>2, <3>3, FS_EmptySet DEF SizeOK
    <3>5. QED
      BY <3>1, <3>4 DEF Listed
  <2>2. CASE t.size > 1
    <3>1. t.fIndexValid
      BY <1>4, <1>6, <2>2, Zenon
    <3>2. PICK s \in Nodes : s = t.indexStart
      BY <1>1 DEF Table
    <3>3. PICK m \in Nat : m = t.size
      BY <1>2
    <3>4. /\ \A i \in 0 .. m - 1 : Entry(t, i) \in Chained(t)
          /\ \A i, j \in 0 .. m - 1 : Entry(t, i) = Entry(t, j) => i = j
          /\ \A x \in Chained(t) : \E i \in 0 .. m - 1 : Entry(t, i) = x
      BY <1>1, <3>1, <3>3 DEF Listed
    <3>5. CASE n = t.indexlist[t.indexStart]
      <4>1. u.indexStart = (s + 1) % fsize
        BY <1>4, <2>2, <3>1, <3>2, <3>5
      <4>2. \A i \in 0 .. m - 2 : Entry(u, i) = Entry(t, i + 1)
        <5> TAKE i \in 0 .. m - 2
        <5>1. i \in 0 .. fsize - 2
          BY <1>2, <3>3, HashAssumption
        <5>2. (((s + 1) % fsize) + i) % fsize = (s + (i + 1)) % fsize
          BY <5>1, Circle
        <5>3. QED
          BY <1>3, <3>2, <4>1, <5>2 DEF Entry
      <4>3. Entry(t, 0) = n
        BY <3>2, <3>5, Circle DEF Entry
      <4>4. \A i \in 0 .. m - 2 : Entry(u, i) \in Chained(u)
        <5> TAKE i \in 0 .. m - 2
        <5>1. i + 1 \in 0 .. m - 1 /\ 0 \in 0 .. m - 1 /\ i + 1 # 0
          OBVIOUS
        <5>2. Entry(t, i + 1) \in Chained(t) /\ Entry(t, i + 1) # n
          BY <3>4, <4>3, <5>1, Zenon
        <5>3. QED
          BY <1>5, <4>2, <5>2
      <4>5. \A i, j \in 0 .. m - 2 : Entry(u, i) = Entry(u, j) => i = j
        <5> TAKE i, j \in 0 .. m - 2
        <5> HAVE Entry(u, i) = Entry(u, j)
        <5>1. i + 1 \in 0 .. m - 1 /\ j + 1 \in 0 .. m - 1 /\ Entry(t, i + 1) = Entry(t, j + 1)
          BY <4>2
        <5>2. i + 1 = j + 1
          BY <3>4, <5>1, Zenon
        <5>3. QED
          BY <5>2
      <4>6. \A x \in Chained(u) : \E i \in 0 .. m - 2 : Entry(u, i) = x
        <5> TAKE x \in Chained(u)
        <5>1. x \in Chained(t) /\ x # n
          BY <1>5
        <5>2. PICK i \in 0 .. m - 1 : Entry(t, i) = x
          BY <3>4, <5>1
        <5>3. i # 0
          BY <4>3, <5>1, <5>2
        <5>4. i - 1 \in 0 .. m - 2 /\ (i - 1) + 1 = i
          BY <5>3
        <5>5. QED
          BY <4>2, <5>2, <5>4
      <4>7. u.size - 1 = m - 2
        BY <1>3, <3>3
      <4>8. QED
        BY <4>4, <4>5, <4>6, <4>7 DEF Listed
    <3>6. CASE n # t.indexlist[t.indexStart]
      <4>1. u.fIndexValid = (n = t.indexlist[last]) /\ u.indexStart = t.indexStart
        BY <1>4, <2>2, <3>1, <3>6, Zenon
      <4>2. n = t.indexlist[last]
        BY <1>6, <4>1, Zenon
      <4>3. \A i \in 0 .. m - 2 : Entry(u, i) = Entry(t, i)
        BY <1>3, <4>1 DEF Entry
      <4>4. Entry(t, m - 1) = n
        <5>1. t.indexStart + t.size - 1 = t.indexStart + (m - 1)
          BY <3>2, <3>3 DEF Nodes
        <5>2. QED
          BY <4>2, <5>1 DEF Entry
      <4>5. \A i \in 0 .. m - 2 : Entry(u, i) \in Chained(u)
        <5> TAKE i \in 0 .. m - 2
        <5>1. i \in 0 .. m - 1 /\ m - 1 \in 0 .. m - 1 /\ i # m - 1
          BY <2>2, <3>3
        <5>2. Entry(t, i) \in Chained(t) /\ Entry(t, i) # n
          BY <3>4, <4>4, <5>1, Zenon
        <5>3. QED
          BY <1>5, <4>3, <5>2
      <4>6. \A i, j \in 0 .. m - 2 : Entry(u, i) = Entry(u, j) => i = j
        <5> TAKE i, j \in 0 .. m - 2
        <5> HAVE Entry(u, i) = Entry(u, j)
        <5>1. i \in 0 .. m - 1 /\ j \in 0 .. m - 1 /\ Entry(t, i) = Entry(t, j)
          BY <4>3
        <5>2. QED
          BY <3>4, <5>1, Zenon
      <4>7. \A x \in Chained(u) : \E i \in 0 .. m - 2 : Entry(u, i) = x
        <5> TAKE x \in Chained(u)
        <5>1. x \in Chained(t) /\ x # n
          BY <1>5
        <5>2. PICK i \in 0 .. m - 1 : Entry(t, i) = x
          BY <3>4, <5>1
        <5>3. i # m - 1
          BY <4>4, <5>1, <5>2
        <5>4. i \in 0 .. m - 2
          BY <5>3
        <5>5. QED
          BY <4>3, <5>2, <5>4
      <4>8. u.size - 1 = m - 2
        BY <1>3, <3>3
      <4>9. QED
        BY <4>5, <4>6, <4>7, <4>8 DEF Listed
    <3>7. QED
      BY <3>5, <3>6
  <2>3. QED
    BY <1>2, <2>1, <2>2
<1>7. QED
  BY <1>3, <1>5, <1>6 DEF TableOK, u

-----------------------------------------------------------------------------
(* The list is rebuilt                                                     *)
LEMMA SlotFacts ==
    ASSUME NEW t \in Table, ChainsOK(t)
    PROVE  /\ \A s \in Slots(t) : /\ s[1] \in Columns /\ s[2] \in 1 .. Len(t.chains[s[1]])
                                  /\ t.chains[s[1]][s[2]] \in Chained(t)
                                  /\ s = <<s[1], s[2]>>
           /\ \A s, r \in Slots(t) : t.chains[s[1]][s[2]] = t.chains[r[1]][r[2]] => s = r
           /\ \A n \in Chained(t) : \E s \in Slots(t) : t.chains[s[1]][s[2]] = n
           /\ IsFiniteSet(Slots(t)) /\ Cardinality(Slots(t)) = Cardinality(Chained(t))
<1> DEFINE node(s) == t.chains[s[1]][s[2]]
           f == [s \in Slots(t) |-> node(s)]
<1>1. /\ DOMAIN t.chains = Columns
      /\ \A c \in Columns : DOMAIN t.chains[c] = 1 .. Len(t.chains[c])
  BY DEF Table
<1>2. \A s : s \in Slots(t) <=> \E c \in Columns : s \in {c} \X DOMAIN t.chains[c]
  BY <1>1, Zenon DEF Slots
<1>3. \A c, i : c \in Columns /\ i \in 1 .. Len(t.chains[c]) => <<c, i>> \in Slots(t)
  BY <1>1, <1>2
<1>4. \A s \in Slots(t) : /\ s[1] \in Columns /\ s[2] \in 1 .. Len(t.chains[s[1]])
                          /\ s = <<s[1], s[2]>>
  <2> TAKE s \in Slots(t)
  <2>1. PICK c \in Columns : s \in {c} \X DOMAIN t.chains[c]
    BY <1>2
  <2>2. s[1] = c /\ s[2] \in DOMAIN t.chains[c] /\ s = <<s[1], s[2]>>
    BY <2>1
  <2>3. QED
    BY <1>1, <2>1, <2>2
<1>5. \A s \in Slots(t) : node(s) \in Chained(t)
  BY <1>4, ChainedNodes
<1>6. \A s, r \in Slots(t) : node(s) = node(r) => s = r
  <2> TAKE s, r \in Slots(t)
  <2> HAVE node(s) = node(r)
  <2>1. /\ Column(t.nodes[node(s)][1]) = s[1] /\ Column(t.nodes[node(r)][1]) = r[1]
        /\ \A j \in 1 .. Len(t.chains[s[1]]) : node(s) = t.chains[s[1]][j] => s[2] = j
    BY <1>4 DEF ChainsOK
  <2>2. s[1] = r[1]
    BY <2>1
  <2>3. s[2] = r[2]
    BY <1>4, <2>1, <2>2
  <2>4. QED
    BY <1>4, <2>2, <2>3
<1>7. \A n \in Chained(t) : \E s \in Slots(t) : node(s) = n
  <2> TAKE n \in Chained(t)
  <2>1. PICK c \in Columns : \E i \in 1 .. Len(t.chains[c]) : n = t.chains[c][i]
    BY ChainedNodes
  <2>2. PICK i \in 1 .. Len(t.chains[c]) : n = t.chains[c][i]
    BY <2>1
  <2>3. <<c, i>> \in Slots(t) /\ node(<<c, i>>) = n
    BY <1>3, <2>2
  <2>4. QED
    BY <2>3
<1>8. f \in Injection(Slots(t), Chained(t)) /\ f \in Surjection(Slots(t), Chained(t))
  <2> HIDE DEF node
  <2>1. f \in [Slots(t) -> Chained(t)]
    BY <1>5
  <2>2. QED
    BY <1>6, <1>7, <2>1 DEF Injection, Surjection, IsInjective
<1>9. IsFiniteSet(Slots(t)) /\ Cardinality(Slots(t)) = Cardinality(Chained(t))
  <2> HIDE DEF f
  <2>1. IsFiniteSet(Chained(t))
    BY ChainedNodes
  <2>2. QED
    BY <1>8, <2>1, FS_Injection
<1>10. QED
  BY <1>4, <1>5, <1>6, <1>7, <1>9

LEMMA AheadFacts ==
    ASSUME NEW t \in Table, ChainsOK(t)
    PROVE  /\ \A s \in Slots(t) : Cardinality(Ahead(t, s)) \in 0 .. Cardinality(Chained(t)) - 1
           /\ \A s, r \in Slots(t) :
                 Cardinality(Ahead(t, s)) = Cardinality(Ahead(t, r)) => s = r
           /\ \A i \in 0 .. Cardinality(Chained(t)) - 1 :
                 \E s \in Slots(t) : Cardinality(Ahead(t, s)) = i
<1> DEFINE B == [s \in Slots(t) |-> Ahead(t, s)]
<1>1. \A s \in Slots(t) : s[1] \in Int /\ s[2] \in Int /\ s = <<s[1], s[2]>>
  <2> TAKE s \in Slots(t)
  <2>1. s[1] \in Columns /\ s[2] \in 1 .. Len(t.chains[s[1]]) /\ s = <<s[1], s[2]>>
    BY SlotFacts
  <2>2. QED
    BY <2>1 DEF Columns
<1>2. \A s, r \in Slots(t) : r \in Ahead(t, s) <=> r[1] < s[1] \/ (r[1] = s[1] /\ r[2] < s[2])
  BY DEF Ahead
<1>3. \A s \in Slots(t) : Ahead(t, s) \in SUBSET Slots(t)
  BY DEF Ahead
<1>4. \A s \in Slots(t) : s \notin Ahead(t, s)
  BY <1>1, <1>2
<1>5. \A s, r \in Slots(t) : s # r => s \in Ahead(t, r) \/ r \in Ahead(t, s)
  <2> TAKE s, r \in Slots(t)
  <2> HAVE s # r
  <2>1. s[1] # r[1] \/ s[2] # r[2]
    BY <1>1
  <2>2. QED
    BY <1>1, <1>2, <2>1
<1>6. \A s, r \in Slots(t) : s \in Ahead(t, r) => Ahead(t, s) \subseteq Ahead(t, r)
  <2> TAKE s, r \in Slots(t)
  <2> HAVE s \in Ahead(t, r)
  <2>1. ASSUME NEW x \in Ahead(t, s)
        PROVE  x \in Ahead(t, r)
    <3>1. x \in Slots(t)
      BY <1>3, <2>1
    <3>2. QED
      BY <1>1, <1>2, <2>1, <3>1
  <2>2. QED
    BY <2>1
<1>7. /\ \A s \in Slots(t) : Cardinality(B[s]) \in 0 .. Cardinality(Slots(t)) - 1
      /\ \A s, r \in Slots(t) : Cardinality(B[s]) = Cardinality(B[r]) => s = r
      /\ \A i \in 0 .. Cardinality(Slots(t)) - 1 : \E s \in Slots(t) : Cardinality(B[s]) = i
  <2>1. /\ B \in [Slots(t) -> SUBSET Slots(t)]
        /\ \A x \in Slots(t) : B[x] = Ahead(t, x)
    BY <1>3
  <2> HIDE DEF B
  <2>2. /\ \A x \in Slots(t) : x \notin B[x]
        /\ \A x, y \in Slots(t) : x # y => x \in B[y] \/ y \in B[x]
        /\ \A x, y \in Slots(t) : x \in B[y] => B[x] \subseteq B[y]
    BY <1>4, <1>5, <1>6, <2>1
  <2>3. IsFiniteSet(Slots(t))
    BY SlotFacts
  <2>4. QED
    BY <2>1, <2>2, <2>3, Ranks
<1>8. QED
  BY <1>7, SlotFacts

LEMMA IndexedOK ==
    ASSUME NEW t, TableOK(t)
    PROVE  TableOK(Indexed(t)) /\ Indexed(t).fIndexValid /\ Chained(Indexed(t)) = Chained(t)
<1> DEFINE at(i)   == {s \in Slots(t) : Cardinality(Ahead(t, s)) = i}
           node(s) == t.chains[s[1]][s[2]]
           list == [i \in Nodes |-> IF at(i) = {} THEN t.indexlist[i]
                                    ELSE node(CHOOSE s \in at(i) : TRUE)]
<1>1. t \in Table /\ ChainsOK(t) /\ FreeOK(t) /\ SizeOK(t)
  BY DEF TableOK
<1>2. CASE t.fIndexValid
  BY <1>2, Zenon DEF Indexed
<1>3. CASE ~t.fIndexValid
  <2>1. Indexed(t) = [t EXCEPT !.indexlist = list, !.fIndexValid = TRUE, !.indexStart = 0]
    BY <1>3 DEF Indexed, ReIndex
  <2>2. /\ \A s \in Slots(t) : node(s) \in Chained(t)
        /\ \A s, r \in Slots(t) : node(s) = node(r) => s = r
        /\ \A n \in Chained(t) : \E s \in Slots(t) : node(s) = n
    BY <1>1, SlotFacts
  <2>3. /\ \A s \in Slots(t) : Cardinality(Ahead(t, s)) \in 0 .. t.size - 1
        /\ \A s, r \in Slots(t) : Cardinality(Ahead(t, s)) = Cardinality(Ahead(t, r)) => s = r
        /\ \A i \in 0 .. t.size - 1 : \E s \in Slots(t) : Cardinality(Ahead(t, s)) = i
    BY <1>1, AheadFacts DEF SizeOK
  <2>4. Chained(t) \subseteq Nodes
    BY <1>1, ChainedNodes
  <2> HIDE DEF node
  <2>5. list \in [Nodes -> Nodes]
    <3> SUFFICES ASSUME NEW i \in Nodes
                 PROVE  list[i] \in Nodes
      OBVIOUS
    <3>1. CASE at(i) = {}
      BY <1>1, <3>1 DEF Table
    <3>2. CASE at(i) # {}
      <4>1. (CHOOSE s \in at(i) : TRUE) \in Slots(t)
        BY <3>2
      <4>2. QED
        BY <2>2, <2>4, <3>2, <4>1
    <3>3. QED
      BY <3>1, <3>2
  <2>6. \A s \in Slots(t) : list[Cardinality(Ahead(t, s))] = node(s)
    <3> TAKE s \in Slots(t)
    <3>1. PICK i : i = Cardinality(Ahead(t, s))
      OBVIOUS
    <3>2. i \in Nodes
      <4>1. t.size \in Nat /\ Len(t.free) \in Nat /\ t.size + Len(t.free) = fsize
        BY <1>1 DEF Table, SizeOK
      <4>2. i \in 0 .. t.size - 1
        BY <2>3, <3>1
      <4>3. QED
        BY <4>1, <4>2, HashAssumption DEF Nodes
    <3>3. s \in at(i) /\ \A r \in at(i) : r = s
      BY <2>3, <3>1
    <3>4. (CHOOSE r \in at(i) : TRUE) = s /\ at(i) # {}
      BY <3>3
    <3> HIDE DEF at
    <3>5. list[i] = node(s)
      BY <3>2, <3>4
    <3>6. QED
      BY <3>1, <3>5
  <2>7. 0 \in Nodes
    BY HashAssumption DEF Nodes
  <2> HIDE DEF list
  <2> DEFINE u == Indexed(t)
  <2>8. /\ u \in Table /\ u.chains = t.chains /\ u.free = t.free /\ u.nodes = t.nodes
        /\ u.size = t.size /\ u.fIndexValid = TRUE /\ u.indexStart = 0
        /\ u.indexlist = list
    BY <1>1, <2>1, <2>5, <2>7 DEF Table
  <2> HIDE DEF u
  <2>9. Chained(u) = Chained(t)
    BY <2>8 DEF Chained
  <2>10. ChainsOK(u) /\ FreeOK(u) /\ SizeOK(u)
    BY <1>1, <2>8, <2>9 DEF ChainsOK, FreeOK, SizeOK
  <2>11. \A i \in 0 .. t.size - 1 : Entry(u, i) = list[i]
    <3> TAKE i \in 0 .. t.size - 1
    <3>1. t.size \in Nat /\ Len(t.free) \in Nat /\ t.size + Len(t.free) = fsize
      BY <1>1 DEF Table, SizeOK
    <3>2. PICK m \in Nat \ {0} : m = fsize
      BY HashAssumption
    <3>3. (0 + i) % m = i
      BY <3>1, <3>2
    <3>4. QED
      BY <2>8, <3>2, <3>3 DEF Entry
  <2>12. Listed(u)
    <3>1. \A i \in 0 .. t.size - 1 : Entry(u, i) \in Chained(t)
      BY <2>2, <2>3, <2>6, <2>11
    <3>2. \A i, j \in 0 .. t.size - 1 : Entry(u, i) = Entry(u, j) => i = j
      <4> TAKE i, j \in 0 .. t.size - 1
      <4> HAVE Entry(u, i) = Entry(u, j)
      <4>1. PICK s \in Slots(t) : Cardinality(Ahead(t, s)) = i
        BY <2>3
      <4>2. PICK r \in Slots(t) : Cardinality(Ahead(t, r)) = j
        BY <2>3
      <4>3. node(s) = node(r)
        BY <2>6, <2>11, <4>1, <4>2
      <4>4. QED
        BY <2>2, <4>1, <4>2, <4>3
    <3>3. \A n \in Chained(t) : \E i \in 0 .. t.size - 1 : Entry(u, i) = n
      BY <2>2, <2>3, <2>6, <2>11
    <3>4. QED
      BY <2>8, <2>9, <3>1, <3>2, <3>3 DEF Listed
  <2>13. u.fIndexValid
    BY <2>8, Zenon
  <2>14. QED
    BY <2>8, <2>9, <2>10, <2>12, <2>13 DEF TableOK, u
<1>4. QED
  BY <1>2, <1>3

-----------------------------------------------------------------------------
(* A caller writes a value                                                 *)
LEMMA SetValueOK ==
    ASSUME NEW t, TableOK(t), NEW k \in Key, Exists(t, k), NEW v \in Val
    PROVE  LET u == SetValue(t, k, v)
           IN  /\ TableOK(u) /\ u.size = t.size /\ u.chains = t.chains /\ u.free = t.free
               /\ Chained(u) = Chained(t)
               /\ \A m \in Nodes :
                     u.nodes[m] = IF m = NodeOf(t, k) THEN <<k, v>> ELSE t.nodes[m]
<1> DEFINE n == NodeOf(t, k)
           u == SetValue(t, k, v)
<1>1. /\ t \in Table /\ ChainsOK(t) /\ FreeOK(t) /\ SizeOK(t)
      /\ (t.fIndexValid => Listed(t))
  BY DEF TableOK
<1>2. n \in Nodes /\ t.nodes[n] \in Item /\ t.nodes[n][1] = k /\ <<k, v>> \in Item
  BY NodeOfFacts DEF Item
<1>3. PICK g \in [Nodes -> Item \cup {<<>>}] : g = [t.nodes EXCEPT ![n] = <<k, v>>]
  BY <1>1, <1>2 DEF Table
<1>4. u = [t EXCEPT !.nodes = g]
  BY <1>1, <1>3 DEF SetValue, Table
<1> HIDE DEF u, n
<1>5. /\ u \in Table /\ u.chains = t.chains /\ u.free = t.free /\ u.nodes = g
      /\ u.size = t.size /\ u.indexStart = t.indexStart /\ u.indexlist = t.indexlist
  BY <1>1, <1>4 DEF Table
<1>6. u.fIndexValid = t.fIndexValid
  BY <1>1, <1>4 DEF Table
<1>7. Chained(u) = Chained(t)
  BY <1>5 DEF Chained
<1>8. ChainsOK(u)
  <2>1. \A m \in Nodes : g[m] = IF m = n THEN <<k, v>> ELSE t.nodes[m]
    BY <1>1, <1>3 DEF Table
  <2>2. \A m \in Nodes : t.nodes[m] \in Item => g[m] \in Item /\ g[m][1] = t.nodes[m][1]
    BY <1>2, <2>1
  <2> SUFFICES ASSUME NEW c \in Columns, NEW i \in 1 .. Len(t.chains[c])
               PROVE  /\ g[t.chains[c][i]] \in Item
                      /\ Column(g[t.chains[c][i]][1]) = c
                      /\ \A j \in 1 .. Len(t.chains[c]) :
                            t.chains[c][i] = t.chains[c][j] => i = j
    BY <1>5 DEF ChainsOK
  <2>3. t.chains[c][i] \in Nodes
    BY <1>1 DEF Table
  <2>4. QED
    BY <1>1, <2>2, <2>3 DEF ChainsOK
<1>9. FreeOK(u) /\ SizeOK(u)
  BY <1>1, <1>5, <1>7 DEF FreeOK, SizeOK
<1>10. Listed(t) => Listed(u)
  BY <1>5, <1>7 DEF Listed, Entry
<1>11. TableOK(u)
  <2>1. u.fIndexValid => Listed(u)
    BY <1>1, <1>6, <1>10, Zenon
  <2>2. QED
    BY <1>5, <1>8, <1>9, <2>1 DEF TableOK
<1>12. \A m \in Nodes : u.nodes[m] = IF m = n THEN <<k, v>> ELSE t.nodes[m]
  BY <1>1, <1>3, <1>5 DEF Table
<1>13. QED
  BY <1>5, <1>7, <1>11, <1>12 DEF u, n

LEMMA SetValueChained ==
    ASSUME NEW t, TableOK(t), NEW k \in Key, Exists(t, k), NEW v \in Val
    PROVE  Chained(SetValue(t, k, v)) = Chained(t)
BY SetValueOK

-----------------------------------------------------------------------------
(* What a table in order shows                                             *)
LEMMA TableShows ==
    ASSUME NEW t, TableOK(t)
    PROVE  {NodeByIndex(t, i) : i \in 0 .. t.size - 1} = Chained(t)
<1>1. TableOK(Indexed(t)) /\ Indexed(t).fIndexValid /\ Chained(Indexed(t)) = Chained(t)
  BY IndexedOK
<1>2. Indexed(t).size = t.size
  BY <1>1 DEF TableOK, SizeOK
<1>3. PICK u : u = Indexed(t)
  OBVIOUS
<1>4. Listed(u) /\ Chained(u) = Chained(t) /\ u.size = t.size
  BY <1>1, <1>2, <1>3 DEF TableOK
<1>5. \A i : NodeByIndex(t, i) = Entry(u, i)
  BY <1>3 DEF NodeByIndex, Entry
<1>6. {NodeByIndex(t, i) : i \in 0 .. t.size - 1} = {Entry(u, i) : i \in 0 .. t.size - 1}
  BY <1>5, Zenon
<1>7. \A n : n \in {Entry(u, i) : i \in 0 .. t.size - 1} <=> n \in Chained(t)
  <2>1. /\ \A i \in 0 .. t.size - 1 : Entry(u, i) \in Chained(t)
        /\ \A n \in Chained(t) : \E i \in 0 .. t.size - 1 : Entry(u, i) = n
    BY <1>4 DEF Listed
  <2>2. QED
    BY <2>1, Zenon
<1>8. QED
  BY <1>6, <1>7, Zenon

LEMMA TableInOrder ==
    ASSUME TableOK(table)
    PROVE  HashTypeOK /\ IndexShowsEveryItem
<1>1. /\ table \in Table /\ ChainsOK(table) /\ FreeOK(table) /\ SizeOK(table)
  BY DEF TableOK
<1>2. IndexShowsEveryItem
  BY TableShows DEF IndexShowsEveryItem
<1>3. \A c \in Columns : \A i \in DOMAIN table.chains[c] :
          /\ table.nodes[table.chains[c][i]] \in Key \X Val
          /\ Column(table.nodes[table.chains[c][i]][1]) = c
  <2> TAKE c \in Columns
  <2>1. DOMAIN table.chains[c] = 1 .. Len(table.chains[c])
    BY <1>1 DEF Table
  <2>2. QED
    BY <1>1, <2>1 DEF ChainsOK, Item
<1>4. Chained(table) \cup ToSet(table.free) = Nodes
  <2>1. Chained(table) \subseteq Nodes
    BY <1>1, ChainedNodes
  <2>2. ToSet(table.free) \subseteq Nodes
    BY <1>1 DEF Table, ToSet
  <2>3. QED
    BY <1>1, <2>1, <2>2 DEF FreeOK
<1>5. table.free \in Seq(Nodes) /\ table.indexStart \in Nodes
  BY <1>1 DEF Table
<1>6. QED
  BY <1>1, <1>2, <1>3, <1>4, <1>5 DEF HashTypeOK, Columns, SizeOK

LEMMA OnlyItem ==
    ASSUME NEW t, TableOK(t), NEW n \in Chained(t),
           \A m \in Chained(t) : t.nodes[m][1] = t.nodes[n][1] => m = n
    PROVE  /\ t.nodes[n] \in Item
           /\ Exists(t, t.nodes[n][1])
           /\ NodeOf(t, t.nodes[n][1]) = n
           /\ Lookup(t, t.nodes[n][1]) = t.nodes[n][2]
<1> DEFINE k == t.nodes[n][1]
<1>1. t \in Table /\ ChainsOK(t)
  BY DEF TableOK
<1>2. PICK c \in Columns : \E i \in 1 .. Len(t.chains[c]) : n = t.chains[c][i]
  BY <1>1, ChainedNodes
<1>3. PICK i \in 1 .. Len(t.chains[c]) : n = t.chains[c][i]
  BY <1>2
<1>4. t.nodes[n] \in Item /\ Column(k) = c
  BY <1>1, <1>3 DEF ChainsOK
<1>5. k \in Key
  BY <1>4 DEF Item
<1>6. Exists(t, k)
  BY <1>1, <1>3, <1>4, <1>5, FindFacts
<1>7. NodeOf(t, k) \in Chained(t) /\ t.nodes[NodeOf(t, k)][1] = k
  BY <1>5, <1>6, NodeOfFacts
<1>8. NodeOf(t, k) = n
  BY <1>7
<1>9. QED
  BY <1>4, <1>6, <1>8 DEF Lookup

-----------------------------------------------------------------------------
(* The polling objects                                                     *)
FdEntry == [fd : Key, events : SUBSET Flags, ready : BOOLEAN]

(* The vector and the table, as maps between sockets and places            *)
InStep(t, list) ==
    /\ t.size = Len(list)
    /\ \A i \in 1 .. Len(list) : \E n \in Chained(t) : t.nodes[n] = <<list[i].fd, i - 1>>
    /\ \A n \in Chained(t) :
          t.nodes[n][2] \in 0 .. Len(list) - 1 /\ list[t.nodes[n][2] + 1].fd = t.nodes[n][1]
    /\ \A n, m \in Chained(t) : t.nodes[n][1] = t.nodes[m][1] => n = m

PollInv ==
    /\ fds \in Seq(FdEntry) /\ Len(fds) <= fsize
    /\ rotation \in Nat /\ unreadcount \in 0 .. fsize /\ orphans \in Nat
    /\ fInitialized \in BOOLEAN
    /\ fInitialized => InStep(table, fds) /\ CountIsExact
    /\ ~fInitialized => fds = <<>>

EpollInv ==
    /\ ready \subseteq Sockets /\ events \in Seq(Sockets) /\ currentEventIndex \in Nat
    /\ ActivityAwaitsReport

PollingInv ==
    /\ TableOK(table) /\ PollInv /\ EpollInv
    /\ user # "CPoll" => ~fInitialized

-----------------------------------------------------------------------------
(* The vector                                                              *)
LEMMA FdFacts ==
    ASSUME fds \in Seq(FdEntry)
    PROVE  /\ Len(fds) \in Nat /\ DOMAIN fds = 1 .. Len(fds)
           /\ \A i \in 1 .. Len(fds) : fds[i].fd \in Key /\ fds[i].events \in SUBSET Flags
                                       /\ fds[i].ready \in BOOLEAN
<1>1. Len(fds) \in Nat /\ DOMAIN fds = 1 .. Len(fds) /\ \A i \in 1 .. Len(fds) : fds[i] \in FdEntry
  OBVIOUS
<1>2. \A e \in FdEntry : e.fd \in Key /\ e.events \in SUBSET Flags /\ e.ready \in BOOLEAN
  BY Zenon DEF FdEntry
<1>3. QED
  BY <1>1, <1>2, Zenon

LEMMA PendingFacts ==
    ASSUME NEW list \in Seq(FdEntry)
    PROVE  /\ Pending(list) = {i \in 1 .. Len(list) : list[i].ready}
           /\ IsFiniteSet(Pending(list))
           /\ Cardinality(Pending(list)) \in 0 .. Len(list)
<1>1. DOMAIN list = 1 .. Len(list) /\ Len(list) \in Nat
  OBVIOUS
<1>2. Pending(list) = {i \in 1 .. Len(list) : list[i].ready}
  BY <1>1 DEF Pending
<1>3. IsFiniteSet(1 .. Len(list)) /\ Cardinality(1 .. Len(list)) = Len(list)
  BY <1>1, FS_Interval
<1>4. Pending(list) \in SUBSET (1 .. Len(list))
  BY <1>2
<1>5. IsFiniteSet(Pending(list)) /\ Cardinality(Pending(list)) <= Len(list)
  BY <1>3, <1>4, FS_Subset
<1>6. Cardinality(Pending(list)) \in Nat
  BY <1>5, FS_CardinalityType
<1>7. QED
  BY <1>1, <1>2, <1>5, <1>6

(* A scan finds a report when there is one                                 *)
LEMMA NextSlotIsPending ==
    ASSUME NEW list \in Seq(FdEntry), rotation \in Nat, Pending(list) # {}
    PROVE  NextSlot(list) \in Pending(list)
<1> DEFINE slot(i) == ((i + Start(list)) % Len(list)) + 1
           I == {i \in 0 .. Len(list) - 1 : slot(i) \in Pending(list)}
<1>1. Pending(list) = {i \in 1 .. Len(list) : list[i].ready} /\ Len(list) \in Nat
  BY PendingFacts
<1>2. PICK s \in 1 .. Len(list) : s \in Pending(list)
  BY <1>1
<1>3. PICK m \in Nat \ {0} : m = Len(list)
  BY <1>1, <1>2
<1>4. PICK r \in 0 .. m - 1 : r = Start(list)
  BY <1>1, <1>3 DEF Start
<1>5. PICK i \in 0 .. m - 1 : \/ s - 1 >= r /\ i + r = s - 1
                              \/ s - 1 < r /\ i + r = s - 1 + m
  <2>1. s \in 1 .. m
    BY <1>3
  <2>2. CASE s - 1 >= r
    <3>1. PICK x \in Int : x = s - 1 - r
      OBVIOUS
    <3>2. x \in 0 .. m - 1 /\ x + r = s - 1
      BY <2>1, <2>2, <3>1
    <3>3. QED
      BY <2>2, <3>2, Zenon
  <2>3. CASE s - 1 < r
    <3>1. PICK x \in Int : x = s - 1 - r + m
      OBVIOUS
    <3>2. x \in 0 .. m - 1 /\ x + r = s - 1 + m
      BY <2>1, <2>3, <3>1
    <3>3. QED
      BY <2>3, <3>2
  <2>4. QED
    BY <2>1, <2>2, <2>3
<1>6. (i + r) % m = s - 1
  <2>1. PICK e \in Nat : e = i + r
    OBVIOUS
  <2>2. e < 2 * m
    BY <2>1
  <2>3. e % m = IF e < m THEN e ELSE e - m
    BY <2>2, Wraps
  <2>4. s \in 1 .. m
    BY <1>3
  <2>5. QED
    BY <1>5, <2>1, <2>3, <2>4
<1>7. slot(i) = s
  BY <1>2, <1>3, <1>4, <1>6
<1>8. I # {}
  BY <1>2, <1>3, <1>7
<1>9. I \subseteq Nat
  BY <1>1
<1>10. PICK x \in I : \A y \in I : x <= y
  <2> HIDE DEF I
  <2>1. QED
    BY <1>8, <1>9, LeastOf
<1>11. /\ x \in 0 .. Len(list) - 1 /\ slot(x) \in Pending(list)
       /\ \A j \in 0 .. x - 1 : slot(j) \notin Pending(list)
  <2>1. x \in 0 .. Len(list) - 1 /\ slot(x) \in Pending(list)
    BY <1>10
  <2>2. ASSUME NEW j \in 0 .. x - 1, slot(j) \in Pending(list)
        PROVE  FALSE
    <3>1. j \in I
      BY <1>1, <2>1, <2>2
    <3>2. x <= j
      BY <1>10, <3>1
    <3>3. QED
      BY <2>1, <3>2
  <2>3. QED
    BY <2>1, <2>2
<1>12. NextSlot(list) = slot(CHOOSE j \in 0 .. Len(list) - 1 :
                               /\ slot(j) \in Pending(list)
                               /\ \A h \in 0 .. j - 1 : slot(h) \notin Pending(list))
  BY DEF NextSlot
<1> HIDE DEF slot
<1>13. QED
  BY <1>11, <1>12

-----------------------------------------------------------------------------
(* Entries may be read and their reports change; the table stays in step   *)
LEMMA SameSockets ==
    ASSUME NEW t, NEW list \in Seq(FdEntry), NEW other \in Seq(FdEntry), InStep(t, list),
           Len(other) = Len(list), \A i \in 1 .. Len(list) : other[i].fd = list[i].fd
    PROVE  InStep(t, other)
<1>1. t.size = Len(other) /\ \A n, m \in Chained(t) : t.nodes[n][1] = t.nodes[m][1] => n = m
  BY DEF InStep
<1>2. \A i \in 1 .. Len(other) : \E n \in Chained(t) : t.nodes[n] = <<other[i].fd, i - 1>>
  BY DEF InStep
<1>3. \A n \in Chained(t) :
         t.nodes[n][2] \in 0 .. Len(other) - 1 /\ other[t.nodes[n][2] + 1].fd = t.nodes[n][1]
  <2> TAKE n \in Chained(t)
  <2>1. PICK p : p = t.nodes[n][2]
    OBVIOUS
  <2>2. p \in 0 .. Len(list) - 1 /\ list[p + 1].fd = t.nodes[n][1]
    BY <2>1 DEF InStep
  <2>3. p + 1 \in 1 .. Len(list)
    BY <2>2
  <2>4. QED
    BY <2>1, <2>2, <2>3
<1>4. QED
  BY <1>1, <1>2, <1>3 DEF InStep

(* The socket a caller names                                               *)
LEMMA Named ==
    ASSUME NEW t, TableOK(t), NEW list \in Seq(FdEntry), InStep(t, list),
           NEW fd \in Key, Exists(t, fd)
    PROVE  /\ NodeOf(t, fd) \in Chained(t)
           /\ t.nodes[NodeOf(t, fd)] = <<fd, Lookup(t, fd)>>
           /\ Lookup(t, fd) \in 0 .. Len(list) - 1
           /\ list[Lookup(t, fd) + 1].fd = fd
<1>1. /\ NodeOf(t, fd) \in Chained(t)
      /\ t.nodes[NodeOf(t, fd)] \in Item
      /\ t.nodes[NodeOf(t, fd)][1] = fd
  BY NodeOfFacts
<1>2. Lookup(t, fd) = t.nodes[NodeOf(t, fd)][2]
  BY DEF Lookup
<1>3. t.nodes[NodeOf(t, fd)] = <<fd, Lookup(t, fd)>>
  BY <1>1, <1>2 DEF Item
<1>4. QED
  BY <1>1, <1>2, <1>3 DEF InStep

LEMMA AddInStep ==
    ASSUME NEW t, TableOK(t), NEW list \in Seq(FdEntry), InStep(t, list),
           NEW e \in FdEntry, ~Exists(t, e.fd), ~Full(t)
    PROVE  /\ TableOK(InsertKey(t, e.fd, Len(list)))
           /\ InStep(InsertKey(t, e.fd, Len(list)), Append(list, e))
           /\ Len(list) < fsize
<1> DEFINE u == InsertKey(t, e.fd, Len(list))
           n == Head(t.free)
           longer == Append(list, e)
<1>1. t \in Table /\ SizeOK(t) /\ t.size = Len(list) /\ Len(list) \in Nat
  BY DEF TableOK, InStep
<1>2. t.size < fsize
  <2>1. Len(t.free) > 0
    BY <1>1 DEF Table, Full
  <2>2. QED
    BY <1>1, <2>1, HashAssumption DEF SizeOK
<1>3. Len(list) \in Val
  BY <1>1, <1>2, PollAssumption, HashAssumption
<1>4. e.fd \in Key
  BY DEF FdEntry
<1>5. TableOK(u)
  BY <1>3, <1>4, InsertOK
<1>6. n \in Nodes /\ u.size = t.size + 1
  <2>1. u.size = t.size + 1
    <3>1. t \in Table /\ SizeOK(t)
      BY <1>1
    <3>2. QED
      BY <1>3, <1>4, <3>1, InsertRest
  <2>2. n \in Nodes
    <3>1. t \in Table /\ SizeOK(t)
      BY <1>1
    <3>2. QED
      BY <1>3, <1>4, <3>1, InsertRest
  <2>3. QED
    BY <2>1, <2>2
<1>7. u.nodes = [t.nodes EXCEPT ![n] = <<e.fd, Len(list)>>]
  <2>1. t \in Table /\ SizeOK(t)
    BY <1>1
  <2>2. Inserted(t, e.fd, Len(list), n, u)
    BY <1>3, <1>4, <2>1, InsertFields
  <2> HIDE DEF u, n
  <2>3. QED
    BY <2>2 DEF Inserted
<1>8. Chained(u) = Chained(t) \cup {n} /\ n \notin Chained(t)
  BY <1>3, <1>4, InsertChained
<1> HIDE DEF n, u
<1>9. /\ u.nodes[n] = <<e.fd, Len(list)>>
      /\ \A m \in Chained(t) : u.nodes[m] = t.nodes[m]
  <2>1. Chained(t) \subseteq Nodes /\ t.nodes \in [Nodes -> Item \cup {<<>>}]
    BY <1>1, ChainedNodes DEF Table
  <2>2. QED
    BY <1>6, <1>7, <1>8, <2>1
<1>10. /\ Len(longer) = Len(list) + 1 /\ longer[Len(list) + 1] = e
       /\ \A i \in 1 .. Len(list) : longer[i] = list[i]
  OBVIOUS
<1> HIDE DEF longer
<1>11. \A i \in 1 .. Len(longer) : \E m \in Chained(u) : u.nodes[m] = <<longer[i].fd, i - 1>>
  <2> TAKE i \in 1 .. Len(longer)
  <2>1. CASE i = Len(list) + 1
    BY <1>1, <1>8, <1>9, <1>10, <2>1
  <2>2. CASE i # Len(list) + 1
    <3>1. i \in 1 .. Len(list)
      BY <1>1, <1>10, <2>2
    <3>2. PICK m \in Chained(t) : t.nodes[m] = <<list[i].fd, i - 1>>
      BY <3>1 DEF InStep
    <3>3. QED
      BY <1>8, <1>9, <1>10, <3>1, <3>2
  <2>3. QED
    BY <2>1, <2>2
<1>12. \A m \in Chained(u) : u.nodes[m][2] \in 0 .. Len(longer) - 1
                             /\ longer[u.nodes[m][2] + 1].fd = u.nodes[m][1]
  <2> TAKE m \in Chained(u)
  <2>1. CASE m = n
    <3>1. u.nodes[m][1] = e.fd /\ u.nodes[m][2] = Len(list)
      BY <1>9, <2>1
    <3>2. QED
      BY <1>1, <1>10, <3>1
  <2>2. CASE m # n
    <3>1. m \in Chained(t) /\ u.nodes[m] = t.nodes[m]
      BY <1>8, <1>9, <2>2
    <3>2. PICK p : p = t.nodes[m][2]
      OBVIOUS
    <3>3. p \in 0 .. Len(list) - 1 /\ list[p + 1].fd = t.nodes[m][1]
      BY <3>1, <3>2 DEF InStep
    <3>4. p + 1 \in 1 .. Len(list) /\ p \in 0 .. Len(longer) - 1
      BY <1>10, <3>3
    <3>5. QED
      BY <1>10, <3>1, <3>2, <3>3, <3>4
  <2>3. QED
    BY <2>1, <2>2
<1>13. \A m \in Chained(t) : t.nodes[m][1] # e.fd
  <2> TAKE m \in Chained(t)
  <2>1. Exists(t, t.nodes[m][1])
    BY OnlyItem DEF InStep
  <2>2. QED
    BY <2>1
<1>14. \A m, l \in Chained(u) : u.nodes[m][1] = u.nodes[l][1] => m = l
  <2>1. \A m, l \in Chained(t) : t.nodes[m][1] = t.nodes[l][1] => m = l
    BY DEF InStep
  <2>2. u.nodes[n][1] = e.fd
    BY <1>9
  <2>3. \A m \in Chained(u) : \/ m = n
                              \/ m \in Chained(t) /\ u.nodes[m][1] = t.nodes[m][1]
    BY <1>8, <1>9
  <2>4. QED
    BY <1>13, <2>1, <2>2, <2>3, Zenon
<1>15. InStep(u, longer)
  BY <1>1, <1>6, <1>10, <1>11, <1>12, <1>14 DEF InStep
<1>16. QED
  BY <1>1, <1>2, <1>5, <1>15 DEF u, longer

(* The last entry moves to the place of the one that goes                  *)
LEMMA RemoveInStep ==
    ASSUME NEW t, TableOK(t), NEW list \in Seq(FdEntry), InStep(t, list),
           NEW fd \in Key, Exists(t, fd), NEW pos, pos = Lookup(t, fd),
           NEW less \in Seq(FdEntry), Len(less) = Len(list) - 1,
           \A i \in 1 .. Len(less) :
               less[i] = IF i = pos + 1 THEN list[Len(list)] ELSE list[i]
    PROVE  LET last == list[Len(list)].fd
               u    == RemoveKey(IF pos = Len(list) - 1 THEN t ELSE SetValue(t, last, pos), fd)
           IN  TableOK(u) /\ InStep(u, less)
<1> DEFINE last == list[Len(list)].fd
           n    == NodeOf(t, fd)
           w    == IF pos = Len(list) - 1 THEN t ELSE SetValue(t, last, pos)
           u    == RemoveKey(w, fd)
<1>1. t \in Table /\ SizeOK(t) /\ t.size = Len(list) /\ Len(list) \in Nat
  BY DEF TableOK, InStep
<1>2. /\ n \in Chained(t) /\ t.nodes[n] = <<fd, pos>>
      /\ pos \in 0 .. Len(list) - 1 /\ list[pos + 1].fd = fd
  BY Named
<1>3. Len(list) \in 1 .. Len(list)
  BY <1>1, <1>2
<1>4. PICK l \in Chained(t) : t.nodes[l] = <<last, Len(list) - 1>>
  BY <1>3 DEF InStep
<1>5. \A x, y \in Chained(t) : t.nodes[x][1] = t.nodes[y][1] => x = y
  BY DEF InStep
<1>6. last \in Key /\ Exists(t, last) /\ NodeOf(t, last) = l
  <2>1. t.nodes[l][1] = last
    BY <1>4
  <2>2. t.nodes[l] \in Item /\ Exists(t, last) /\ NodeOf(t, last) = l
    BY <1>5, <2>1, OnlyItem
  <2>3. QED
    BY <2>1, <2>2 DEF Item
<1>7. pos \in Val
  <2>1. Len(t.free) \in Nat
    BY <1>1 DEF Table
  <2>2. pos \in 0 .. fsize - 1
    BY <1>1, <1>2, <2>1, HashAssumption DEF SizeOK
  <2>3. QED
    BY <2>2, PollAssumption
<1>8. Chained(t) \subseteq Nodes /\ t.nodes \in [Nodes -> Item \cup {<<>>}]
  BY <1>1, ChainedNodes DEF Table
<1> HIDE DEF n, last
<1>9. /\ TableOK(w) /\ w.size = t.size /\ Chained(w) = Chained(t)
      /\ \A m \in Chained(t) : w.nodes[m] = IF m = l THEN <<last, pos>> ELSE t.nodes[m]
  <2>1. CASE pos = Len(list) - 1
    <3>1. w = t
      BY <2>1
    <3>2. t.nodes[l] = <<last, pos>>
      BY <1>4, <2>1
    <3>3. QED
      BY <3>1, <3>2
  <2>2. CASE pos # Len(list) - 1
    <3>1. w = SetValue(t, last, pos)
      BY <2>2
    <3>2. TableOK(w) /\ w.size = t.size /\ Chained(w) = Chained(t)
      <4>1. TableOK(SetValue(t, last, pos))
        BY <1>6, <1>7, SetValueOK
      <4>2. SetValue(t, last, pos).size = t.size
        BY <1>6, <1>7, SetValueOK
      <4>3. Chained(SetValue(t, last, pos)) = Chained(t)
        BY <1>6, <1>7, SetValueChained
      <4> HIDE DEF w
      <4>4. QED
        BY <3>1, <4>1, <4>2, <4>3
    <3>3. \A m \in Nodes : w.nodes[m] = IF m = l THEN <<last, pos>> ELSE t.nodes[m]
      <4>1. \A m \in Nodes : SetValue(t, last, pos).nodes[m] =
                                IF m = NodeOf(t, last) THEN <<last, pos>> ELSE t.nodes[m]
        BY <1>6, <1>7, SetValueOK
      <4> HIDE DEF w
      <4>2. QED
        BY <1>6, <3>1, <4>1
    <3>4. QED
      BY <1>8, <3>2, <3>3
  <2>3. QED
    BY <2>1, <2>2
<1> HIDE DEF w
<1>10. \A m \in Chained(t) : w.nodes[m][1] = t.nodes[m][1]
  BY <1>4, <1>9
<1>11. Exists(w, fd) /\ NodeOf(w, fd) = n
  <2>1. n \in Chained(w) /\ w.nodes[n][1] = fd
    BY <1>2, <1>9, <1>10
  <2>2. \A m \in Chained(w) : w.nodes[m][1] = w.nodes[n][1] => m = n
    BY <1>2, <1>5, <1>9, <1>10
  <2>3. QED
    BY <1>9, <2>1, <2>2, OnlyItem
<1>12. TableOK(u)
  BY <1>9, <1>11, RemoveOK
<1>13. Chained(u) = Chained(t) \ {n}
  BY <1>9, <1>11, RemoveChains
<1>14. u.size = Len(list) - 1
  <2>1. u.size = w.size - 1
    BY <1>9, <1>11, RemoveRest
  <2> HIDE DEF u
  <2>2. QED
    BY <1>1, <1>9, <2>1
<1>15. u.nodes = [w.nodes EXCEPT ![n] = <<>>]
  BY <1>9, <1>11, RemoveNodes
<1>16. w.nodes \in [Nodes -> Item \cup {<<>>}]
  BY <1>9 DEF TableOK, Table
<1> HIDE DEF u
<1>17. \A m \in Chained(u) : /\ m \in Chained(t) /\ m # n
                             /\ u.nodes[m] = IF m = l THEN <<last, pos>> ELSE t.nodes[m]
  <2> TAKE m \in Chained(u)
  <2>1. m \in Chained(t) /\ m # n
    BY <1>13
  <2>2. u.nodes[m] = w.nodes[m]
    BY <1>8, <1>15, <1>16, <2>1
  <2>3. QED
    BY <1>9, <2>1, <2>2
<1>18. \A i \in 1 .. Len(less) : \E m \in Chained(u) : u.nodes[m] = <<less[i].fd, i - 1>>
  <2> TAKE i \in 1 .. Len(less)
  <2>1. i \in 1 .. Len(list) /\ i - 1 # Len(list) - 1 /\ i \in Int
    BY <1>1
  <2>2. CASE i = pos + 1
    <3>1. pos # Len(list) - 1 /\ i - 1 = pos
      BY <1>2, <2>1, <2>2
    <3>2. l # n
      BY <1>2, <1>4, <3>1
    <3>3. l \in Chained(u) /\ u.nodes[l] = <<last, pos>>
      BY <1>13, <1>17, <3>2
    <3>4. less[i].fd = last
      BY <2>2 DEF last
    <3>5. QED
      BY <3>1, <3>3, <3>4
  <2>3. CASE i # pos + 1
    <3>1. PICK m \in Chained(t) : t.nodes[m] = <<list[i].fd, i - 1>>
      BY <2>1 DEF InStep
    <3>2. i - 1 # pos
      BY <1>2, <2>1, <2>3
    <3>3. m # n /\ m # l
      BY <1>2, <1>4, <2>1, <3>1, <3>2
    <3>4. m \in Chained(u) /\ u.nodes[m] = t.nodes[m]
      BY <1>13, <1>17, <3>3
    <3>5. QED
      BY <2>3, <3>1, <3>4
  <2>4. QED
    BY <2>2, <2>3
<1>19. \A m \in Chained(u) : u.nodes[m][2] \in 0 .. Len(less) - 1
                             /\ less[u.nodes[m][2] + 1].fd = u.nodes[m][1]
  <2> TAKE m \in Chained(u)
  <2>1. m \in Chained(t) /\ m # n
    BY <1>17
  <2>2. CASE m = l
    <3>1. u.nodes[m][1] = last /\ u.nodes[m][2] = pos
      BY <1>17, <2>2
    <3>2. pos # Len(list) - 1
      <4>1. ASSUME pos = Len(list) - 1
            PROVE  FALSE
        <5>1. pos + 1 = Len(list)
          BY <1>1, <4>1
        <5>2. fd = last
          BY <1>2, <5>1 DEF last
        <5>3. QED
          BY <1>2, <1>4, <1>5, <2>1, <2>2, <5>2
      <4>2. QED
        BY <4>1
    <3>3. pos \in 0 .. Len(less) - 1 /\ pos + 1 \in 1 .. Len(less)
      BY <1>1, <1>2, <3>2
    <3>4. less[pos + 1].fd = last
      BY <3>3 DEF last
    <3>5. QED
      BY <3>1, <3>3, <3>4
  <2>3. CASE m # l
    <3>1. u.nodes[m] = t.nodes[m]
      BY <1>17, <2>3
    <3>2. PICK p : p = t.nodes[m][2]
      OBVIOUS
    <3>3. p \in 0 .. Len(list) - 1 /\ list[p + 1].fd = t.nodes[m][1]
      BY <2>1, <3>2 DEF InStep
    <3>4. p # pos
      BY <1>2, <1>5, <2>1, <3>3
    <3>5. p # Len(list) - 1
      <4>1. ASSUME p = Len(list) - 1
            PROVE  FALSE
        <5>1. p + 1 = Len(list)
          BY <1>1, <4>1
        <5>2. t.nodes[m][1] = last
          BY <3>3, <5>1 DEF last
        <5>3. QED
          BY <1>4, <1>5, <2>1, <2>3, <5>2
      <4>2. QED
        BY <4>1
    <3>6. p \in 0 .. Len(less) - 1 /\ p + 1 \in 1 .. Len(less) /\ p + 1 # pos + 1
      BY <1>1, <1>2, <3>3, <3>4, <3>5
    <3>7. less[p + 1] = list[p + 1]
      BY <3>6
    <3>8. QED
      BY <3>1, <3>2, <3>3, <3>6, <3>7
  <2>4. QED
    BY <2>2, <2>3
<1>20. \A x, y \in Chained(u) : u.nodes[x][1] = u.nodes[y][1] => x = y
  <2>1. \A x \in Chained(u) : x \in Chained(t) /\ u.nodes[x][1] = t.nodes[x][1]
    BY <1>4, <1>17
  <2>2. QED
    BY <1>5, <2>1
<1>21. InStep(u, less)
  BY <1>14, <1>18, <1>19, <1>20 DEF InStep
<1>22. QED
  BY <1>12, <1>21 DEF u, w, last

-----------------------------------------------------------------------------
(* Reports                                                                 *)
LEMMA PendingLess ==
    ASSUME NEW list \in Seq(FdEntry), NEW pos \in 0 .. Len(list) - 1,
           NEW less \in Seq(FdEntry), Len(less) = Len(list) - 1,
           \A i \in 1 .. Len(less) :
               less[i] = IF i = pos + 1 THEN list[Len(list)] ELSE list[i]
    PROVE  Cardinality(Pending(list)) =
               Cardinality(Pending(less)) + IF list[pos + 1].ready THEN 1 ELSE 0
<1> DEFINE P == Pending(list)
           Q == P \ {pos + 1}
<1>1. PICK m \in Nat : m = Len(list)
  OBVIOUS
<1>2. /\ \A i : i \in P <=> i \in 1 .. m /\ list[i].ready
      /\ IsFiniteSet(P)
  BY <1>1, PendingFacts
<1>3. \A i : i \in Pending(less) <=> i \in 1 .. m - 1 /\ less[i].ready
  BY <1>1, PendingFacts
<1>4. pos + 1 \in 1 .. m /\ m \in 1 .. m
  BY <1>1
<1>5. \A i \in 1 .. m - 1 : less[i] = IF i = pos + 1 THEN list[m] ELSE list[i]
  BY <1>1
<1>6. IsFiniteSet(Q) /\ Cardinality(P) = Cardinality(Q) + IF list[pos + 1].ready THEN 1 ELSE 0
  <2>1. /\ IsFiniteSet(Q)
        /\ Cardinality(Q) = IF pos + 1 \in P THEN Cardinality(P) - 1 ELSE Cardinality(P)
    <3> HIDE DEF P
    <3>1. QED
      BY <1>2, FS_RemoveElement
  <2>2. pos + 1 \in P <=> list[pos + 1].ready
    BY <1>2, <1>4
  <2>3. Cardinality(P) \in Nat /\ Cardinality(Q) \in Nat
    BY <1>2, <2>1, FS_CardinalityType
  <2> HIDE DEF P, Q
  <2>4. CASE list[pos + 1].ready
    BY <2>1, <2>2, <2>3, <2>4
  <2>5. CASE ~list[pos + 1].ready
    BY <2>1, <2>2, <2>3, <2>5
  <2>6. QED
    BY <2>1, <2>4, <2>5
<1> HIDE DEF P
<1>7. Cardinality(Pending(less)) = Cardinality(Q)
  <2>1. CASE m \notin Q
    <3>1. \A i : i \in Pending(less) <=> i \in Q
      <4> TAKE i
      <4>1. CASE i \in 1 .. m - 1 /\ i # pos + 1
        <5>1. i \in 1 .. m /\ less[i] = list[i]
          BY <1>5, <4>1
        <5>2. QED
          BY <1>2, <1>3, <4>1, <5>1
      <4>2. CASE i = pos + 1
        <5>1. i \notin Q
          BY <4>2
        <5>2. ASSUME i \in Pending(less)
              PROVE  FALSE
          <6>1. i \in 1 .. m - 1 /\ less[i].ready /\ less[i] = list[m] /\ m # i
            BY <1>3, <1>5, <4>2, <5>2
          <6>2. m \in P
            BY <1>2, <1>4, <6>1
          <6>3. QED
            BY <2>1, <4>2, <6>1, <6>2
        <5>3. QED
          BY <5>1, <5>2
      <4>3. CASE i \notin 1 .. m - 1 /\ i # pos + 1
        <5>1. i \notin Pending(less)
          BY <1>3, <4>3
        <5>2. i \in Q => i = m
          BY <1>2, <4>3
        <5>3. QED
          BY <2>1, <5>1, <5>2
      <4>4. QED
        BY <4>1, <4>2, <4>3
    <3>2. Pending(less) = Q
      BY <3>1
    <3>3. QED
      BY <3>2
  <2>2. CASE m \in Q
    <3>1. m # pos + 1 /\ m \in P /\ list[m].ready
      BY <1>2, <2>2
    <3>2. pos + 1 \in 1 .. m - 1
      BY <1>4, <3>1
    <3>3. \A i : i \in Pending(less) <=> i \in (Q \ {m}) \cup {pos + 1}
      <4> TAKE i
      <4>1. CASE i \in 1 .. m - 1 /\ i # pos + 1
        <5>1. i \in 1 .. m /\ less[i] = list[i] /\ i # m
          BY <1>5, <4>1
        <5>2. QED
          BY <1>2, <1>3, <4>1, <5>1
      <4>2. CASE i = pos + 1
        <5>1. less[i].ready
          BY <1>5, <3>1, <3>2, <4>2
        <5>2. QED
          BY <1>3, <3>2, <4>2, <5>1
      <4>3. CASE i \notin 1 .. m - 1 /\ i # pos + 1
        <5>1. i \notin Pending(less)
          BY <1>3, <4>3
        <5>2. i \in Q => i = m
          BY <1>2, <4>3
        <5>3. QED
          BY <4>3, <5>1, <5>2
      <4>4. QED
        BY <4>1, <4>2, <4>3
    <3>4. Pending(less) = (Q \ {m}) \cup {pos + 1}
      BY <3>3
    <3>5. pos + 1 \notin Q \ {m}
      OBVIOUS
    <3> HIDE DEF Q
    <3>6. IsFiniteSet(Q \ {m}) /\ Cardinality(Q \ {m}) = Cardinality(Q) - 1
      BY <1>6, <2>2, FS_RemoveElement
    <3>7. Cardinality((Q \ {m}) \cup {pos + 1}) = Cardinality(Q \ {m}) + 1
      BY <3>5, <3>6, FS_AddElement
    <3>8. Cardinality(Q) \in Nat
      BY <1>6, FS_CardinalityType
    <3>9. QED
      BY <3>4, <3>6, <3>7, <3>8
  <2>3. QED
    BY <2>1, <2>2
<1>8. QED
  BY <1>6, <1>7 DEF P

LEMMA Shorter ==
    ASSUME fds \in Seq(FdEntry), NEW pos \in 0 .. Len(fds) - 1
    PROVE  /\ WithoutEntry(pos) \in Seq(FdEntry)
           /\ Len(WithoutEntry(pos)) = Len(fds) - 1
           /\ \A i \in 1 .. Len(WithoutEntry(pos)) :
                 WithoutEntry(pos)[i] = IF i = pos + 1 THEN fds[Len(fds)] ELSE fds[i]
<1>1. PICK list \in Seq(FdEntry) : list = fds
  OBVIOUS
<1>2. PICK other : other = IF pos = Len(fds) - 1 THEN list
                           ELSE [list EXCEPT ![pos + 1] = list[Len(list)]]
  OBVIOUS
<1>3. Len(list) \in Nat /\ Len(list) >= 1 /\ list[Len(list)] \in FdEntry
  BY <1>1
<1>4. /\ other \in Seq(FdEntry) /\ Len(other) = Len(list)
      /\ \A i \in 1 .. Len(list) - 1 :
            other[i] = IF i = pos + 1 THEN list[Len(list)] ELSE list[i]
  <2>1. CASE pos = Len(fds) - 1
    <3>1. other = list /\ \A i \in 1 .. Len(list) - 1 : i # pos + 1
      BY <1>1, <1>2, <1>3, <2>1
    <3>2. QED
      BY <3>1
  <2>2. CASE pos # Len(fds) - 1
    <3>1. other = [list EXCEPT ![pos + 1] = list[Len(list)]]
      BY <1>2, <2>2
    <3>2. PICK m \in Nat : m = Len(list)
      BY <1>3
    <3>3. PICK x \in FdEntry : x = list[m]
      BY <1>3, <3>2
    <3>4. list \in [1 .. m -> FdEntry]
      BY <3>2
    <3>5. other = [list EXCEPT ![pos + 1] = x]
      BY <3>1, <3>2, <3>3
    <3>6. other \in [1 .. m -> FdEntry]
      BY <3>4, <3>5
    <3>7. other \in Seq(FdEntry) /\ Len(other) = m
      BY <3>6
    <3>8. \A i \in 1 .. m : other[i] = IF i = pos + 1 THEN x ELSE list[i]
      BY <3>4, <3>5
    <3>9. QED
      BY <3>2, <3>3, <3>7, <3>8
  <2>3. QED
    BY <2>1, <2>2
<1>5. WithoutEntry(pos) = SubSeq(other, 1, Len(other) - 1)
  BY <1>1, <1>2, <1>4 DEF WithoutEntry, Moved, Front
<1>6. /\ SubSeq(other, 1, Len(other) - 1) \in Seq(FdEntry)
      /\ Len(SubSeq(other, 1, Len(other) - 1)) = Len(other) - 1
      /\ \A i \in 1 .. Len(other) - 1 : SubSeq(other, 1, Len(other) - 1)[i] = other[i]
  BY <1>3, <1>4
<1>7. QED
  BY <1>1, <1>4, <1>5, <1>6

LEMMA GivenOut ==
    ASSUME rotation \in Nat, NEW list \in Seq(FdEntry), Pending(list) # {},
           NEW unread, GiveOut(list, unread)
    PROVE  /\ fds' \in Seq(FdEntry) /\ Len(fds') = Len(list)
           /\ \A i \in 1 .. Len(list) : fds'[i].fd = list[i].fd
           /\ Cardinality(Pending(fds')) = Cardinality(Pending(list)) - 1
           /\ Cardinality(Pending(list)) \in 1 .. Len(list)
           /\ rotation' \in Nat /\ unreadcount' = unread - 1
<1>1. PICK s : s = NextSlot(list)
  OBVIOUS
<1>2. PICK m \in Nat : m = Len(list)
  OBVIOUS
<1>3. /\ Pending(list) = {i \in 1 .. m : list[i].ready} /\ IsFiniteSet(Pending(list))
      /\ Cardinality(Pending(list)) \in 0 .. m
  BY <1>2, PendingFacts
<1>4. s \in Pending(list)
  BY <1>1, NextSlotIsPending
<1>5. PICK given : given = [i \in 1 .. m |-> IF i = s THEN [list[i] EXCEPT !.ready = FALSE]
                                            ELSE list[i]]
  OBVIOUS
<1>6. fds' = given /\ rotation' = Start(list) + 1 /\ unreadcount' = unread - 1
  BY <1>1, <1>2, <1>5 DEF GiveOut
<1>7. \A i \in 1 .. m : /\ given[i] \in FdEntry /\ given[i].fd = list[i].fd
                        /\ i # s => given[i] = list[i]
                        /\ i = s => given[i].ready = FALSE
  <2> TAKE i \in 1 .. m
  <2>1. list[i] \in FdEntry
    BY <1>2
  <2>2. CASE i = s
    <3>1. given[i] = [list[i] EXCEPT !.ready = FALSE]
      BY <1>5, <2>2
    <3>2. QED
      BY <2>1, <2>2, <3>1 DEF FdEntry
  <2>3. CASE i # s
    <3>1. given[i] = list[i]
      BY <1>5, <2>3
    <3>2. QED
      BY <2>1, <2>3, <3>1
  <2>4. QED
    BY <2>2, <2>3
<1>8. given \in [1 .. m -> FdEntry]
  BY <1>5, <1>7
<1>9. given \in Seq(FdEntry) /\ Len(given) = m
  BY <1>8
<1>10. Pending(given) = Pending(list) \ {s}
  <2>1. Pending(given) = {i \in 1 .. m : given[i].ready}
    BY <1>9, PendingFacts
  <2>2. ASSUME NEW i \in 1 .. m
        PROVE  given[i].ready <=> list[i].ready /\ i # s
    <3>1. CASE i = s
      BY <1>7, <3>1, Zenon
    <3>2. CASE i # s
      BY <1>7, <3>2, Zenon
    <3>3. QED
      BY <3>1, <3>2
  <2>3. QED
    BY <1>3, <2>1, <2>2
<1>11. Cardinality(Pending(given)) = Cardinality(Pending(list)) - 1
  BY <1>3, <1>4, <1>10, FS_RemoveElement
<1>12. Cardinality(Pending(list)) \in 1 .. m
  <2>1. Cardinality(Pending(list)) # 0
    BY <1>3, <1>4, FS_EmptySet
  <2>2. QED
    BY <1>3, <2>1
<1>13. rotation' \in Nat
  BY <1>2, <1>6 DEF Start
<1>14. QED
  BY <1>2, <1>6, <1>7, <1>9, <1>11, <1>12, <1>13

LEMMA PolledFacts ==
    ASSUME fds \in Seq(FdEntry), NEW reported \in SUBSET (1 .. Len(fds))
    PROVE  /\ Polled(reported) \in Seq(FdEntry) /\ Len(Polled(reported)) = Len(fds)
           /\ \A i \in 1 .. Len(fds) : Polled(reported)[i].fd = fds[i].fd
           /\ Pending(Polled(reported)) = reported
<1>1. PICK list \in Seq(FdEntry) : list = fds
  OBVIOUS
<1>2. PICK m \in Nat : m = Len(list)
  OBVIOUS
<1>3. PICK other : other = [i \in 1 .. m |-> [list[i] EXCEPT !.ready = (i \in reported)]]
  OBVIOUS
<1>4. Polled(reported) = other
  BY <1>1, <1>2, <1>3 DEF Polled
<1>5. \A i \in 1 .. m : /\ other[i] \in FdEntry /\ other[i].fd = list[i].fd
                        /\ other[i].ready <=> i \in reported
  <2> TAKE i \in 1 .. m
  <2>1. list[i] \in FdEntry
    BY <1>2
  <2>2. PICK b \in BOOLEAN : b = (i \in reported)
    <3>1. (i \in reported) \in BOOLEAN
      OBVIOUS
    <3>2. QED
      BY <3>1, Zenon
  <2>3. other[i] = [list[i] EXCEPT !.ready = (i \in reported)]
    BY <1>3
  <2>4. other[i] = [list[i] EXCEPT !.ready = b]
    BY <2>2, <2>3, Zenon
  <2>5. other[i] \in FdEntry /\ other[i].fd = list[i].fd
    BY <2>1, <2>4 DEF FdEntry
  <2>6. other[i].ready = b
    BY <2>1, <2>4 DEF FdEntry
  <2>7. QED
    BY <2>2, <2>5, <2>6, Zenon
<1>6. other \in [1 .. m -> FdEntry]
  BY <1>3, <1>5
<1>7. other \in Seq(FdEntry) /\ Len(other) = m
  BY <1>6
<1>8. Pending(other) = {i \in 1 .. m : other[i].ready}
  BY <1>7, PendingFacts
<1>9. Pending(other) = reported
  BY <1>1, <1>2, <1>5, <1>8
<1>10. QED
  BY <1>1, <1>2, <1>4, <1>5, <1>7, <1>9

-----------------------------------------------------------------------------
(* CPoll, action by action                                                 *)
LEMMA InitializeStep ==
    ASSUME PollInv, Initialize
    PROVE  TableOK(table') /\ PollInv'
<1>1. /\ fds = <<>> /\ fds' = fds /\ rotation' = 0 /\ unreadcount' = 0 /\ orphans' = 0
      /\ table' = NewTable /\ fInitialized' = TRUE
  BY DEF Initialize, PollInv
<1>2. TableOK(table')
  BY <1>1, NewTableOK
<1>3. PICK t : t = table'
  OBVIOUS
<1>4. InStep(t, <<>>)
  <2>1. t \in Table /\ SizeOK(t) /\ t.size = 0
    BY <1>1, <1>2, <1>3 DEF TableOK, NewTable
  <2>2. Chained(t) = {}
    BY <2>1, ChainedNodes, FS_EmptySet DEF SizeOK
  <2>3. QED
    BY <2>1, <2>2 DEF InStep
<1>5. InStep(table, fds)'
  BY <1>1, <1>3, <1>4
<1>6. CountIsExact'
  <2>1. Pending(<<>>) = {}
    BY DEF Pending
  <2>2. Cardinality(Pending(<<>>)) = 0
    BY <2>1, FS_EmptySet
  <2>3. unreadcount' = Cardinality(Pending(fds')) + orphans'
    BY <1>1, <2>2
  <2>4. QED
    BY <2>3 DEF CountIsExact
<1>7. fds' \in Seq(FdEntry) /\ Len(fds') <= fsize
  BY <1>1 DEF PollInv
<1>8. QED
  BY <1>1, <1>2, <1>5, <1>6, <1>7, HashAssumption DEF PollInv

LEMMA CloseStep ==
    ASSUME PollInv, Close
    PROVE  table' = table /\ PollInv'
<1>1. /\ fds' = <<>> /\ fInitialized' = FALSE /\ table' = table
      /\ rotation' = rotation /\ unreadcount' = unreadcount /\ orphans' = orphans
  BY DEF Close
<1>2. <<>> \in Seq(FdEntry) /\ Len(<<>>) <= fsize
  BY HashAssumption
<1>3. CountIsExact'
  BY <1>1 DEF CountIsExact
<1>4. rotation \in Nat /\ unreadcount \in 0 .. fsize /\ orphans \in Nat
  BY DEF PollInv
<1>5. QED
  BY <1>1, <1>2, <1>3, <1>4 DEF PollInv

LEMMA AddStep ==
    ASSUME TableOK(table), PollInv, NEW fd \in Key, NEW flags \in SUBSET Flags, Add(fd, flags)
    PROVE  TableOK(table') /\ PollInv'
<1>1. PICK list \in Seq(FdEntry) : list = fds
  BY DEF PollInv
<1>2. PICK e : e = [fd |-> fd, events |-> flags, ready |-> FALSE]
  OBVIOUS
<1>3. e \in FdEntry /\ e.fd = fd /\ e.ready = FALSE
  BY <1>2 DEF FdEntry
<1>4. /\ fInitialized /\ ~Exists(table, fd) /\ ~Full(table)
      /\ fds' = Append(list, e) /\ table' = InsertKey(table, fd, Len(list))
      /\ rotation' = rotation /\ unreadcount' = unreadcount /\ orphans' = orphans
      /\ fInitialized' = fInitialized
  BY <1>1, <1>2 DEF Add
<1>5. InStep(table, list) /\ CountIsExact
  BY <1>1, <1>4 DEF PollInv
<1>6. /\ TableOK(InsertKey(table, fd, Len(list)))
      /\ InStep(InsertKey(table, fd, Len(list)), Append(list, e))
      /\ Len(list) < fsize
  <2>1. PICK t : t = table
    OBVIOUS
  <2>2. TableOK(t) /\ InStep(t, list) /\ ~Exists(t, e.fd) /\ ~Full(t)
    BY <1>3, <1>4, <1>5, <2>1
  <2>3. /\ TableOK(InsertKey(t, e.fd, Len(list)))
        /\ InStep(InsertKey(t, e.fd, Len(list)), Append(list, e))
        /\ Len(list) < fsize
    BY <1>3, <2>2, AddInStep
  <2>4. QED
    BY <1>3, <2>1, <2>3
<1>7. TableOK(table') /\ InStep(table, fds)'
  BY <1>4, <1>6
<1>8. Append(list, e) \in Seq(FdEntry) /\ Len(Append(list, e)) = Len(list) + 1
  BY <1>3
<1>9. Pending(Append(list, e)) = Pending(list)
  <2>1. Pending(Append(list, e)) = {i \in 1 .. Len(list) + 1 : Append(list, e)[i].ready}
    BY <1>8, PendingFacts
  <2>2. Pending(list) = {i \in 1 .. Len(list) : list[i].ready}
    BY PendingFacts
  <2>3. /\ \A i \in 1 .. Len(list) : Append(list, e)[i] = list[i]
        /\ Append(list, e)[Len(list) + 1] = e
    BY <1>3
  <2>4. ASSUME NEW i
        PROVE  i \in Pending(Append(list, e)) <=> i \in Pending(list)
    <3>1. CASE i \in 1 .. Len(list)
      BY <2>1, <2>2, <2>3, <3>1
    <3>2. CASE i = Len(list) + 1
      BY <1>3, <2>1, <2>2, <2>3, <3>2
    <3>3. CASE i \notin 1 .. Len(list) + 1
      BY <2>1, <2>2, <3>3
    <3>4. QED
      BY <3>1, <3>2, <3>3
  <2>5. QED
    BY <2>4
<1>10. CountIsExact'
  BY <1>1, <1>4, <1>5, <1>9 DEF CountIsExact
<1>11. fds' \in Seq(FdEntry) /\ Len(fds') <= fsize
  BY <1>4, <1>6, <1>8, HashAssumption
<1>12. QED
  BY <1>4, <1>7, <1>10, <1>11 DEF PollInv

LEMMA RemoveSocketStep ==
    ASSUME TableOK(table), PollInv, NEW fd \in Key, RemoveSocket(fd)
    PROVE  TableOK(table') /\ PollInv'
<1> DEFINE pos == Lookup(table, fd)
           less == WithoutEntry(pos)
<1>1. /\ fInitialized /\ Exists(table, fd) /\ fds' = less
      /\ table' = TableWithMoved(fd, pos) /\ unreadcount' = unreadcount
      /\ orphans' = IF fds[pos + 1].ready THEN orphans + 1 ELSE orphans
      /\ rotation' = rotation /\ fInitialized' = fInitialized
  BY DEF RemoveSocket, UnreadAfterRemove
<1>2. /\ fds \in Seq(FdEntry) /\ Len(fds) <= fsize /\ InStep(table, fds) /\ CountIsExact
      /\ rotation \in Nat /\ unreadcount \in 0 .. fsize /\ orphans \in Nat
  BY <1>1 DEF PollInv
<1>3. PICK list \in Seq(FdEntry) : list = fds
  BY <1>2
<1>4. PICK t : t = table
  OBVIOUS
<1>5. TableOK(t) /\ InStep(t, list) /\ Exists(t, fd) /\ pos = Lookup(t, fd)
  BY <1>1, <1>2, <1>3, <1>4
<1>6. pos \in 0 .. Len(list) - 1
  <2>1. Lookup(t, fd) \in 0 .. Len(list) - 1
    BY <1>5, Named
  <2>2. QED
    BY <1>5, <2>1
<1> HIDE DEF pos
<1>7. /\ less \in Seq(FdEntry) /\ Len(less) = Len(list) - 1
      /\ \A i \in 1 .. Len(less) :
            less[i] = IF i = pos + 1 THEN list[Len(list)] ELSE list[i]
  BY <1>2, <1>3, <1>6, Shorter
<1> HIDE DEF less
<1>8. PICK u : u = RemoveKey(IF pos = Len(list) - 1 THEN t
                             ELSE SetValue(t, list[Len(list)].fd, pos), fd)
  OBVIOUS
<1>9. TableOK(u) /\ InStep(u, less)
  BY <1>5, <1>7, <1>8, RemoveInStep
<1>10. table' = u
  BY <1>1, <1>3, <1>4, <1>8 DEF TableWithMoved, Moved
<1>11. TableOK(table') /\ InStep(table, fds)'
  BY <1>1, <1>9, <1>10
<1>12. CountIsExact'
  <2>1. Cardinality(Pending(list)) =
            Cardinality(Pending(less)) + IF list[pos + 1].ready THEN 1 ELSE 0
    BY <1>6, <1>7, PendingLess
  <2>2. Cardinality(Pending(list)) \in Nat /\ Cardinality(Pending(less)) \in Nat
    <3>1. Cardinality(Pending(list)) \in 0 .. Len(list)
      BY PendingFacts
    <3>2. Cardinality(Pending(less)) \in 0 .. Len(less)
      BY <1>7, PendingFacts
    <3>3. QED
      BY <3>1, <3>2
  <2>3. unreadcount = Cardinality(Pending(list)) + orphans
    BY <1>1, <1>2, <1>3 DEF CountIsExact
  <2>4. unreadcount = Cardinality(Pending(less)) + orphans'
    <3>1. CASE list[pos + 1].ready
      BY <1>1, <1>2, <1>3, <2>1, <2>2, <2>3, <3>1
    <3>2. CASE ~list[pos + 1].ready
      BY <1>1, <1>2, <1>3, <2>1, <2>2, <2>3, <3>2
    <3>3. QED
      BY <3>1, <3>2
  <2>5. unreadcount' = Cardinality(Pending(fds')) + orphans'
    BY <1>1, <2>4
  <2>6. QED
    BY <2>5 DEF CountIsExact
<1>13. fds' \in Seq(FdEntry) /\ Len(fds') <= fsize /\ orphans' \in Nat
  BY <1>1, <1>2, <1>3, <1>7, HashAssumption
<1>14. QED
  BY <1>1, <1>2, <1>11, <1>12, <1>13 DEF PollInv

LEMMA ChangeEventSetStep ==
    ASSUME TableOK(table), PollInv, NEW fd \in Key, NEW flags \in SUBSET Flags,
           ChangeEventSet(fd, flags)
    PROVE  table' = table /\ PollInv'
<1>1. PICK p : p = Lookup(table, fd) + 1
  OBVIOUS
<1>2. /\ fInitialized /\ fds' = [fds EXCEPT ![p].events = flags]
      /\ rotation' = rotation /\ unreadcount' = unreadcount /\ orphans' = orphans
      /\ fInitialized' = fInitialized /\ table' = table
  BY <1>1 DEF ChangeEventSet
<1>3. /\ fds \in Seq(FdEntry) /\ Len(fds) <= fsize /\ InStep(table, fds) /\ CountIsExact
      /\ rotation \in Nat /\ unreadcount \in 0 .. fsize /\ orphans \in Nat
  BY <1>2 DEF PollInv
<1>4. PICK list \in Seq(FdEntry) : list = fds
  BY <1>3
<1>5. PICK m \in Nat : m = Len(list)
  OBVIOUS
<1>6. PICK other : other = [list EXCEPT ![p].events = flags]
  OBVIOUS
<1>7. \A i \in 1 .. m : /\ other[i] \in FdEntry /\ other[i].fd = list[i].fd
                        /\ other[i].ready = list[i].ready
  <2> TAKE i \in 1 .. m
  <2>1. list[i] \in FdEntry /\ DOMAIN list = 1 .. m
    BY <1>5
  <2>2. CASE i = p
    <3>1. other[i] = [list[i] EXCEPT !.events = flags]
      BY <1>6, <2>1, <2>2
    <3>2. QED
      BY <2>1, <3>1 DEF FdEntry
  <2>3. CASE i # p
    <3>1. other[i] = list[i]
      BY <1>6, <2>1, <2>3
    <3>2. QED
      BY <2>1, <3>1
  <2>4. QED
    BY <2>2, <2>3
<1>8. other \in Seq(FdEntry) /\ Len(other) = m
  <2>1. DOMAIN other = 1 .. m
    BY <1>5, <1>6
  <2>2. other = [i \in 1 .. m |-> other[i]]
    BY <1>5, <1>6, <2>1
  <2>3. other \in [1 .. m -> FdEntry]
    BY <1>7, <2>2
  <2>4. QED
    BY <2>3
<1>9. Pending(other) = Pending(list)
  <2>1. /\ Pending(other) = {i \in 1 .. m : other[i].ready}
        /\ Pending(list) = {i \in 1 .. m : list[i].ready}
    BY <1>5, <1>8, PendingFacts
  <2>2. \A i \in 1 .. m : other[i].ready <=> list[i].ready
    BY <1>7, Zenon
  <2>3. QED
    BY <2>1, <2>2
<1>10. InStep(table, other)
  <2>1. PICK t : t = table
    OBVIOUS
  <2>2. InStep(t, other)
    BY <1>3, <1>4, <1>5, <1>7, <1>8, <2>1, SameSockets
  <2>3. QED
    BY <2>1, <2>2
<1>11. fds' = other
  BY <1>2, <1>4, <1>6
<1>12. InStep(table, fds)' /\ CountIsExact'
  BY <1>2, <1>3, <1>4, <1>9, <1>10, <1>11 DEF CountIsExact
<1>13. QED
  BY <1>2, <1>3, <1>4, <1>5, <1>8, <1>11, <1>12 DEF PollInv

LEMMA WaitStep ==
    ASSUME TableOK(table), PollInv, WaitForNextEvent
    PROVE  table' = table /\ PollInv'
<1>1. fInitialized /\ fInitialized' = fInitialized /\ table' = table
  BY DEF WaitForNextEvent, WaitPending, WaitPoll
<1>2. /\ fds \in Seq(FdEntry) /\ Len(fds) <= fsize /\ InStep(table, fds) /\ CountIsExact
      /\ rotation \in Nat /\ unreadcount \in 0 .. fsize /\ orphans \in Nat
  BY <1>1 DEF PollInv
<1>3. PICK t : t = table
  OBVIOUS
<1>4. PICK m \in Nat : m = Len(fds) /\ m <= fsize
  BY <1>2
<1>5. ASSUME NEW list \in Seq(FdEntry), Len(list) = m, Pending(list) # {},
             \A i \in 1 .. m : list[i].fd = fds[i].fd, NEW unread, GiveOut(list, unread)
      PROVE  /\ fds' \in Seq(FdEntry) /\ Len(fds') = m /\ InStep(table, fds)'
             /\ Cardinality(Pending(fds')) = Cardinality(Pending(list)) - 1
             /\ Cardinality(Pending(list)) \in 1 .. m
             /\ rotation' \in Nat /\ unreadcount' = unread - 1
  <2>1. /\ fds' \in Seq(FdEntry) /\ Len(fds') = Len(list)
        /\ \A i \in 1 .. Len(list) : fds'[i].fd = list[i].fd
        /\ Cardinality(Pending(fds')) = Cardinality(Pending(list)) - 1
        /\ Cardinality(Pending(list)) \in 1 .. Len(list)
        /\ rotation' \in Nat /\ unreadcount' = unread - 1
    BY <1>2, <1>5, GivenOut
  <2>2. PICK old \in Seq(FdEntry) : old = fds
    BY <1>2
  <2>3. PICK new \in Seq(FdEntry) : new = fds'
    BY <2>1
  <2>4. InStep(t, old) /\ Len(new) = Len(old) /\ \A i \in 1 .. Len(old) : new[i].fd = old[i].fd
    BY <1>2, <1>3, <1>4, <1>5, <2>1, <2>2, <2>3
  <2>5. InStep(t, new)
    BY <2>4, SameSockets
  <2>6. InStep(table, fds)'
    BY <1>1, <1>3, <2>3, <2>5
  <2>7. QED
    BY <1>5, <2>1, <2>6
<1>6. CASE WaitPending
  <2>1. Pending(fds) # {} /\ GiveOut(fds, unreadcount) /\ orphans' = orphans
    BY <1>6 DEF WaitPending, Found
  <2>2. PICK list \in Seq(FdEntry) : list = fds
    BY <1>2
  <2>3. /\ Len(list) = m /\ Pending(list) # {} /\ \A i \in 1 .. m : list[i].fd = fds[i].fd
        /\ GiveOut(list, unreadcount)
    BY <1>4, <2>1, <2>2
  <2>4. /\ fds' \in Seq(FdEntry) /\ Len(fds') = m /\ InStep(table, fds)'
        /\ Cardinality(Pending(fds')) = Cardinality(Pending(list)) - 1
        /\ Cardinality(Pending(list)) \in 1 .. m
        /\ rotation' \in Nat /\ unreadcount' = unreadcount - 1
    BY <1>5, <2>3
  <2>5. unreadcount = Cardinality(Pending(list)) + orphans
    BY <1>1, <1>2, <2>2 DEF CountIsExact
  <2>6. unreadcount' \in 0 .. fsize /\ unreadcount' = Cardinality(Pending(fds')) + orphans'
    BY <1>2, <2>1, <2>4, <2>5, HashAssumption
  <2>7. QED
    BY <1>1, <1>2, <1>4, <2>1, <2>4, <2>6 DEF PollInv, CountIsExact
<1>7. CASE WaitPoll
  <2>1. orphans' = 0
    BY <1>7 DEF WaitPoll
  <2>2. ASSUME NEW reported \in SUBSET DOMAIN fds, reported # {},
               GiveOut(Polled(reported), Cardinality(reported))
        PROVE  PollInv'
    <3>1. reported \in SUBSET (1 .. Len(fds))
      BY <1>2, <2>2
    <3>2. PICK list \in Seq(FdEntry) :
              /\ list = Polled(reported) /\ Len(list) = m /\ Pending(list) = reported
              /\ \A i \in 1 .. m : list[i].fd = fds[i].fd
      BY <1>2, <1>4, <3>1, PolledFacts
    <3>3. Pending(list) # {} /\ GiveOut(list, Cardinality(reported))
      BY <2>2, <3>2
    <3>4. /\ fds' \in Seq(FdEntry) /\ Len(fds') = m /\ InStep(table, fds)'
          /\ Cardinality(Pending(fds')) = Cardinality(Pending(list)) - 1
          /\ Cardinality(Pending(list)) \in 1 .. m
          /\ rotation' \in Nat /\ unreadcount' = Cardinality(reported) - 1
      BY <1>5, <3>2, <3>3
    <3>5. unreadcount' \in 0 .. fsize /\ unreadcount' = Cardinality(Pending(fds')) + orphans'
      BY <1>4, <2>1, <3>2, <3>4, HashAssumption
    <3>6. QED
      BY <1>1, <1>4, <2>1, <3>4, <3>5 DEF PollInv, CountIsExact
  <2>3. ASSUME fds' = Polled({}), unreadcount' = 0,
               rotation' = IF unreadcount > 0 THEN Start(fds) ELSE rotation
        PROVE  PollInv'
    <3>1. PICK list \in Seq(FdEntry) :
              /\ list = Polled({}) /\ Len(list) = m /\ Pending(list) = {}
              /\ \A i \in 1 .. m : list[i].fd = fds[i].fd
      BY <1>2, <1>4, PolledFacts
    <3>2. PICK old \in Seq(FdEntry) : old = fds
      BY <1>2
    <3>3. InStep(t, list)
      BY <1>2, <1>3, <1>4, <3>1, <3>2, SameSockets
    <3>4. InStep(table, fds)'
      BY <1>1, <1>3, <2>3, <3>1, <3>3
    <3>5. unreadcount' = Cardinality(Pending(fds')) + orphans'
      <4>1. fds' = list
        BY <2>3, <3>1, Zenon
      <4>2. Cardinality(Pending(fds')) = 0
        BY <3>1, <4>1, FS_EmptySet
      <4>3. QED
        BY <2>1, <2>3, <4>2
    <3>6. rotation' \in Nat
      BY <1>2, <2>3 DEF Start
    <3>7. fds' \in Seq(FdEntry) /\ Len(fds') <= fsize
      BY <1>4, <2>3, <3>1
    <3>8. QED
      BY <1>1, <2>1, <2>3, <3>4, <3>5, <3>6, <3>7, HashAssumption DEF PollInv, CountIsExact
  <2>4. QED
    BY <1>1, <1>7, <2>2, <2>3 DEF WaitPoll
<1>8. QED
  BY <1>1, <1>6, <1>7 DEF WaitForNextEvent

LEMMA PollStep ==
    ASSUME TableOK(table), PollInv, PollNext
    PROVE  TableOK(table') /\ PollInv'
<1>1. CASE Initialize
  BY <1>1, InitializeStep
<1>2. CASE Close
  BY <1>2, CloseStep
<1>3. ASSUME NEW fd \in Key, NEW flags \in SUBSET Flags, Add(fd, flags)
      PROVE  TableOK(table') /\ PollInv'
  BY <1>3, AddStep
<1>4. ASSUME NEW fd \in Key, NEW flags \in SUBSET Flags, ChangeEventSet(fd, flags)
      PROVE  TableOK(table') /\ PollInv'
  BY <1>4, ChangeEventSetStep
<1>5. ASSUME NEW fd \in Key, RemoveSocket(fd)
      PROVE  TableOK(table') /\ PollInv'
  BY <1>5, RemoveSocketStep
<1>6. CASE WaitForNextEvent
  BY <1>6, WaitStep
<1>7. QED
  BY <1>1, <1>2, <1>3, <1>4, <1>5, <1>6 DEF PollNext

-----------------------------------------------------------------------------
(* CEpoll                                                                  *)
LEMMA BatchFacts ==
    ASSUME NEW batch \in Batches
    PROVE  batch \in Seq(ready) /\ Len(batch) >= 1
<1>1. PICK n \in 1 .. maxSockets : batch \in [1 .. n -> ready]
  BY DEF Batches
<1>2. n \in Nat /\ n >= 1
  BY EpollAssumption
<1>3. QED
  BY <1>1, <1>2

LEMMA EpollStep ==
    ASSUME EpollInv, EpollNext
    PROVE  EpollInv'
<1>1. /\ ready \subseteq Sockets /\ events \in Seq(Sockets) /\ currentEventIndex \in Nat
      /\ Len(events) \in Nat /\ DOMAIN events = 1 .. Len(events)
  BY DEF EpollInv
<1>2. \A fd \in unseen : \/ fd \in ready
                         \/ \E i \in DOMAIN events : i > currentEventIndex /\ events[i] = fd
  BY DEF EpollInv, ActivityAwaitsReport
<1>3. CASE Nothing
  BY <1>3 DEF Nothing, EpollInv, ActivityAwaitsReport
<1>4. ASSUME NEW fd \in Sockets, NEW fEdge \in BOOLEAN, EpollAdd(fd, fEdge)
      PROVE  EpollInv'
  BY <1>1, <1>2, <1>4 DEF EpollAdd, EpollInv, ActivityAwaitsReport
<1>5. ASSUME NEW fd \in Sockets, NEW fEdge \in BOOLEAN, EpollChangeEventSet(fd, fEdge)
      PROVE  EpollInv'
  <2>1. /\ ready \subseteq ready' /\ ready' \subseteq Sockets
        /\ events' = events /\ currentEventIndex' = currentEventIndex /\ unseen' = unseen
    BY <1>1, <1>5 DEF EpollChangeEventSet
  <2>2. QED
    BY <1>1, <1>2, <2>1 DEF EpollInv, ActivityAwaitsReport
<1>6. ASSUME NEW fd \in Sockets, EpollRemove(fd)
      PROVE  EpollInv'
  BY <1>1, <1>2, <1>6 DEF EpollRemove, EpollInv, ActivityAwaitsReport
<1>7. ASSUME NEW fd \in Sockets, Activity(fd)
      PROVE  EpollInv'
  BY <1>1, <1>2, <1>7 DEF Activity, EpollInv, ActivityAwaitsReport
<1>8. ASSUME NEW fd \in Sockets, Drained(fd)
      PROVE  EpollInv'
  BY <1>1, <1>2, <1>8 DEF Drained, EpollInv, ActivityAwaitsReport
<1>9. CASE EpollWaitPending
  <2>1. /\ events' = events /\ currentEventIndex' = currentEventIndex + 1
        /\ unseen' = unseen \ {events[currentEventIndex + 1]} /\ ready' = ready
    BY <1>9 DEF EpollWaitPending, GiveOutEvent
  <2>2. ASSUME NEW fd \in unseen'
        PROVE  \/ fd \in ready
               \/ \E i \in DOMAIN events : i > currentEventIndex + 1 /\ events[i] = fd
    <3>1. fd \in unseen /\ fd # events[currentEventIndex + 1]
      BY <2>1, <2>2
    <3>2. CASE fd \in ready
      BY <3>2
    <3>3. CASE fd \notin ready
      <4>1. PICK i \in DOMAIN events : i > currentEventIndex /\ events[i] = fd
        BY <1>2, <3>1, <3>3
      <4>2. i > currentEventIndex + 1
        BY <1>1, <3>1, <4>1
      <4>3. QED
        BY <4>1, <4>2
    <3>4. QED
      BY <3>2, <3>3
  <2>3. QED
    BY <1>1, <2>1, <2>2 DEF EpollInv, ActivityAwaitsReport
<1>10. CASE EpollWait
  <2>1. \A fd \in unseen : fd \in ready
    <3>1. currentEventIndex >= Len(events)
      BY <1>10 DEF EpollWait, BatchGivenOut
    <3>2. QED
      BY <1>1, <1>2, <3>1
  <2>2. ASSUME NEW batch \in Batches, GiveOutEvent(batch, 0),
               ready' = {fd \in ready : \A i \in DOMAIN batch : batch[i] = fd => ~watched[fd]}
        PROVE  EpollInv'
    <3>1. batch \in Seq(ready) /\ DOMAIN batch = 1 .. Len(batch) /\ Len(batch) \in Nat
      BY BatchFacts
    <3>2. events' = batch /\ currentEventIndex' = 1 /\ unseen' = unseen \ {batch[1]}
      BY <2>2 DEF GiveOutEvent
    <3>3. ASSUME NEW fd \in unseen'
          PROVE  \/ fd \in ready'
                 \/ \E i \in DOMAIN batch : i > 1 /\ batch[i] = fd
      <4>1. fd \in ready /\ fd # batch[1]
        BY <2>1, <3>2, <3>3
      <4>2. CASE \E i \in DOMAIN batch : batch[i] = fd
        <5>1. PICK i \in DOMAIN batch : batch[i] = fd
          BY <4>2
        <5>2. i > 1
          BY <3>1, <4>1, <5>1
        <5>3. QED
          BY <5>1, <5>2
      <4>3. CASE ~\E i \in DOMAIN batch : batch[i] = fd
        BY <2>2, <4>1, <4>3
      <4>4. QED
        BY <4>2, <4>3
    <3>4. ready' \subseteq Sockets /\ batch \in Seq(Sockets)
      BY <1>1, <2>2, <3>1
    <3>5. QED
      BY <3>2, <3>3, <3>4 DEF EpollInv, ActivityAwaitsReport
  <2>3. ASSUME events' = <<>>, currentEventIndex' = 0, ready' = ready, unseen' = unseen
        PROVE  EpollInv'
    BY <1>1, <2>1, <2>3 DEF EpollInv, ActivityAwaitsReport
  <2>4. QED
    BY <1>10, <2>2, <2>3 DEF EpollWait
<1>11. QED
  BY <1>3, <1>4, <1>5, <1>6, <1>7, <1>8, <1>9, <1>10
     DEF EpollNext, EpollInitialize, EpollClose, EpollWaitForNextEvent

-----------------------------------------------------------------------------
(* The hash table, used by another caller                                  *)
LEMMA HashStep ==
    ASSUME TableOK(table), HashNext
    PROVE  TableOK(table')
<1>1. PICK t : t = table /\ TableOK(t)
  OBVIOUS
<1>2. ASSUME NEW k \in Key, NEW v \in Val, table' = InsertKey(t, k, v)
      PROVE  TableOK(table')
  <2>1. CASE Full(t)
    <3>1. table' = t
      BY <1>2, <2>1 DEF InsertKey
    <3>2. QED
      BY <1>1, <3>1
  <2>2. CASE ~Full(t)
    BY <1>1, <1>2, <2>2, InsertOK
  <2>3. QED
    BY <2>1, <2>2
<1>3. ASSUME NEW k \in Key, Exists(t, k), table' = RemoveKey(t, k)
      PROVE  TableOK(table')
  BY <1>1, <1>3, RemoveOK
<1>4. ASSUME table' = Indexed(t)
      PROVE  TableOK(table')
  BY <1>1, <1>4, IndexedOK
<1>5. ASSUME table' = ResetTable(t)
      PROVE  TableOK(table')
  BY <1>1, <1>5, ResetTableOK DEF TableOK
<1>6. QED
  BY <1>1, <1>2, <1>3, <1>4, <1>5 DEF HashNext, HashInsert, HashRemove, HashLookupByIndex, HashReset

-----------------------------------------------------------------------------
LEMMA PollingInitInv == PollingInit => PollingInv
<1> SUFFICES ASSUME PollingInit
             PROVE  PollingInv
  OBVIOUS
<1>1. TableOK(table)
  BY NewTableOK DEF PollingInit, HashInit
<1>2. PollInv /\ ~fInitialized
  <2>1. /\ fds = <<>> /\ rotation = 0 /\ unreadcount = 0 /\ orphans = 0
        /\ fInitialized = FALSE
    BY DEF PollingInit, PollInit
  <2>2. <<>> \in Seq(FdEntry) /\ Len(<<>>) <= fsize /\ 0 \in 0 .. fsize
    BY HashAssumption
  <2>3. QED
    BY <2>1, <2>2 DEF PollInv
<1>3. EpollInv
  BY DEF PollingInit, EpollInit, EpollInv, ActivityAwaitsReport
<1>4. QED
  BY <1>1, <1>2, <1>3 DEF PollingInv

LEMMA PollingNextInv == PollingInv /\ [PollingNext]_pollingVars => PollingInv'
<1> SUFFICES ASSUME PollingInv, [PollingNext]_pollingVars
             PROVE  PollingInv'
  OBVIOUS
<1>1. TableOK(table) /\ PollInv /\ EpollInv /\ (user # "CPoll" => ~fInitialized)
  BY DEF PollingInv
<1>2. ASSUME UNCHANGED pollVars, TableOK(table'), ~fInitialized \/ table' = table
      PROVE  PollInv'
  <2>1. CASE ~fInitialized
    BY <1>1, <1>2, <2>1 DEF PollInv, pollVars, CountIsExact
  <2>2. CASE table' = table
    BY <1>1, <1>2, <2>2 DEF PollInv, pollVars, CountIsExact
  <2>3. QED
    BY <1>2, <2>1, <2>2
<1>3. ASSUME UNCHANGED epollVars
      PROVE  EpollInv'
  BY <1>1, <1>3 DEF EpollInv, epollVars, ActivityAwaitsReport
<1>4. CASE user = "CPoll" /\ PollNext /\ UNCHANGED <<epollVars, user>>
  <2>1. TableOK(table') /\ PollInv' /\ EpollInv' /\ user' = "CPoll"
    BY <1>1, <1>3, <1>4, PollStep
  <2>2. QED
    BY <2>1 DEF PollingInv
<1>5. CASE user = "CEpoll" /\ EpollNext /\ UNCHANGED <<table, pollVars, user>>
  <2>1. table' = table /\ TableOK(table') /\ UNCHANGED pollVars
    BY <1>1, <1>5
  <2>2. EpollInv' /\ PollInv'
    BY <1>1, <1>2, <1>5, <2>1, EpollStep
  <2>3. ~fInitialized'
    BY <1>1, <1>5 DEF pollVars
  <2>4. QED
    BY <2>1, <2>2, <2>3 DEF PollingInv
<1>6. CASE user = "other" /\ HashNext /\ UNCHANGED <<pollVars, epollVars, user>>
  <2>1. ~fInitialized /\ ~fInitialized' /\ TableOK(table')
    BY <1>1, <1>6, HashStep DEF pollVars
  <2>2. EpollInv' /\ PollInv'
    BY <1>2, <1>3, <1>6, <2>1
  <2>3. QED
    BY <2>1, <2>2 DEF PollingInv
<1>7. CASE UNCHANGED pollingVars
  <2>1. /\ table' = table /\ user' = user /\ UNCHANGED pollVars /\ UNCHANGED epollVars
    BY <1>7 DEF pollingVars
  <2>2. TableOK(table') /\ EpollInv' /\ PollInv'
    BY <1>1, <1>2, <1>3, <2>1
  <2>3. user' # "CPoll" => ~fInitialized'
    BY <1>1, <2>1 DEF pollVars
  <2>4. QED
    BY <2>2, <2>3 DEF PollingInv
<1>8. QED
  BY <1>4, <1>5, <1>6, <1>7 DEF PollingNext

LEMMA PollingInvHolds == PollingSpec => []PollingInv
BY PollingInitInv, PollingNextInv, PTL DEF PollingSpec

(* Access by position shows every item of the table once, whatever calls   *)
(* came before: LookupByIndex after any Insert, Remove, Reset.             *)
THEOREM IndexShowsEveryItemHolds == PollingSpec => []IndexShowsEveryItem
<1>1. PollingInv => IndexShowsEveryItem
  BY TableInOrder DEF PollingInv
<1>2. QED
  BY <1>1, PollingInvHolds, PTL

(* The types of CPoll, and of its table in whatever order it was used: no  *)
(* node is lost, none is on two chains.                                    *)
THEOREM PollTypeCorrect == PollingSpec => []PollTypeOK
<1>1. PollingInv => PollTypeOK
  BY TableInOrder DEF PollingInv, PollInv, PollTypeOK, FdEntry
<1>2. QED
  BY <1>1, PollingInvHolds, PTL

(* The table gives the place of every socket in the vector (CPoll::Add,    *)
(* Remove, ChangeEventSet).                                                *)
THEOREM PositionsMatchHolds == PollingSpec => []PositionsMatch
<1>1. PollingInv => PositionsMatch
  <2> SUFFICES ASSUME PollingInv, fInitialized
               PROVE  /\ table.size = Len(fds)
                      /\ \A i \in DOMAIN fds :
                            Exists(table, fds[i].fd) /\ Lookup(table, fds[i].fd) = i - 1
    BY DEF PositionsMatch
  <2>1. TableOK(table) /\ InStep(table, fds) /\ fds \in Seq(FdEntry)
    BY DEF PollingInv, PollInv
  <2>2. PICK t : t = table
    OBVIOUS
  <2>3. ASSUME NEW i \in DOMAIN fds
        PROVE  Exists(table, fds[i].fd) /\ Lookup(table, fds[i].fd) = i - 1
    <3>1. i \in 1 .. Len(fds)
      BY <2>1
    <3>2. PICK n \in Chained(t) : t.nodes[n] = <<fds[i].fd, i - 1>>
      BY <2>1, <2>2, <3>1 DEF InStep
    <3>3. TableOK(t) /\ \A m \in Chained(t) : t.nodes[m][1] = t.nodes[n][1] => m = n
      BY <2>1, <2>2 DEF InStep
    <3>4. Exists(t, t.nodes[n][1]) /\ Lookup(t, t.nodes[n][1]) = t.nodes[n][2]
      BY <3>3, OnlyItem
    <3>5. t.nodes[n][1] = fds[i].fd /\ t.nodes[n][2] = i - 1
      BY <3>2
    <3>6. QED
      BY <2>2, <3>4, <3>5
  <2>4. QED
    BY <2>1, <2>3 DEF InStep
<1>2. QED
  BY <1>1, PollingInvHolds, PTL

(* What poll() or epoll_wait() reported is given out, by either object,    *)
(* whatever is added, changed or removed before WaitForNextEvent is called *)
(* again.                                                                  *)
THEOREM NoEventLostHolds == PollingSpec => []NoEventLost
<1>1. PollingInv => NoEventLost
  <2>1. PollingInv => CountIsExact
    BY DEF PollingInv, PollInv, CountIsExact
  <2>2. QED
    BY <2>1 DEF PollingInv, EpollInv, NoEventLost
<1>2. QED
  BY <1>1, PollingInvHolds, PTL

-----------------------------------------------------------------------------
(* The multimap                                                            *)
LEMMA Shortened ==
    ASSUME NEW S, NEW s \in Seq(S), s # <<>>
    PROVE  /\ Tail(s) \in Seq(S) /\ Len(Tail(s)) = Len(s) - 1
           /\ \A i \in 1 .. Len(s) - 1 : Tail(s)[i] = s[i + 1]
OBVIOUS

(* The places with a key, in their order                                   *)
LEMMA RankFacts ==
    ASSUME NEW P, P \subseteq Nat, IsFiniteSet(P)
    PROVE  /\ Cardinality(P) \in Nat
           /\ \A i \in P : Rank(P, i) \in 1 .. Cardinality(P)
           /\ \A i, h \in P : Rank(P, i) = Rank(P, h) => i = h
           /\ \A j \in 1 .. Cardinality(P) : \E i \in P : Rank(P, i) = j
<1> DEFINE B == [i \in P |-> {h \in P : h < i}]
           N == Cardinality(P)
<1>1. N \in Nat
  BY FS_CardinalityType
<1>2. B \in [P -> SUBSET P] /\ \A i \in P : \A h : h \in B[i] <=> h \in P /\ h < i
  OBVIOUS
<1>3. \A i \in P : Rank(P, i) = Cardinality(B[i]) + 1
  <2> TAKE i \in P
  <2>1. {h \in P : h <= i} = B[i] \cup {i} /\ i \notin B[i]
    <3>1. i \notin B[i]
      BY <1>2
    <3>2. \A h \in P : h \in Nat /\ i \in Nat /\ (h <= i <=> h < i \/ h = i)
      OBVIOUS
    <3>3. \A h : h \in {l \in P : l <= i} <=> h \in B[i] \/ h = i
      BY <1>2, <3>2
    <3>4. QED
      BY <3>1, <3>3
  <2>2. B[i] \in SUBSET P
    BY <1>2
  <2> HIDE DEF B
  <2>3. IsFiniteSet(B[i])
    BY <2>2, FS_Subset
  <2>4. Cardinality(B[i] \cup {i}) = Cardinality(B[i]) + 1
    BY <2>1, <2>3, FS_AddElement
  <2>5. QED
    BY <2>1, <2>4 DEF Rank
<1>4. /\ \A x \in P : x \notin B[x]
      /\ \A x, y \in P : x # y => x \in B[y] \/ y \in B[x]
      /\ \A x, y \in P : x \in B[y] => B[x] \subseteq B[y]
  <2> HIDE DEF B
  <2>1. \A x \in P : x \in Nat
    OBVIOUS
  <2>2. \A x \in P : x \notin B[x]
    BY <1>2, <2>1
  <2>3. \A x, y \in P : x # y => x \in B[y] \/ y \in B[x]
    BY <1>2, <2>1
  <2>4. ASSUME NEW x \in P, NEW y \in P, x \in B[y]
        PROVE  B[x] \subseteq B[y]
    <3>1. ASSUME NEW h \in B[x]
          PROVE  h \in B[y]
      <4>1. h \in P /\ h < x
        BY <1>2
      <4>2. x < y
        BY <1>2, <2>4
      <4>3. h < y
        BY <2>1, <4>1, <4>2
      <4>4. QED
        BY <1>2, <4>1, <4>3
    <3>2. QED
      BY <3>1
  <2>5. QED
    BY <2>2, <2>3, <2>4
<1> HIDE DEF B
<1> HIDE DEF N
<1>5. /\ \A x \in P : Cardinality(B[x]) \in 0 .. N - 1
      /\ \A x, y \in P : Cardinality(B[x]) = Cardinality(B[y]) => x = y
      /\ \A i \in 0 .. N - 1 : \E x \in P : Cardinality(B[x]) = i
  <2>1. /\ \A x \in P : Cardinality(B[x]) \in 0 .. Cardinality(P) - 1
        /\ \A x, y \in P : Cardinality(B[x]) = Cardinality(B[y]) => x = y
        /\ \A i \in 0 .. Cardinality(P) - 1 : \E x \in P : Cardinality(B[x]) = i
    BY <1>2, <1>4, Ranks
  <2>2. QED
    BY <2>1, Zenon DEF N
<1>6. \A i \in P : Rank(P, i) \in 1 .. N
  BY <1>1, <1>3, <1>5
<1>7. \A i, h \in P : Rank(P, i) = Rank(P, h) => i = h
  <2> TAKE i, h \in P
  <2> HAVE Rank(P, i) = Rank(P, h)
  <2>1. Cardinality(B[i]) = Cardinality(B[h])
    BY <1>3, <1>5
  <2>2. QED
    BY <1>5, <2>1
<1>8. \A j \in 1 .. N : \E i \in P : Rank(P, i) = j
  <2> TAKE j \in 1 .. N
  <2>1. j - 1 \in 0 .. N - 1 /\ (j - 1) + 1 = j
    BY <1>1
  <2>2. PICK i \in P : Cardinality(B[i]) = j - 1
    BY <1>5, <2>1
  <2>3. QED
    BY <1>3, <2>1, <2>2
<1>9. QED
  BY <1>1, <1>6, <1>7, <1>8 DEF N

LEMMA Images ==
    ASSUME NEW L, IsFiniteSet(L), NEW f, NEW M, M = {f[h] : h \in L},
           \A h, l \in L : f[h] = f[l] => h = l
    PROVE  IsFiniteSet(M) /\ Cardinality(M) = Cardinality(L)
<1> DEFINE F == [h \in L |-> f[h]]
<1>1. F \in [L -> M] /\ \A h \in L : F[h] = f[h]
  OBVIOUS
<1> HIDE DEF F
<1>2. F \in Bijection(L, M)
  BY <1>1 DEF Bijection, Injection, Surjection, IsInjective
<1>3. ExistsBijection(L, M)
  BY <1>2 DEF ExistsBijection
<1>4. QED
  BY <1>3, FS_Bijection

Rising(P, g) == \A i, h \in P : i < h => g[i] < g[h]

ImageOf(P, g) == {g[i] : i \in P}

(* Places may move together: their order counts                            *)
LEMMA RanksMove ==
    ASSUME NEW P, P \subseteq Nat, IsFiniteSet(P), NEW g \in [P -> Nat],
           Rising(P, g), NEW Q, Q = ImageOf(P, g)
    PROVE  /\ IsFiniteSet(Q) /\ Cardinality(Q) = Cardinality(P) /\ Q \subseteq Nat
           /\ \A i \in P : g[i] \in Q /\ Rank(Q, g[i]) = Rank(P, i)
<1>1. \A i, h \in P : g[i] = g[h] => i = h
  <2> TAKE i, h \in P
  <2>1. /\ i \in Nat /\ h \in Nat /\ g[i] \in Nat /\ g[h] \in Nat
        /\ i < h => g[i] < g[h]
        /\ h < i => g[h] < g[i]
    BY DEF Rising
  <2>2. QED
    BY <2>1
<1>2. IsFiniteSet(Q) /\ Cardinality(Q) = Cardinality(P)
  <2>1. Q = {g[i] : i \in P}
    BY DEF ImageOf
  <2>2. QED
    BY <1>1, <2>1, Images
<1>3. Q \subseteq Nat
  BY DEF ImageOf
<1>4. ASSUME NEW i \in P
      PROVE  g[i] \in Q /\ Rank(Q, g[i]) = Rank(P, i)
  <2>1. \A x : x \in Q <=> \E h \in P : x = g[h]
    BY DEF ImageOf
  <2> DEFINE L == {h \in P : h <= i}
             M == {x \in Q : x <= g[i]}
  <2>2. \A h \in P : h <= i <=> g[h] <= g[i]
    <3> TAKE h \in P
    <3>1. /\ i \in Nat /\ h \in Nat /\ g[i] \in Nat /\ g[h] \in Nat
          /\ i < h => g[i] < g[h]
          /\ h < i => g[h] < g[i]
      BY DEF Rising
    <3>2. QED
      BY <3>1
  <2>3. M = {g[h] : h \in L}
    <3>1. \A x : x \in M <=> \E h \in L : x = g[h]
      BY <2>1, <2>2
    <3>2. QED
      BY <3>1
  <2>4. \A h, l \in L : g[h] = g[l] => h = l
    BY <1>1
  <2>5. IsFiniteSet(L)
    <3>1. L \in SUBSET P
      OBVIOUS
    <3>2. QED
      BY <3>1, FS_Subset
  <2> HIDE DEF L, M
  <2>6. Cardinality(M) = Cardinality(L)
    BY <2>3, <2>4, <2>5, Images
  <2>7. QED
    BY <2>1, <2>6 DEF Rank, L, M
<1>5. QED
  BY <1>2, <1>3, <1>4

(* The first place                                                         *)
WithoutFirst(P, p, R) ==
    /\ P \subseteq Nat /\ IsFiniteSet(P)
    /\ p \in P /\ \A i \in P : p <= i
    /\ R = P \ {p}

LEMMA RankOfFirst ==
    ASSUME NEW P, NEW p, NEW R, WithoutFirst(P, p, R)
    PROVE  /\ Rank(P, p) = 1
           /\ IsFiniteSet(R) /\ Cardinality(R) = Cardinality(P) - 1
           /\ \A i \in R : Rank(P, i) = Rank(R, i) + 1
<1>1. P \subseteq Nat /\ IsFiniteSet(P) /\ p \in P /\ R = P \ {p}
  BY DEF WithoutFirst
<1>2. p \in P /\ \A i \in P : i \in Nat /\ p \in Nat /\ (i <= p <=> i = p)
  BY DEF WithoutFirst
<1>3. {h \in P : h <= p} = {p}
  BY <1>2
<1>4. Rank(P, p) = 1
  BY <1>3, FS_Singleton DEF Rank
<1>5. IsFiniteSet(R) /\ Cardinality(R) = Cardinality(P) - 1
  BY <1>1, FS_RemoveElement
<1>6. ASSUME NEW i \in R
      PROVE  Rank(P, i) = Rank(R, i) + 1
  <2> DEFINE L == {h \in R : h <= i}
  <2>1. {h \in P : h <= i} = L \cup {p} /\ p \notin L
    <3>1. i \in P /\ p <= i /\ p \in P
      BY DEF WithoutFirst
    <3>2. \A h : h \in {l \in P : l <= i} <=> h \in L \/ h = p
      BY <1>1, <3>1
    <3>3. QED
      BY <1>1, <3>2
  <2>2. L \in SUBSET P
    BY <1>1
  <2>3. IsFiniteSet(L)
    BY <1>1, <2>2, FS_Subset
  <2>4. Rank(R, i) = Cardinality(L) /\ Rank(P, i) = Cardinality(L \cup {p})
    BY <2>1 DEF Rank
  <2>5. p \notin L
    BY <2>1
  <2> HIDE DEF L
  <2>6. QED
    BY <2>3, <2>4, <2>5, FS_AddElement
<1>7. QED
  BY <1>4, <1>5, <1>6

-----------------------------------------------------------------------------
(* The values a table holds under a key                                    *)
ValuesUnder(t, k) ==
    LET P == Places(t, k)
    IN  [j \in 1 .. Cardinality(P) |-> ValueAt(t, k, CHOOSE i \in P : Rank(P, i) = j)]

LEMMA ContentIs == Content = [k \in Key |-> ValuesUnder(table, k)]
BY DEF Content, ValuesUnder

LEMMA PlacesFacts ==
    ASSUME NEW t, TableOK(t), NEW k \in Key
    PROVE  /\ \A i : i \in Places(t, k) <=> /\ i \in 1 .. Len(t.chains[Column(k)])
                                            /\ t.nodes[t.chains[Column(k)][i]][1] = k
           /\ Places(t, k) \subseteq Nat /\ IsFiniteSet(Places(t, k))
           /\ \A i \in Places(t, k) : ValueAt(t, k, i) \in Val
           /\ Exists(t, k) <=> Places(t, k) # {}
           /\ Exists(t, k) => /\ Find(t, k) \in Places(t, k)
                              /\ \A i \in Places(t, k) : Find(t, k) <= i
<1> DEFINE c == Column(k)
<1>1. t \in Table /\ ChainsOK(t) /\ c \in Columns
  BY ColumnType DEF TableOK
<1>2. Len(t.chains[c]) \in Nat /\ DOMAIN t.chains[c] = 1 .. Len(t.chains[c])
  BY <1>1 DEF Table
<1>3. \A i : i \in Places(t, k) <=> i \in 1 .. Len(t.chains[c]) /\ t.nodes[t.chains[c][i]][1] = k
  BY <1>2 DEF Places
<1>4. Places(t, k) \in SUBSET (1 .. Len(t.chains[c]))
  BY <1>3
<1>5. Places(t, k) \subseteq Nat /\ IsFiniteSet(Places(t, k))
  <2>1. IsFiniteSet(1 .. Len(t.chains[c]))
    BY <1>2, FS_Interval
  <2>2. IsFiniteSet(Places(t, k))
    BY <1>4, <2>1, FS_Subset
  <2>3. QED
    BY <1>4, <2>2
<1>6. \A i \in Places(t, k) : ValueAt(t, k, i) \in Val
  <2> TAKE i \in Places(t, k)
  <2>1. t.nodes[t.chains[c][i]] \in Item
    BY <1>1, <1>3 DEF ChainsOK
  <2>2. QED
    BY <2>1 DEF ValueAt, Item
<1>7. Exists(t, k) <=> Places(t, k) # {}
  BY <1>1, <1>3, FindFacts
<1>8. ASSUME Exists(t, k)
      PROVE  Find(t, k) \in Places(t, k) /\ \A i \in Places(t, k) : Find(t, k) <= i
  <2>1. /\ Find(t, k) \in 1 .. Len(t.chains[c])
        /\ t.nodes[t.chains[c][Find(t, k)]][1] = k
        /\ \A i \in 1 .. Find(t, k) - 1 : t.nodes[t.chains[c][i]][1] # k
    BY <1>1, <1>8, FindFacts
  <2>2. QED
    BY <1>2, <1>3, <2>1
<1>9. QED
  BY <1>3, <1>5, <1>6, <1>7, <1>8

(* The value at a place is at the place's rank among those under its key   *)
LEMMA ValuesByRank ==
    ASSUME NEW t, TableOK(t), NEW k \in Key
    PROVE  /\ ValuesUnder(t, k) \in Seq(Val)
           /\ Len(ValuesUnder(t, k)) = Cardinality(Places(t, k))
           /\ \A i \in Places(t, k) : ValuesUnder(t, k)[Rank(Places(t, k), i)] = ValueAt(t, k, i)
<1>1. PICK P : P = Places(t, k)
  OBVIOUS
<1>2. P \subseteq Nat /\ IsFiniteSet(P) /\ \A i \in P : ValueAt(t, k, i) \in Val
  BY <1>1, PlacesFacts
<1>3. /\ Cardinality(P) \in Nat
      /\ \A i \in P : Rank(P, i) \in 1 .. Cardinality(P)
      /\ \A i, h \in P : Rank(P, i) = Rank(P, h) => i = h
      /\ \A j \in 1 .. Cardinality(P) : \E i \in P : Rank(P, i) = j
  BY <1>2, RankFacts
<1>4. PICK m \in Nat : m = Cardinality(P)
  BY <1>3
<1> DEFINE place(j) == CHOOSE i \in P : Rank(P, i) = j
<1>5. ValuesUnder(t, k) = [j \in 1 .. m |-> ValueAt(t, k, place(j))]
  BY <1>1, <1>4 DEF ValuesUnder
<1>6. \A j \in 1 .. m : place(j) \in P /\ Rank(P, place(j)) = j
  BY <1>3, <1>4
<1> HIDE DEF place
<1>7. ValuesUnder(t, k) \in [1 .. m -> Val]
  BY <1>2, <1>5, <1>6
<1>8. ValuesUnder(t, k) \in Seq(Val) /\ Len(ValuesUnder(t, k)) = m
  BY <1>7
<1>9. \A i \in P : ValuesUnder(t, k)[Rank(P, i)] = ValueAt(t, k, i)
  <2> TAKE i \in P
  <2>1. PICK j \in 1 .. m : j = Rank(P, i)
    BY <1>3, <1>4
  <2>2. place(j) = i
    BY <1>3, <1>6, <2>1
  <2>3. QED
    BY <1>5, <2>1, <2>2
<1>10. QED
  BY <1>1, <1>4, <1>8, <1>9

(* and nothing else is                                                     *)
LEMMA ValuesAre ==
    ASSUME NEW t, TableOK(t), NEW k \in Key, NEW s \in Seq(Val),
           Len(s) = Cardinality(Places(t, k)),
           \A i \in Places(t, k) : s[Rank(Places(t, k), i)] = ValueAt(t, k, i)
    PROVE  ValuesUnder(t, k) = s
<1>1. PICK P : P = Places(t, k)
  OBVIOUS
<1>2. PICK v \in Seq(Val) : v = ValuesUnder(t, k)
  BY ValuesByRank
<1>3. Len(v) = Len(s) /\ \A i \in P : v[Rank(P, i)] = s[Rank(P, i)]
  BY <1>1, <1>2, ValuesByRank
<1>4. \A j \in 1 .. Cardinality(P) : \E i \in P : Rank(P, i) = j
  <2>1. P \subseteq Nat /\ IsFiniteSet(P)
    BY <1>1, PlacesFacts
  <2>2. QED
    BY <2>1, RankFacts
<1>5. \A j \in 1 .. Len(s) : v[j] = s[j]
  <2> TAKE j \in 1 .. Len(s)
  <2>1. PICK i \in P : Rank(P, i) = j
    BY <1>1, <1>4
  <2>2. QED
    BY <1>3, <2>1
<1>6. v = s
  BY <1>3, <1>5
<1>7. QED
  BY <1>2, <1>6

-----------------------------------------------------------------------------
(* Insert puts a value before the others                                   *)
LEMMA InsertPlaces ==
    ASSUME NEW t, TableOK(t), NEW k \in Key, NEW v \in Val, ~Full(t), NEW h \in Key
    PROVE  LET u == InsertKey(t, k, v)
           IN  /\ Column(h) # Column(k) =>
                      /\ \A i : i \in Places(u, h) <=> i \in Places(t, h)
                      /\ \A i \in Places(t, h) : ValueAt(u, h, i) = ValueAt(t, h, i)
               /\ Column(h) = Column(k) =>
                      /\ \A i : i \in Places(u, h) <=>
                                   (i = 1 /\ h = k) \/ \E j \in Places(t, h) : i = j + 1
                      /\ \A j \in Places(t, h) : ValueAt(u, h, j + 1) = ValueAt(t, h, j)
               /\ ValueAt(u, k, 1) = v
<1> DEFINE n == Head(t.free)
           u == InsertKey(t, k, v)
           c == Column(k)
           d == Column(h)
<1>1. t \in Table /\ SizeOK(t) /\ TableOK(u)
  BY InsertOK DEF TableOK
<1>2. n \in Nodes /\ u \in Table
  BY <1>1, InsertRest
<1>3. u.nodes = [t.nodes EXCEPT ![n] = <<k, v>>]
  BY <1>1, InsertNodes
<1>4. u.chains = [t.chains EXCEPT ![c] = <<n>> \o @]
  BY <1>1, InsertChain
<1>5. n \notin Chained(t)
  BY InsertChained
<1>6. /\ \A i : i \in Places(t, h) <=> i \in 1 .. Len(t.chains[d]) /\ t.nodes[t.chains[d][i]][1] = h
      /\ \A i : i \in Places(u, h) <=> i \in 1 .. Len(u.chains[d]) /\ u.nodes[u.chains[d][i]][1] = h
  BY <1>1, PlacesFacts
<1>7. /\ \A i : ValueAt(u, h, i) = u.nodes[u.chains[d][i]][2]
      /\ \A i : ValueAt(t, h, i) = t.nodes[t.chains[d][i]][2]
      /\ ValueAt(u, k, 1) = u.nodes[u.chains[c][1]][2]
  BY DEF ValueAt
<1>8. c \in Columns /\ d \in Columns
  BY ColumnType
<1> HIDE DEF n, u, c, d
<1>9. /\ t.chains[c] \in Seq(Nodes) /\ u.chains[c] = <<n>> \o t.chains[c]
      /\ d # c => u.chains[d] = t.chains[d]
  BY <1>1, <1>4, <1>8 DEF Table
<1>10. /\ Len(u.chains[c]) = Len(t.chains[c]) + 1 /\ Len(t.chains[c]) \in Nat
       /\ u.chains[c][1] = n
       /\ \A i \in 1 .. Len(t.chains[c]) : u.chains[c][i + 1] = t.chains[c][i]
  BY <1>2, <1>9, Prepended
<1>11. u.nodes[n] = <<k, v>>
  BY <1>1, <1>2, <1>3 DEF Table
<1>12. \A i \in 1 .. Len(t.chains[d]) : u.nodes[t.chains[d][i]] = t.nodes[t.chains[d][i]]
  <2> TAKE i \in 1 .. Len(t.chains[d])
  <2>1. t.chains[d][i] \in Chained(t) /\ Chained(t) \subseteq Nodes
    BY <1>1, <1>8, ChainedNodes
  <2>2. QED
    BY <1>1, <1>3, <1>5, <2>1 DEF Table
<1>13. ValueAt(u, k, 1) = v
  BY <1>7, <1>10, <1>11
<1>14. ASSUME d # c
       PROVE  /\ \A i : i \in Places(u, h) <=> i \in Places(t, h)
              /\ \A i \in Places(t, h) : ValueAt(u, h, i) = ValueAt(t, h, i)
  <2>1. u.chains[d] = t.chains[d]
    BY <1>9, <1>14
  <2>2. \A i \in 1 .. Len(t.chains[d]) : u.nodes[u.chains[d][i]] = t.nodes[t.chains[d][i]]
    BY <1>12, <2>1
  <2>3. \A i : i \in Places(u, h) <=> i \in Places(t, h)
    BY <1>6, <2>1, <2>2
  <2>4. ASSUME NEW i \in Places(t, h)
        PROVE  ValueAt(u, h, i) = ValueAt(t, h, i)
    <3>1. i \in 1 .. Len(t.chains[d])
      BY <1>6
    <3>2. QED
      BY <1>7, <2>2, <3>1
  <2>5. QED
    BY <2>3, <2>4
<1>15. ASSUME d = c
       PROVE  /\ \A i : i \in Places(u, h) <=>
                           (i = 1 /\ h = k) \/ \E j \in Places(t, h) : i = j + 1
              /\ \A j \in Places(t, h) : ValueAt(u, h, j + 1) = ValueAt(t, h, j)
  <2>1. \A j \in 1 .. Len(t.chains[c]) : u.nodes[u.chains[c][j + 1]] = t.nodes[t.chains[c][j]]
    BY <1>10, <1>12, <1>15
  <2>2. \A i : i \in 1 .. Len(u.chains[c]) <=>
                  i = 1 \/ \E j \in 1 .. Len(t.chains[c]) : i = j + 1
    <3> TAKE i
    <3>1. ASSUME i \in 1 .. Len(u.chains[c]), i # 1
          PROVE  \E j \in 1 .. Len(t.chains[c]) : i = j + 1
      <4>1. i - 1 \in 1 .. Len(t.chains[c]) /\ i = (i - 1) + 1
        BY <1>10, <3>1
      <4>2. QED
        BY <4>1
    <3>2. i = 1 => i \in 1 .. Len(u.chains[c])
      BY <1>10
    <3>3. (\E j \in 1 .. Len(t.chains[c]) : i = j + 1) => i \in 1 .. Len(u.chains[c])
      BY <1>10
    <3>4. QED
      BY <3>1, <3>2, <3>3, Zenon
  <2>3. \A i : i \in Places(u, h) <=>
                  (i = 1 /\ h = k) \/ \E j \in Places(t, h) : i = j + 1
    <3> TAKE i
    <3>1. ASSUME i \in Places(u, h)
          PROVE  (i = 1 /\ h = k) \/ \E j \in Places(t, h) : i = j + 1
      <4>1. i \in 1 .. Len(u.chains[c]) /\ u.nodes[u.chains[c][i]][1] = h
        BY <1>6, <1>15, <3>1
      <4>2. CASE i = 1
        BY <1>10, <1>11, <4>1, <4>2
      <4>3. CASE i # 1
        <5>1. PICK j \in 1 .. Len(t.chains[c]) : i = j + 1
          BY <2>2, <4>1, <4>3
        <5>2. j \in Places(t, h)
          BY <1>6, <1>15, <2>1, <4>1, <5>1
        <5>3. QED
          BY <5>1, <5>2
      <4>4. QED
        BY <4>2, <4>3
    <3>2. ASSUME i = 1, h = k
          PROVE  i \in Places(u, h)
      <4>1. i \in 1 .. Len(u.chains[c]) /\ u.nodes[u.chains[c][i]][1] = h
        BY <1>10, <1>11, <3>2
      <4>2. QED
        BY <1>6, <1>15, <4>1
    <3>3. ASSUME NEW j \in Places(t, h), i = j + 1
          PROVE  i \in Places(u, h)
      <4>1. j \in 1 .. Len(t.chains[c]) /\ t.nodes[t.chains[c][j]][1] = h
        BY <1>6, <1>15
      <4>2. i \in 1 .. Len(u.chains[c]) /\ u.nodes[u.chains[c][i]][1] = h
        BY <2>1, <2>2, <3>3, <4>1
      <4>3. QED
        BY <1>6, <1>15, <4>2
    <3>4. QED
      BY <3>1, <3>2, <3>3
  <2>4. ASSUME NEW j \in Places(t, h)
        PROVE  ValueAt(u, h, j + 1) = ValueAt(t, h, j)
    <3>1. j \in 1 .. Len(t.chains[c])
      BY <1>6, <1>15
    <3>2. u.nodes[u.chains[c][j + 1]] = t.nodes[t.chains[c][j]]
      BY <2>1, <3>1
    <3>3. QED
      BY <1>7, <1>15, <3>2
  <2>5. QED
    BY <2>3, <2>4
<1>16. QED
  BY <1>13, <1>14, <1>15 DEF u, c, d

LEMMA InsertValues ==
    ASSUME NEW t, TableOK(t), NEW k \in Key, NEW v \in Val, ~Full(t), NEW h \in Key
    PROVE  ValuesUnder(InsertKey(t, k, v), h) =
               IF h = k THEN <<v>> \o ValuesUnder(t, h) ELSE ValuesUnder(t, h)
<1>1. PICK u : u = InsertKey(t, k, v)
  OBVIOUS
<1>2. PICK P : P = Places(t, h)
  OBVIOUS
<1>3. PICK Q : Q = Places(u, h)
  OBVIOUS
<1>4. PICK s \in Seq(Val) : s = ValuesUnder(t, h)
  BY ValuesByRank
<1>5. /\ Len(s) = Cardinality(P) /\ \A i \in P : s[Rank(P, i)] = ValueAt(t, h, i)
      /\ P \subseteq Nat /\ IsFiniteSet(P) /\ \A i \in P : i >= 1
  <2>1. Len(s) = Cardinality(P) /\ \A i \in P : s[Rank(P, i)] = ValueAt(t, h, i)
    BY <1>2, <1>4, ValuesByRank
  <2>2. P \subseteq Nat /\ IsFiniteSet(P) /\ \A i \in P : i \in 1 .. Len(t.chains[Column(h)])
    BY <1>2, PlacesFacts
  <2>3. QED
    BY <2>1, <2>2
<1>6. TableOK(u)
  BY <1>1, InsertOK
<1>7. /\ Column(h) # Column(k) =>
             /\ \A i : i \in Q <=> i \in P
             /\ \A i \in P : ValueAt(u, h, i) = ValueAt(t, h, i)
      /\ Column(h) = Column(k) =>
             /\ \A i : i \in Q <=> (i = 1 /\ h = k) \/ \E j \in P : i = j + 1
             /\ \A j \in P : ValueAt(u, h, j + 1) = ValueAt(t, h, j)
      /\ ValueAt(u, k, 1) = v
  BY <1>1, <1>2, <1>3, InsertPlaces
<1>8. CASE Column(h) # Column(k)
  <2>1. Q = P
    BY <1>7, <1>8
  <2>2. Len(s) = Cardinality(Q) /\ \A i \in Q : s[Rank(Q, i)] = ValueAt(u, h, i)
    BY <1>5, <1>7, <1>8, <2>1
  <2>3. ValuesUnder(u, h) = s
    BY <1>3, <1>6, <2>2, ValuesAre
  <2>4. QED
    BY <1>1, <1>4, <1>8, <2>3
<1>9. CASE Column(h) = Column(k)
  <2>1. PICK g : g = [i \in P |-> i + 1]
    OBVIOUS
  <2>2. PICK R : R = {g[i] : i \in P}
    OBVIOUS
  <2>3. /\ \A i \in P : g[i] = i + 1 /\ g[i] \in Nat
        /\ \A i, j \in P : i < j => g[i] < g[j]
        /\ \A x : x \in R <=> \E i \in P : x = g[i]
    <3>1. \A i \in P : i \in Nat
      BY <1>5
    <3>2. QED
      BY <2>1, <2>2, <3>1
  <2>4. \A x : x \in Q <=> (x = 1 /\ h = k) \/ x \in R
    BY <1>7, <1>9, <2>3
  <2>5. /\ IsFiniteSet(R) /\ Cardinality(R) = Cardinality(P) /\ R \subseteq Nat
        /\ \A i \in P : g[i] \in R /\ Rank(R, g[i]) = Rank(P, i)
    <3>1. P \subseteq Nat /\ IsFiniteSet(P)
      BY <1>5
    <3>2. /\ g \in [P -> Nat]
          /\ Rising(P, g)
          /\ R = ImageOf(P, g)
      BY <2>1, <2>2, <2>3 DEF Rising, ImageOf
    <3>3. QED
      BY <3>1, <3>2, RanksMove
  <2>6. \A x \in R : \E i \in P : x = g[i] /\ x = i + 1 /\ i \in Nat /\ i >= 1
    BY <1>5, <2>3
  <2>7. CASE h # k
    <3>1. Q = R
      BY <2>4, <2>7
    <3>2. ASSUME NEW x \in R
          PROVE  s[Rank(R, x)] = ValueAt(u, h, x)
      <4>1. PICK i \in P : x = g[i] /\ x = i + 1
        BY <2>6
      <4>2. Rank(R, x) = Rank(P, i)
        BY <2>5, <4>1
      <4>3. ValueAt(u, h, x) = ValueAt(t, h, i)
        BY <1>7, <1>9, <4>1
      <4>4. QED
        BY <1>5, <4>2, <4>3
    <3>3. Len(s) = Cardinality(Q) /\ \A i \in Q : s[Rank(Q, i)] = ValueAt(u, h, i)
      BY <1>5, <2>5, <3>1, <3>2
    <3>4. ValuesUnder(u, h) = s
      BY <1>3, <1>6, <3>3, ValuesAre
    <3>5. QED
      BY <1>1, <1>4, <2>7, <3>4
  <2>8. CASE h = k
    <3>1. 1 \notin R /\ \A i \in R : 1 <= i
      BY <2>6
    <3>2. Q = R \cup {1}
      BY <2>4, <2>8
    <3>3. Q \subseteq Nat /\ IsFiniteSet(Q) /\ 1 \in Q /\ \A i \in Q : 1 <= i
      <4>1. Q \subseteq Nat /\ 1 \in Q /\ \A i \in Q : 1 <= i
        BY <2>5, <3>1, <3>2
      <4>2. IsFiniteSet(Q)
        BY <2>5, <3>2, FS_AddElement
      <4>3. QED
        BY <4>1, <4>2
    <3>4. WithoutFirst(Q, 1, R)
      BY <3>1, <3>2, <3>3 DEF WithoutFirst
    <3>5. /\ Rank(Q, 1) = 1
          /\ Cardinality(R) = Cardinality(Q) - 1
          /\ \A i \in R : Rank(Q, i) = Rank(R, i) + 1
      BY <3>4, RankOfFirst
    <3>6. PICK longer : longer = <<v>> \o s
      OBVIOUS
    <3>7. /\ longer \in Seq(Val) /\ Len(longer) = Len(s) + 1 /\ longer[1] = v
          /\ \A i \in 1 .. Len(s) : longer[i + 1] = s[i]
      BY <3>6, Prepended
    <3>8. Len(longer) = Cardinality(Q)
      <4>1. PICK q \in Nat : q = Cardinality(Q)
        BY <3>3, FS_CardinalityType
      <4>2. PICK m \in Nat : m = Len(s)
        OBVIOUS
      <4>3. m = q - 1
        BY <1>5, <2>5, <3>5, <4>1, <4>2
      <4>4. Len(longer) = m + 1
        BY <3>7, <4>2
      <4>5. QED
        BY <4>1, <4>3, <4>4
    <3>9. \A i \in P : Rank(P, i) \in 1 .. Len(s)
      <4>1. P \subseteq Nat /\ IsFiniteSet(P) /\ Len(s) = Cardinality(P)
        BY <1>5
      <4>2. QED
        BY <4>1, RankFacts
    <3>10. ASSUME NEW x \in Q
           PROVE  longer[Rank(Q, x)] = ValueAt(u, h, x)
      <4>1. CASE x = 1
        BY <1>7, <2>8, <3>5, <3>7, <4>1
      <4>2. CASE x # 1
        <5>1. x \in R
          BY <3>2, <4>2
        <5>2. PICK i \in P : x = g[i] /\ x = i + 1
          BY <2>6, <5>1
        <5>3. Rank(Q, x) = Rank(P, i) + 1
          BY <2>5, <3>5, <5>1, <5>2
        <5>4. longer[Rank(Q, x)] = s[Rank(P, i)]
          BY <3>7, <3>9, <5>3
        <5>5. QED
          BY <1>5, <1>7, <1>9, <5>2, <5>4
      <4>3. QED
        BY <4>1, <4>2
    <3>11. ValuesUnder(u, h) = longer
      BY <1>3, <1>6, <3>7, <3>8, <3>10, ValuesAre
    <3>12. QED
      BY <1>1, <1>4, <2>8, <3>6, <3>11
  <2>9. QED
    BY <2>7, <2>8
<1>10. QED
  BY <1>8, <1>9
-----------------------------------------------------------------------------
(* Remove takes the first of them away                                     *)
LEMMA RemovePlaces ==
    ASSUME NEW t, TableOK(t), NEW k \in Key, Exists(t, k), NEW h \in Key,
           NEW after, after = RemoveKey(t, k), NEW q, q = Find(t, k)
    PROVE  /\ Column(h) # Column(k) =>
                  /\ \A i : i \in Places(after, h) <=> i \in Places(t, h)
                  /\ \A i \in Places(t, h) : ValueAt(after, h, i) = ValueAt(t, h, i)
           /\ Column(h) = Column(k) =>
                  /\ \A i : i \in Places(after, h) <=>
                               \E j \in Places(t, h) : j # q /\ i = IF j < q THEN j ELSE j - 1
                  /\ \A j \in Places(t, h) : j # q =>
                         ValueAt(after, h, IF j < q THEN j ELSE j - 1) = ValueAt(t, h, j)
                  /\ q \in Places(t, h) => h = k
<1> DEFINE to(p, j) == IF j < p THEN j ELSE j - 1
<1>1. PICK n : n = NodeOf(t, k)
  OBVIOUS
<1>2. PICK u : u = RemoveKey(t, k)
  OBVIOUS
<1>3. PICK c \in Columns : c = Column(k)
  BY ColumnType
<1>4. PICK d \in Columns : d = Column(h)
  BY ColumnType
<1>5. t \in Table /\ ChainsOK(t) /\ u \in Table /\ TableOK(u)
  BY <1>2, RemoveRest, RemoveOK DEF TableOK
<1>6. PICK s \in Seq(Nodes) : s = t.chains[c]
  BY <1>5 DEF Table
<1>7. PICK p \in 1 .. Len(s) : p = Find(t, k)
  BY <1>3, <1>6, NodeOfFacts
<1>8. n = s[p] /\ n \in Nodes /\ t.nodes[n][1] = k
  BY <1>1, <1>3, <1>6, <1>7, NodeOfFacts DEF NodeOf
<1>9. u.nodes = [t.nodes EXCEPT ![n] = <<>>]
  BY <1>1, <1>2, RemoveNodes
<1>10. u.chains = [t.chains EXCEPT ![c] = RemoveAt(@, p)]
  BY <1>2, <1>3, <1>7, RemoveChain
<1>11. \A m \in Nodes : m # n => u.nodes[m] = t.nodes[m]
  BY <1>5, <1>9 DEF Table
<1>12. u.chains[c] = RemoveAt(s, p) /\ (d # c => u.chains[d] = t.chains[d])
  BY <1>5, <1>6, <1>10 DEF Table
<1>13. /\ \A i : i \in Places(t, h) <=> i \in 1 .. Len(t.chains[d]) /\ t.nodes[t.chains[d][i]][1] = h
       /\ \A i : i \in Places(u, h) <=> i \in 1 .. Len(u.chains[d]) /\ u.nodes[u.chains[d][i]][1] = h
  BY <1>4, <1>5, PlacesFacts DEF TableOK
<1>14. /\ \A i : ValueAt(u, h, i) = u.nodes[u.chains[d][i]][2]
       /\ \A i : ValueAt(t, h, i) = t.nodes[t.chains[d][i]][2]
  BY <1>4 DEF ValueAt
<1>15. ASSUME d # c
       PROVE  /\ \A i : i \in Places(u, h) <=> i \in Places(t, h)
              /\ \A i \in Places(t, h) : ValueAt(u, h, i) = ValueAt(t, h, i)
  <2>1. u.chains[d] = t.chains[d]
    BY <1>12, <1>15
  <2>2. ASSUME NEW i \in 1 .. Len(t.chains[d])
        PROVE  u.nodes[u.chains[d][i]] = t.nodes[t.chains[d][i]]
    <3>1. t.chains[d][i] \in Nodes
      BY <1>5 DEF Table
    <3>2. t.chains[d][i] # n
      <4>1. Column(t.nodes[t.chains[d][i]][1]) = d
        BY <1>5 DEF ChainsOK
      <4>2. QED
        BY <1>3, <1>8, <1>15, <4>1
    <3>3. QED
      BY <1>11, <2>1, <3>1, <3>2
  <2>3. \A i : i \in Places(u, h) <=> i \in Places(t, h)
    BY <1>13, <2>1, <2>2
  <2>4. ASSUME NEW i \in Places(t, h)
        PROVE  ValueAt(u, h, i) = ValueAt(t, h, i)
    <3>1. i \in 1 .. Len(t.chains[d])
      BY <1>13
    <3>2. u.nodes[u.chains[d][i]] = t.nodes[t.chains[d][i]]
      BY <2>2, <3>1
    <3>3. QED
      BY <1>14, <3>2
  <2>5. QED
    BY <2>3, <2>4
<1>16. ASSUME d = c
       PROVE  /\ \A i : i \in Places(u, h) <=> \E j \in Places(t, h) : j # p /\ i = to(p, j)
              /\ \A j \in Places(t, h) : j # p => ValueAt(u, h, to(p, j)) = ValueAt(t, h, j)
  <2>1. PICK r \in Seq(Nodes) : r = RemoveAt(s, p)
    BY Removed
  <2>2. /\ Len(r) = Len(s) - 1 /\ Len(s) \in Nat
        /\ \A i \in 1 .. Len(s) - 1 : r[i] = IF i < p THEN s[i] ELSE s[i + 1]
    <3>1. /\ Len(RemoveAt(s, p)) = Len(s) - 1
          /\ \A i \in 1 .. Len(s) - 1 :
                RemoveAt(s, p)[i] = IF i < p THEN s[i] ELSE s[i + 1]
      BY Removed
    <3>2. QED
      BY <2>1, <3>1
  <2>3. \A i \in 1 .. Len(s) : s[i] \in Nodes /\ (i # p => s[i] # n)
    <3> TAKE i \in 1 .. Len(s)
    <3>1. \A j \in 1 .. Len(s) : s[i] = s[j] => i = j
      BY <1>5, <1>6 DEF ChainsOK
    <3>2. QED
      BY <1>8, <3>1
  <2>4. ASSUME NEW j \in 1 .. Len(s), j # p
        PROVE  to(p, j) \in 1 .. Len(r) /\ r[to(p, j)] = s[j] /\ u.nodes[s[j]] = t.nodes[s[j]]
    <3>1. to(p, j) \in 1 .. Len(s) - 1
      BY <2>2, <2>4
    <3>2. r[to(p, j)] = s[j]
      BY <2>2, <2>4, <3>1
    <3>3. QED
      BY <1>11, <2>2, <2>3, <2>4, <3>1, <3>2
  <2>5. ASSUME NEW i \in 1 .. Len(r)
        PROVE  \E j \in 1 .. Len(s) : j # p /\ i = to(p, j)
    <3>1. CASE i < p
      <4>1. i \in 1 .. Len(s) /\ i # p /\ i = to(p, i)
        BY <2>2, <3>1
      <4>2. QED
        BY <4>1
    <3>2. CASE ~(i < p)
      <4>1. i + 1 \in 1 .. Len(s) /\ i + 1 # p /\ i = to(p, i + 1)
        BY <2>2, <3>2
      <4>2. QED
        BY <4>1
    <3>3. QED
      BY <3>1, <3>2
  <2> HIDE DEF to
  <2>6. u.chains[d] = r /\ t.chains[d] = s
    BY <1>6, <1>12, <1>16, <2>1
  <2>7. ASSUME NEW i, i \in Places(u, h)
        PROVE  \E j \in Places(t, h) : j # p /\ i = to(p, j)
    <3>1. i \in 1 .. Len(r) /\ u.nodes[r[i]][1] = h
      BY <1>13, <2>6, <2>7
    <3>2. PICK j \in 1 .. Len(s) : j # p /\ i = to(p, j)
      BY <2>5, <3>1
    <3>3. t.nodes[s[j]][1] = h
      BY <2>4, <3>1, <3>2
    <3>4. QED
      BY <1>13, <2>6, <3>2, <3>3
  <2>8. ASSUME NEW j \in Places(t, h), j # p
        PROVE  to(p, j) \in Places(u, h) /\ ValueAt(u, h, to(p, j)) = ValueAt(t, h, j)
    <3>1. j \in 1 .. Len(s) /\ t.nodes[s[j]][1] = h
      BY <1>13, <2>6
    <3>2. to(p, j) \in 1 .. Len(r) /\ r[to(p, j)] = s[j] /\ u.nodes[s[j]] = t.nodes[s[j]]
      BY <2>4, <2>8, <3>1
    <3>3. to(p, j) \in Places(u, h)
      BY <1>13, <2>6, <3>1, <3>2
    <3>4. QED
      BY <1>14, <2>6, <3>2, <3>3
  <2>9. QED
    BY <2>7, <2>8
<1>17. d = c /\ p \in Places(t, h) => h = k
  BY <1>6, <1>8, <1>13
<1>18. QED
  <2>1. d # c => /\ \A i : i \in Places(u, h) <=> i \in Places(t, h)
                 /\ \A i \in Places(t, h) : ValueAt(u, h, i) = ValueAt(t, h, i)
    BY <1>15
  <2>2. d = c => /\ \A i : i \in Places(u, h) <=> \E j \in Places(t, h) : j # p /\ i = to(p, j)
                 /\ \A j \in Places(t, h) : j # p => ValueAt(u, h, to(p, j)) = ValueAt(t, h, j)
                 /\ p \in Places(t, h) => h = k
    BY <1>16, <1>17, Zenon
  <2>3. p = q /\ u = after
    BY <1>2, <1>7
  <2>4. QED
    BY <1>3, <1>4, <2>1, <2>2, <2>3 DEF to

LEMMA RemoveValues ==
    ASSUME NEW t, TableOK(t), NEW k \in Key, Exists(t, k), NEW h \in Key
    PROVE  ValuesUnder(RemoveKey(t, k), h) =
               IF h = k THEN Tail(ValuesUnder(t, h)) ELSE ValuesUnder(t, h)
<1>1. PICK u : u = RemoveKey(t, k)
  OBVIOUS
<1>2. PICK P : P = Places(t, h)
  OBVIOUS
<1>3. PICK Q : Q = Places(u, h)
  OBVIOUS
<1>4. PICK s \in Seq(Val) : s = ValuesUnder(t, h)
  BY ValuesByRank
<1>5. Len(s) = Cardinality(P) /\ \A i \in P : s[Rank(P, i)] = ValueAt(t, h, i)
  BY <1>2, <1>4, ValuesByRank
<1>6. P \subseteq Nat /\ IsFiniteSet(P) /\ \A i \in P : i \in Nat /\ i >= 1
  <2>1. \A i \in P : i \in 1 .. Len(t.chains[Column(h)])
    BY <1>2, PlacesFacts
  <2>2. P \subseteq Nat /\ IsFiniteSet(P)
    BY <1>2, PlacesFacts
  <2>3. QED
    BY <2>1, <2>2
<1>7. TableOK(u)
  BY <1>1, RemoveOK
<1>8. PICK p : p = Find(t, k)
  OBVIOUS
<1>9. /\ Column(h) # Column(k) =>
             /\ \A i : i \in Q <=> i \in P
             /\ \A i \in P : ValueAt(u, h, i) = ValueAt(t, h, i)
      /\ Column(h) = Column(k) =>
             /\ \A i : i \in Q <=> \E j \in P : j # p /\ i = IF j < p THEN j ELSE j - 1
             /\ \A j \in P : j # p =>
                    ValueAt(u, h, IF j < p THEN j ELSE j - 1) = ValueAt(t, h, j)
             /\ p \in P => h = k
  BY <1>1, <1>2, <1>3, <1>8, RemovePlaces
<1>10. p \in Nat /\ p >= 1 /\ (h = k => p \in P /\ \A i \in P : p <= i)
  <2>1. p \in 1 .. Len(t.chains[Column(k)])
    BY <1>8, NodeOfFacts
  <2>2. h = k => p \in P /\ \A i \in P : p <= i
    BY <1>2, <1>8, PlacesFacts
  <2>3. QED
    BY <2>1, <2>2
<1>11. CASE Column(h) # Column(k)
  <2>1. Q = P
    BY <1>9, <1>11
  <2>2. Len(s) = Cardinality(Q) /\ \A i \in Q : s[Rank(Q, i)] = ValueAt(u, h, i)
    BY <1>5, <1>9, <1>11, <2>1
  <2>3. ValuesUnder(u, h) = s
    BY <1>3, <1>7, <2>2, ValuesAre
  <2>4. QED
    BY <1>1, <1>4, <1>11, <2>3
<1>12. CASE Column(h) = Column(k)
  <2>1. PICK L : L = P \ {p}
    OBVIOUS
  <2>2. L \subseteq Nat /\ IsFiniteSet(L) /\ \A j \in L : j \in P /\ j # p
    <3>1. L \in SUBSET P
      BY <2>1
    <3>2. IsFiniteSet(L)
      BY <1>6, <3>1, FS_Subset
    <3>3. QED
      BY <1>6, <2>1, <3>2
  <2>3. PICK g : g = [j \in L |-> IF j < p THEN j ELSE j - 1]
    OBVIOUS
  <2>4. \A j \in L : g[j] = IF j < p THEN j ELSE j - 1
    BY <2>3
  <2>5. \A j \in L : /\ g[j] \in Nat
                     /\ \A i \in L : i < j => g[i] < g[j]
    <3> TAKE j \in L
    <3>1. j \in Nat /\ j # p /\ j >= 1
      BY <1>6, <2>2
    <3>2. g[j] \in Nat
      BY <1>10, <2>4, <3>1
    <3>3. ASSUME NEW i \in L, i < j
          PROVE  g[i] < g[j]
      <4>1. i \in Nat /\ i # p /\ i >= 1
        BY <1>6, <2>2
      <4>2. g[i] = IF i < p THEN i ELSE i - 1
        BY <2>4
      <4>3. g[j] = IF j < p THEN j ELSE j - 1
        BY <2>4
      <4>4. QED
        BY <1>10, <3>1, <3>3, <4>1, <4>2, <4>3
    <3>4. QED
      BY <3>2, <3>3
  <2>6. g \in [L -> Nat]
    BY <2>3, <2>5
  <2>7. Q = {g[j] : j \in L}
    <3>1. \A i : i \in Q <=> \E j \in P : j # p /\ i = IF j < p THEN j ELSE j - 1
      BY <1>9, <1>12
    <3>2. \A i : i \in Q <=> \E j \in L : i = g[j]
      BY <2>1, <2>4, <3>1
    <3>3. QED
      BY <3>2
  <2>8. /\ Cardinality(Q) = Cardinality(L)
        /\ \A j \in L : Rank(Q, g[j]) = Rank(L, j)
    <3>1. Rising(L, g) /\ Q = ImageOf(L, g)
      BY <2>5, <2>7 DEF Rising, ImageOf
    <3>2. QED
      BY <2>2, <2>6, <3>1, RanksMove
  <2>9. \A j \in L : ValueAt(u, h, g[j]) = ValueAt(t, h, j)
    BY <1>9, <1>12, <2>2, <2>4
  <2>10. CASE h # k
    <3>1. L = P
      BY <1>9, <1>12, <2>1, <2>10
    <3>2. \A x \in Q : \E j \in P : x = g[j]
      BY <2>7, <3>1
    <3>3. ASSUME NEW x \in Q
          PROVE  s[Rank(Q, x)] = ValueAt(u, h, x)
      <4>1. PICK j \in P : x = g[j]
        BY <3>2
      <4>2. Rank(Q, x) = Rank(P, j) /\ ValueAt(u, h, x) = ValueAt(t, h, j)
        BY <2>8, <2>9, <3>1, <4>1
      <4>3. QED
        BY <1>5, <4>2
    <3>4. Len(s) = Cardinality(Q) /\ \A i \in Q : s[Rank(Q, i)] = ValueAt(u, h, i)
      BY <1>5, <2>8, <3>1, <3>3
    <3>5. ValuesUnder(u, h) = s
      BY <1>3, <1>7, <3>4, ValuesAre
    <3>6. QED
      BY <1>1, <1>4, <2>10, <3>5
  <2>11. CASE h = k
    <3>1. p \in P /\ \A i \in P : p <= i
      BY <1>10, <2>11
    <3>2. WithoutFirst(P, p, L)
      BY <1>6, <2>1, <3>1 DEF WithoutFirst
    <3>3. /\ Cardinality(L) = Cardinality(P) - 1
          /\ \A i \in L : Rank(P, i) = Rank(L, i) + 1
      BY <3>2, RankOfFirst
    <3>4. \A i \in L : Rank(L, i) \in 1 .. Cardinality(L)
      BY <2>2, RankFacts
    <3>5. PICK m \in Nat : m = Cardinality(L)
      BY <2>2, FS_CardinalityType
    <3>6. PICK l \in Nat : l = Cardinality(P)
      BY <1>6, FS_CardinalityType
    <3>7. Len(s) = m + 1 /\ s # <<>>
      BY <1>5, <3>3, <3>5, <3>6
    <3>8. PICK shorter \in Seq(Val) : shorter = Tail(s)
      BY <3>7, Shortened
    <3>9. Len(shorter) = m /\ \A i \in 1 .. m : shorter[i] = s[i + 1]
      BY <3>7, <3>8, Shortened
    <3>10. ASSUME NEW x \in Q
          PROVE  shorter[Rank(Q, x)] = ValueAt(u, h, x)
      <4>1. PICK j \in L : x = g[j]
        BY <2>7
      <4>2. PICK i \in 1 .. m : i = Rank(L, j)
        BY <3>4, <3>5
      <4>3. Rank(Q, x) = i /\ Rank(P, j) = i + 1
        BY <2>8, <3>3, <4>1, <4>2
      <4>4. shorter[i] = s[i + 1]
        BY <3>9
      <4>5. s[i + 1] = ValueAt(t, h, j)
        BY <1>5, <2>2, <4>3
      <4>6. QED
        BY <2>9, <4>1, <4>3, <4>4, <4>5
    <3>11. Len(shorter) = Cardinality(Q)
      BY <2>8, <3>5, <3>9
    <3>12. ValuesUnder(u, h) = shorter
      BY <1>3, <1>7, <3>10, <3>11, ValuesAre
    <3>13. QED
      BY <1>1, <1>4, <2>11, <3>8, <3>12
  <2>12. QED
    BY <2>10, <2>11
<1>13. QED
  BY <1>11, <1>12
-----------------------------------------------------------------------------
(* A write through Lookup's pointer replaces the first value               *)
LEMMA SetPlaces ==
    ASSUME NEW t, TableOK(t), NEW k \in Key, Exists(t, k), NEW v \in Val, NEW h \in Key,
           NEW after, after = SetValue(t, k, v)
    PROVE  /\ \A i : i \in Places(after, h) <=> i \in Places(t, h)
           /\ \A i \in Places(t, h) : ValueAt(after, h, i) =
                  IF h = k /\ i = Find(t, k) THEN v ELSE ValueAt(t, h, i)
<1>1. PICK u : u = SetValue(t, k, v)
  OBVIOUS
<1>2. PICK n : n = NodeOf(t, k)
  OBVIOUS
<1>3. TableOK(u) /\ u.chains = t.chains
  BY <1>1, SetValueOK
<1>4. \A m \in Nodes : u.nodes[m] = IF m = n THEN <<k, v>> ELSE t.nodes[m]
  BY <1>1, <1>2, SetValueOK
<1>5. t \in Table /\ ChainsOK(t)
  BY DEF TableOK
<1>6. PICK c \in Columns : c = Column(h)
  BY ColumnType
<1>7. PICK s \in Seq(Nodes) : s = t.chains[c]
  BY <1>5 DEF Table
<1>8. /\ \A i : i \in Places(t, h) <=> i \in 1 .. Len(s) /\ t.nodes[s[i]][1] = h
      /\ \A i : i \in Places(u, h) <=> i \in 1 .. Len(s) /\ u.nodes[s[i]][1] = h
  <2>1. \A i : i \in Places(t, h) <=> i \in 1 .. Len(s) /\ t.nodes[s[i]][1] = h
    BY <1>6, <1>7, PlacesFacts
  <2>2. \A i : i \in Places(u, h) <=> i \in 1 .. Len(s) /\ u.nodes[s[i]][1] = h
    BY <1>3, <1>6, <1>7, PlacesFacts
  <2>3. QED
    BY <2>1, <2>2
<1>9. /\ \A i : ValueAt(u, h, i) = u.nodes[s[i]][2]
      /\ \A i : ValueAt(t, h, i) = t.nodes[s[i]][2]
  BY <1>3, <1>6, <1>7 DEF ValueAt
<1>10. n \in Nodes /\ t.nodes[n][1] = k /\ n = t.chains[Column(k)][Find(t, k)]
       /\ Find(t, k) \in 1 .. Len(t.chains[Column(k)])
  BY <1>2, NodeOfFacts DEF NodeOf
<1>11. \A i \in 1 .. Len(s) : s[i] \in Nodes
  OBVIOUS
<1>12. \A i \in 1 .. Len(s) : u.nodes[s[i]][1] = t.nodes[s[i]][1]
  <2> TAKE i \in 1 .. Len(s)
  <2>1. CASE s[i] = n
    <3>1. u.nodes[s[i]] = <<k, v>>
      BY <1>4, <1>10, <2>1
    <3>2. QED
      BY <1>10, <2>1, <3>1
  <2>2. CASE s[i] # n
    BY <1>4, <1>11, <2>2
  <2>3. QED
    BY <2>1, <2>2
<1>13. \A i : i \in Places(u, h) <=> i \in Places(t, h)
  BY <1>8, <1>12
<1>14. ASSUME NEW i \in Places(t, h)
       PROVE  ValueAt(u, h, i) = IF h = k /\ i = Find(t, k) THEN v ELSE ValueAt(t, h, i)
  <2>1. i \in 1 .. Len(s) /\ t.nodes[s[i]][1] = h /\ s[i] \in Nodes
    BY <1>8, <1>11
  <2>2. CASE h = k /\ i = Find(t, k)
    <3>1. s[i] = n
      BY <1>6, <1>7, <1>10, <2>2
    <3>2. u.nodes[s[i]] = <<k, v>>
      BY <1>4, <1>10, <3>1
    <3>3. QED
      BY <1>9, <2>2, <3>2
  <2>3. CASE h = k /\ i # Find(t, k)
    <3>1. Find(t, k) \in 1 .. Len(s) /\ n = s[Find(t, k)]
      BY <1>6, <1>7, <1>10, <2>3
    <3>2. \A j \in 1 .. Len(s) : s[i] = s[j] => i = j
      BY <1>5, <1>7, <2>1 DEF ChainsOK
    <3>3. s[i] # n
      BY <2>3, <3>1, <3>2
    <3>4. u.nodes[s[i]] = t.nodes[s[i]]
      BY <1>4, <2>1, <3>3
    <3>5. QED
      BY <1>9, <2>3, <3>4
  <2>4. CASE h # k
    <3>1. s[i] # n
      BY <1>10, <2>1, <2>4
    <3>2. u.nodes[s[i]] = t.nodes[s[i]]
      BY <1>4, <2>1, <3>1
    <3>3. QED
      BY <1>9, <2>4, <3>2
  <2>5. QED
    BY <2>2, <2>3, <2>4
<1>15. QED
  BY <1>1, <1>13, <1>14

LEMMA SetValues ==
    ASSUME NEW t, TableOK(t), NEW k \in Key, Exists(t, k), NEW v \in Val, NEW h \in Key
    PROVE  ValuesUnder(SetValue(t, k, v), h) =
               IF h = k THEN <<v>> \o Tail(ValuesUnder(t, h)) ELSE ValuesUnder(t, h)
<1>1. PICK u : u = SetValue(t, k, v)
  OBVIOUS
<1>2. PICK P : P = Places(t, h)
  OBVIOUS
<1>3. PICK s \in Seq(Val) : s = ValuesUnder(t, h)
  BY ValuesByRank
<1>4. Len(s) = Cardinality(P) /\ \A i \in P : s[Rank(P, i)] = ValueAt(t, h, i)
  BY <1>2, <1>3, ValuesByRank
<1>5. P \subseteq Nat /\ IsFiniteSet(P)
  BY <1>2, PlacesFacts
<1>6. TableOK(u)
  BY <1>1, SetValueOK
<1>7. PICK p : p = Find(t, k)
  OBVIOUS
<1>8. /\ \A i : i \in Places(u, h) <=> i \in P
      /\ \A i \in P : ValueAt(u, h, i) = IF h = k /\ i = p THEN v ELSE ValueAt(t, h, i)
  BY <1>1, <1>2, <1>7, SetPlaces
<1>9. Places(u, h) = P
  BY <1>8
<1>10. CASE h # k
  <2>1. \A i \in P : s[Rank(P, i)] = ValueAt(u, h, i)
    BY <1>4, <1>8, <1>10
  <2>2. ValuesUnder(u, h) = s
    BY <1>4, <1>6, <1>9, <2>1, ValuesAre
  <2>3. QED
    BY <1>1, <1>3, <1>10, <2>2
<1>11. CASE h = k
  <2>1. p \in P /\ \A i \in P : p <= i
    BY <1>2, <1>7, <1>11, PlacesFacts
  <2>2. PICK L : L = P \ {p}
    OBVIOUS
  <2>3. /\ Rank(P, p) = 1 /\ IsFiniteSet(L)
        /\ Cardinality(L) = Cardinality(P) - 1
        /\ \A i \in L : Rank(P, i) = Rank(L, i) + 1
    <3>1. WithoutFirst(P, p, L)
      BY <1>5, <2>1, <2>2 DEF WithoutFirst
    <3>2. QED
      BY <3>1, RankOfFirst
  <2>4. L \subseteq Nat
    BY <1>5, <2>2
  <2>5. \A i \in L : Rank(L, i) \in 1 .. Cardinality(L)
    BY <2>3, <2>4, RankFacts
  <2>6. PICK m \in Nat : m = Cardinality(L)
    BY <2>3, FS_CardinalityType
  <2>7. PICK l \in Nat : l = Cardinality(P)
    BY <1>5, FS_CardinalityType
  <2>8. Len(s) = m + 1 /\ s # <<>>
    BY <1>4, <2>3, <2>6, <2>7
  <2>9. PICK rest \in Seq(Val) : rest = Tail(s)
    BY <2>8, Shortened
  <2>10. Len(rest) = m /\ \A i \in 1 .. m : rest[i] = s[i + 1]
    BY <2>8, <2>9, Shortened
  <2>11. PICK new \in Seq(Val) : new = <<v>> \o rest
    BY Prepended
  <2>12. /\ Len(new) = m + 1 /\ new[1] = v
         /\ \A i \in 1 .. m : new[i + 1] = rest[i]
    BY <2>10, <2>11, Prepended
  <2>13. ASSUME NEW x \in P
         PROVE  new[Rank(P, x)] = ValueAt(u, h, x)
    <3>1. CASE x = p
      BY <1>8, <1>11, <2>3, <2>12, <3>1
    <3>2. CASE x # p
      <4>1. x \in L
        BY <2>2, <3>2
      <4>2. PICK i \in 1 .. m : i = Rank(L, x)
        BY <2>5, <2>6, <4>1
      <4>3. Rank(P, x) = i + 1
        BY <2>3, <4>1, <4>2
      <4>4. new[i + 1] = s[i + 1]
        BY <2>10, <2>12
      <4>5. s[i + 1] = ValueAt(t, h, x)
        BY <1>4, <4>3
      <4>6. ValueAt(u, h, x) = ValueAt(t, h, x)
        BY <1>8, <3>2
      <4>7. QED
        BY <4>3, <4>4, <4>5, <4>6
    <3>3. QED
      BY <3>1, <3>2
  <2>14. Len(new) = Cardinality(P)
    BY <1>4, <2>8, <2>12
  <2>15. ValuesUnder(u, h) = new
    BY <1>6, <1>9, <2>13, <2>14, ValuesAre
  <2>16. QED
    BY <1>1, <1>3, <1>11, <2>9, <2>11, <2>15
<1>12. QED
  BY <1>10, <1>11

-----------------------------------------------------------------------------
(* As many values as items                                                 *)
LEMMA PairsCounted ==
    ASSUME NEW t, TableOK(t)
    PROVE  Cardinality(UNION {{k} \X DOMAIN ValuesUnder(t, k) : k \in Key}) = t.size
<1> DEFINE node(s) == t.chains[s[1]][s[2]]
           key(s)  == t.nodes[node(s)][1]
<1>1. t \in Table /\ ChainsOK(t) /\ SizeOK(t)
  BY DEF TableOK
<1>2. /\ \A s \in Slots(t) : /\ s[1] \in Columns /\ s[2] \in 1 .. Len(t.chains[s[1]])
                             /\ s = <<s[1], s[2]>>
      /\ IsFiniteSet(Slots(t)) /\ Cardinality(Slots(t)) = t.size
  BY <1>1, SlotFacts DEF SizeOK
<1>3. PICK S : S = Slots(t)
  OBVIOUS
<1>4. ASSUME NEW s \in S
      PROVE  key(s) \in Key /\ Column(key(s)) = s[1] /\ s[2] \in Places(t, key(s))
  <2>1. s[1] \in Columns /\ s[2] \in 1 .. Len(t.chains[s[1]])
    BY <1>2, <1>3
  <2>2. t.nodes[node(s)] \in Item /\ Column(key(s)) = s[1]
    BY <1>1, <2>1 DEF ChainsOK
  <2>3. key(s) \in Key
    BY <2>2 DEF Item
  <2>4. QED
    BY <2>1, <2>2, <2>3, PlacesFacts
<1>5. ASSUME NEW k \in Key, NEW i \in Places(t, k)
      PROVE  <<Column(k), i>> \in S /\ key(<<Column(k), i>>) = k
  <2>1. /\ i \in 1 .. Len(t.chains[Column(k)])
        /\ t.nodes[t.chains[Column(k)][i]][1] = k
    BY PlacesFacts
  <2>2. DOMAIN t.chains = Columns /\ DOMAIN t.chains[Column(k)] = 1 .. Len(t.chains[Column(k)])
    BY <1>1, ColumnType DEF Table
  <2>3. Column(k) \in Columns
    BY ColumnType
  <2>4. <<Column(k), i>> \in Slots(t)
    BY <2>1, <2>2, <2>3 DEF Slots
  <2>5. QED
    BY <1>3, <2>1, <2>4
<1>6. PICK f : f = [s \in S |-> <<key(s), Rank(Places(t, key(s)), s[2])>>]
  OBVIOUS
<1>7. \A s \in S : f[s] = <<key(s), Rank(Places(t, key(s)), s[2])>>
  BY <1>6
<1> HIDE DEF key
<1>8. \A s, r \in S : f[s] = f[r] => s = r
  <2> TAKE s, r \in S
  <2> HAVE f[s] = f[r]
  <2>1. key(s) = key(r) /\ Rank(Places(t, key(s)), s[2]) = Rank(Places(t, key(r)), r[2])
    BY <1>7
  <2>2. PICK k \in Key : k = key(s)
    BY <1>4
  <2>3. PICK P : P = Places(t, k)
    OBVIOUS
  <2>4. s[2] \in P /\ r[2] \in P /\ Rank(P, s[2]) = Rank(P, r[2])
    BY <1>4, <2>1, <2>2, <2>3
  <2>5. P \subseteq Nat /\ IsFiniteSet(P)
    BY <2>3, PlacesFacts
  <2>6. \A i, h \in P : Rank(P, i) = Rank(P, h) => i = h
    BY <2>5, RankFacts
  <2>7. s[2] = r[2]
    BY <2>4, <2>6
  <2>8. s[1] = r[1]
    BY <1>4, <2>1
  <2>9. s = <<s[1], s[2]>> /\ r = <<r[1], r[2]>>
    BY <1>2, <1>3
  <2>10. QED
    BY <2>7, <2>8, <2>9
<1>9. PICK M : M = UNION {{k} \X DOMAIN ValuesUnder(t, k) : k \in Key}
  OBVIOUS
<1>10. \A x : x \in M <=> \E k \in Key : \E j \in 1 .. Cardinality(Places(t, k)) : x = <<k, j>>
  <2>1. \A k \in Key : DOMAIN ValuesUnder(t, k) = 1 .. Cardinality(Places(t, k))
    BY DEF ValuesUnder
  <2>2. \A x : x \in M <=> \E k \in Key : x \in {k} \X DOMAIN ValuesUnder(t, k)
    BY <1>9, Zenon
  <2>3. TAKE x
  <2>4. ASSUME NEW k \in Key
        PROVE  x \in {k} \X DOMAIN ValuesUnder(t, k) <=>
                   \E j \in 1 .. Cardinality(Places(t, k)) : x = <<k, j>>
    <3>1. PICK D : D = 1 .. Cardinality(Places(t, k))
      OBVIOUS
    <3>2. x \in {k} \X D <=> \E j \in D : x = <<k, j>>
      OBVIOUS
    <3>3. QED
      BY <2>1, <3>1, <3>2
  <2>5. QED
    BY <2>2, <2>4
<1>11. M = {f[s] : s \in S}
  <2>1. ASSUME NEW s \in S
        PROVE  f[s] \in M
    <3>1. PICK k \in Key : k = key(s)
      BY <1>4
    <3>2. PICK P : P = Places(t, k)
      OBVIOUS
    <3>3. P \subseteq Nat /\ IsFiniteSet(P) /\ s[2] \in P
      BY <1>4, <3>1, <3>2, PlacesFacts
    <3>4. Rank(P, s[2]) \in 1 .. Cardinality(P)
      BY <3>3, RankFacts
    <3>5. f[s] = <<k, Rank(P, s[2])>>
      BY <1>7, <3>1, <3>2
    <3>6. QED
      BY <1>10, <3>2, <3>4, <3>5
  <2>2. ASSUME NEW x \in M
        PROVE  \E s \in S : x = f[s]
    <3>1. PICK k \in Key : \E j \in 1 .. Cardinality(Places(t, k)) : x = <<k, j>>
      BY <1>10
    <3>2. PICK j \in 1 .. Cardinality(Places(t, k)) : x = <<k, j>>
      BY <3>1
    <3>3. PICK P : P = Places(t, k)
      OBVIOUS
    <3>4. P \subseteq Nat /\ IsFiniteSet(P) /\ j \in 1 .. Cardinality(P)
      BY <3>3, PlacesFacts
    <3>5. PICK i \in P : Rank(P, i) = j
      BY <3>4, RankFacts
    <3>6. PICK s \in S : s = <<Column(k), i>> /\ key(s) = k
      BY <1>5, <3>3
    <3>7. s[2] = i
      BY <3>6
    <3>8. f[s] = <<k, j>>
      BY <1>7, <3>3, <3>5, <3>6, <3>7
    <3>9. QED
      BY <3>2, <3>8
  <2>3. QED
    BY <2>1, <2>2
<1>12. Cardinality(M) = Cardinality(S)
  <2>1. IsFiniteSet(S)
    BY <1>2, <1>3
  <2>2. QED
    BY <1>8, <1>11, <2>1, Images
<1>13. QED
  BY <1>2, <1>3, <1>9, <1>12

-----------------------------------------------------------------------------
ContentOf(t) == [k \in Key |-> ValuesUnder(t, k)]

LEMMA SameContent ==
    ASSUME NEW t, TableOK(t), NEW u, TableOK(u), u.chains = t.chains, u.nodes = t.nodes
    PROVE  ContentOf(u) = ContentOf(t)
<1>1. ASSUME NEW k \in Key
      PROVE  ValuesUnder(u, k) = ValuesUnder(t, k)
  <2>1. Places(u, k) = Places(t, k)
    BY DEF Places
  <2>2. \A i : ValueAt(u, k, i) = ValueAt(t, k, i)
    BY DEF ValueAt
  <2>3. PICK s \in Seq(Val) : s = ValuesUnder(t, k)
    BY ValuesByRank
  <2>4. PICK P : P = Places(t, k)
    OBVIOUS
  <2>5. Len(s) = Cardinality(P) /\ \A i \in P : s[Rank(P, i)] = ValueAt(t, k, i)
    BY <2>3, <2>4, ValuesByRank
  <2>6. Places(u, k) = P /\ \A i \in P : s[Rank(P, i)] = ValueAt(u, k, i)
    BY <2>1, <2>2, <2>4, <2>5
  <2>7. ValuesUnder(u, k) = s
    BY <2>5, <2>6, ValuesAre
  <2>8. QED
    BY <2>3, <2>7
<1>2. QED
  BY <1>1 DEF ContentOf

LEMMA NothingInside ==
    ASSUME NEW t, TableOK(t), \A c \in Columns : t.chains[c] = <<>>
    PROVE  ContentOf(t) = [k \in Key |-> <<>>]
<1>1. ASSUME NEW k \in Key
      PROVE  ValuesUnder(t, k) = <<>>
  <2>1. t.chains[Column(k)] = <<>>
    BY ColumnType
  <2>2. \A i : i \notin Places(t, k)
    <3>1. \A i : i \in Places(t, k) => i \in 1 .. Len(t.chains[Column(k)])
      BY PlacesFacts
    <3>2. QED
      BY <2>1, <3>1
  <2>3. Cardinality(Places(t, k)) = 0
    BY <2>2, FS_EmptySet
  <2>4. <<>> \in Seq(Val)
    OBVIOUS
  <2>5. PICK s \in Seq(Val) : s = <<>>
    BY <2>4
  <2>6. Len(s) = 0
    BY <2>5
  <2>7. ValuesUnder(t, k) = s
    BY <2>2, <2>3, <2>6, ValuesAre
  <2>8. QED
    BY <2>5, <2>7
<1>2. QED
  BY <1>1 DEF ContentOf

LEMMA InsertContent ==
    ASSUME NEW t, TableOK(t), NEW k \in Key, NEW v \in Val, ~Full(t)
    PROVE  ContentOf(InsertKey(t, k, v)) = [ContentOf(t) EXCEPT ![k] = <<v>> \o @]
<1>1. \A h \in Key : ValuesUnder(InsertKey(t, k, v), h) =
                         IF h = k THEN <<v>> \o ValuesUnder(t, h) ELSE ValuesUnder(t, h)
  BY InsertValues
<1>2. QED
  BY <1>1 DEF ContentOf

LEMMA RemoveContent ==
    ASSUME NEW t, TableOK(t), NEW k \in Key, Exists(t, k)
    PROVE  ContentOf(RemoveKey(t, k)) = [ContentOf(t) EXCEPT ![k] = Tail(@)]
<1>1. \A h \in Key : ValuesUnder(RemoveKey(t, k), h) =
                         IF h = k THEN Tail(ValuesUnder(t, h)) ELSE ValuesUnder(t, h)
  BY RemoveValues
<1>2. QED
  BY <1>1 DEF ContentOf

LEMMA SetContent ==
    ASSUME NEW t, TableOK(t), NEW k \in Key, Exists(t, k), NEW v \in Val
    PROVE  ContentOf(SetValue(t, k, v)) = [ContentOf(t) EXCEPT ![k] = <<v>> \o Tail(@)]
<1>1. \A h \in Key : ValuesUnder(SetValue(t, k, v), h) =
                         IF h = k THEN <<v>> \o Tail(ValuesUnder(t, h)) ELSE ValuesUnder(t, h)
  BY SetValues
<1>2. QED
  BY <1>1 DEF ContentOf

LEMMA ThereIsAValue ==
    ASSUME NEW t, TableOK(t), NEW k \in Key, Exists(t, k)
    PROVE  ContentOf(t)[k] # <<>>
<1>1. PICK P : P = Places(t, k)
  OBVIOUS
<1>2. P # {} /\ IsFiniteSet(P)
  BY <1>1, PlacesFacts
<1>3. Cardinality(P) # 0
  BY <1>2, FS_EmptySet
<1>4. ValuesUnder(t, k) # <<>>
  BY <1>1, <1>3, ValuesByRank
<1>5. QED
  BY <1>4 DEF ContentOf

(* The other key is still there                                            *)
LEMMA StillThere ==
    ASSUME NEW t, TableOK(t), NEW k \in Key, Exists(t, k), NEW v \in Val,
           NEW gone \in Key, Exists(t, gone)
    PROVE  Exists(SetValue(t, k, v), gone)
<1>1. PICK u : u = SetValue(t, k, v)
  OBVIOUS
<1>2. TableOK(u)
  BY <1>1, SetValueOK
<1>3. \A i : i \in Places(u, gone) <=> i \in Places(t, gone)
  BY <1>1, SetPlaces
<1>4. Places(t, gone) # {}
  BY PlacesFacts
<1>5. Exists(u, gone)
  BY <1>2, <1>3, <1>4, PlacesFacts
<1>6. QED
  BY <1>1, <1>5

-----------------------------------------------------------------------------
LEMMA ContentNow == Content = ContentOf(table)
BY ContentIs DEF ContentOf

LEMMA ContentNext == Content' = ContentOf(table')
BY DEF Content, ContentOf, ValuesUnder

LEMMA RoomLeft ==
    ASSUME NEW t, TableOK(t), ~Full(t)
    PROVE  t.size < fsize
<1>1. t \in Table /\ Len(t.free) \in Nat /\ t.size \in Nat /\ t.size + Len(t.free) = fsize
  BY DEF TableOK, SizeOK, Table
<1>2. Len(t.free) # 0
  BY <1>1 DEF Full, Table
<1>3. QED
  BY <1>1, <1>2, HashAssumption

LEMMA RoomForOne ==
    ASSUME TableOK(table), ~Full(table)
    PROVE  Map!Size < fsize
<1>1. PICK t : t = table
  OBVIOUS
<1>2. TableOK(t) /\ ~Full(t)
  BY <1>1
<1>3. t.size < fsize
  BY <1>2, RoomLeft
<1>4. Cardinality(UNION {{k} \X DOMAIN ValuesUnder(t, k) : k \in Key}) = t.size
  BY <1>2, PairsCounted
<1>5. \A k \in Key : Content[k] = ValuesUnder(t, k)
  BY <1>1, ContentIs
<1>6. UNION {{k} \X DOMAIN Content[k] : k \in Key} =
          UNION {{k} \X DOMAIN ValuesUnder(t, k) : k \in Key}
  BY <1>5
<1>7. QED
  <2>1. PICK pairs : pairs = UNION {{k} \X DOMAIN Content[k] : k \in Key}
    OBVIOUS
  <2>2. Map!Size = Map!Cardinality(pairs)
    BY <2>1 DEF Map!Size
  <2>3. Map!Cardinality(pairs) = Cardinality(pairs)
    BY DEF Map!Cardinality, Cardinality
  <2>4. QED
    BY <1>3, <1>4, <1>6, <2>1, <2>2, <2>3

(* What each change of the table is to the map                             *)
LEMMA InsertIsInsert ==
    ASSUME TableOK(table), NEW k \in Key, NEW v \in Val, ~Full(table),
           table' = InsertKey(table, k, v)
    PROVE  Map!Next
<1>1. PICK t : t = table
  OBVIOUS
<1>2. TableOK(t) /\ ~Full(t) /\ table' = InsertKey(t, k, v)
  BY <1>1
<1>3. Content' = ContentOf(InsertKey(t, k, v)) /\ Content = ContentOf(t)
  BY <1>1, <1>2, ContentNow, ContentNext
<1>4. ContentOf(InsertKey(t, k, v)) = [ContentOf(t) EXCEPT ![k] = <<v>> \o @]
  BY <1>2, InsertContent
<1>5. Content' = [Content EXCEPT ![k] = <<v>> \o @]
  BY <1>3, <1>4
<1>6. Map!Insert(k, v)
  BY <1>5, RoomForOne DEF Map!Insert
<1>7. QED
  BY <1>6 DEF Map!Next

LEMMA RemoveIsRemove ==
    ASSUME TableOK(table), NEW k \in Key, Exists(table, k), table' = RemoveKey(table, k)
    PROVE  Map!Next
<1>1. PICK t : t = table
  OBVIOUS
<1>2. TableOK(t) /\ Exists(t, k) /\ table' = RemoveKey(t, k)
  BY <1>1
<1>3. Content' = ContentOf(RemoveKey(t, k)) /\ Content = ContentOf(t)
  BY <1>1, <1>2, ContentNow, ContentNext
<1>4. /\ ContentOf(RemoveKey(t, k)) = [ContentOf(t) EXCEPT ![k] = Tail(@)]
      /\ ContentOf(t)[k] # <<>>
  BY <1>2, RemoveContent, ThereIsAValue
<1>5. Map!Remove(k)
  BY <1>3, <1>4 DEF Map!Remove
<1>6. QED
  BY <1>5 DEF Map!Next

LEMMA MoveIsMove ==
    ASSUME TableOK(table), NEW k \in Key, Exists(table, k), NEW v \in Val,
           NEW gone \in Key, Exists(table, gone), k # gone,
           table' = RemoveKey(SetValue(table, k, v), gone)
    PROVE  Map!Next
<1>1. PICK t : t = table
  OBVIOUS
<1>2. PICK u : u = SetValue(t, k, v)
  OBVIOUS
<1>3. TableOK(t) /\ Exists(t, k) /\ Exists(t, gone) /\ table' = RemoveKey(u, gone)
  BY <1>1, <1>2
<1>4. TableOK(u) /\ Exists(u, gone)
  BY <1>2, <1>3, SetValueOK, StillThere
<1>5. Content' = ContentOf(RemoveKey(u, gone)) /\ Content = ContentOf(t)
  BY <1>1, <1>3, ContentNow, ContentNext
<1>6. PICK c : c = ContentOf(t) /\ c[k] # <<>> /\ c[gone] # <<>> /\ c = [h \in Key |-> c[h]]
  <2>1. ContentOf(t)[k] # <<>> /\ ContentOf(t)[gone] # <<>>
    BY <1>3, ThereIsAValue
  <2>2. ContentOf(t) = [h \in Key |-> ContentOf(t)[h]]
    BY DEF ContentOf
  <2>3. QED
    BY <2>1, <2>2
<1>7. PICK d : d = ContentOf(u) /\ d = [c EXCEPT ![k] = <<v>> \o Tail(@)]
  BY <1>2, <1>3, <1>6, SetContent
<1>8. ContentOf(RemoveKey(u, gone)) = [d EXCEPT ![gone] = Tail(@)]
  <2>1. ContentOf(RemoveKey(u, gone)) = [ContentOf(u) EXCEPT ![gone] = Tail(@)]
    BY <1>4, RemoveContent
  <2>2. QED
    BY <1>7, <2>1
<1>9. [d EXCEPT ![gone] = Tail(@)] =
          [c EXCEPT ![k] = <<v>> \o Tail(@), ![gone] = Tail(@)]
  BY <1>7
<1>10. Map!MoveAndRemove(k, v, gone)
  BY <1>5, <1>6, <1>8, <1>9 DEF Map!MoveAndRemove
<1>11. QED
  BY <1>10 DEF Map!Next

LEMMA ResetIsReset ==
    ASSUME TableOK(table'), \A c \in Columns : table'.chains[c] = <<>>
    PROVE  Map!Next
<1>1. PICK u : u = table'
  OBVIOUS
<1>2. ContentOf(u) = [k \in Key |-> <<>>]
  BY <1>1, NothingInside
<1>3. Content' = [k \in Key |-> <<>>]
  BY <1>1, <1>2, ContentNext
<1>4. Map!Reset
  BY <1>3 DEF Map!Reset
<1>5. QED
  BY <1>4 DEF Map!Next

LEMMA OtherwiseSame ==
    ASSUME TableOK(table), TableOK(table'), table'.chains = table.chains,
           table'.nodes = table.nodes
    PROVE  Content' = Content
<1>1. PICK t : t = table
  OBVIOUS
<1>2. PICK u : u = table'
  OBVIOUS
<1>3. ContentOf(u) = ContentOf(t)
  BY <1>1, <1>2, SameContent
<1>4. QED
  BY <1>1, <1>2, <1>3, ContentNow, ContentNext

LEMMA AddIsInsert ==
    ASSUME TableOK(table), PollInv, NEW fd \in Key, NEW flags \in SUBSET Flags, Add(fd, flags)
    PROVE  Map!Next
<1>1. PICK list \in Seq(FdEntry) : list = fds
  BY DEF PollInv
<1>2. PICK t : t = table
  OBVIOUS
<1>3. ~Full(t) /\ table' = InsertKey(t, fd, Len(list)) /\ InStep(t, list) /\ TableOK(t)
  BY <1>1, <1>2 DEF Add, PollInv
<1>4. t.size < fsize
  BY <1>3, RoomLeft
<1>5. Len(list) \in 0 .. fsize - 1
  <2>1. Len(list) \in Nat /\ t.size = Len(list)
    BY <1>3 DEF InStep
  <2>2. QED
    BY <1>4, <2>1, HashAssumption
<1>6. Len(list) \in Val
  BY <1>5, PollAssumption
<1>7. PICK v \in Val : v = Len(list)
  BY <1>6
<1>8. table' = InsertKey(table, fd, v) /\ ~Full(table)
  BY <1>2, <1>3, <1>7
<1>9. QED
  BY <1>8, InsertIsInsert

(* The entry that moves is another than the one that goes                  *)
LEMMA RemoveSocketIsRemove ==
    ASSUME TableOK(table), PollInv, NEW fd \in Key, RemoveSocket(fd)
    PROVE  Map!Next
<1>1. PICK list \in Seq(FdEntry) : list = fds
  BY DEF PollInv
<1>2. PICK t : t = table
  OBVIOUS
<1>3. PICK pos : pos = Lookup(t, fd)
  OBVIOUS
<1>4. /\ Exists(t, fd) /\ TableOK(t) /\ InStep(t, list) /\ Len(list) <= fsize
      /\ table' = TableWithMoved(fd, pos)
  BY <1>1, <1>2, <1>3 DEF RemoveSocket, PollInv
<1>5. /\ NodeOf(t, fd) \in Chained(t) /\ t.nodes[NodeOf(t, fd)] = <<fd, pos>>
      /\ pos \in 0 .. Len(list) - 1
  BY <1>3, <1>4, Named
<1>6. CASE pos = Len(list) - 1
  <2>1. table' = RemoveKey(table, fd) /\ Exists(table, fd)
    BY <1>1, <1>2, <1>4, <1>6 DEF TableWithMoved
  <2>2. QED
    BY <2>1, RemoveIsRemove
<1>7. CASE pos # Len(list) - 1
  <2>1. PICK last : last = list[Len(list)].fd
    OBVIOUS
  <2>2. Len(list) \in 1 .. Len(list) /\ Len(list) \in Nat
    BY <1>5
  <2>3. PICK l \in Chained(t) : t.nodes[l] = <<last, Len(list) - 1>>
    BY <1>4, <2>1, <2>2 DEF InStep
  <2>4. l # NodeOf(t, fd)
    BY <1>5, <1>7, <2>3
  <2>5. \A m \in Chained(t) : t.nodes[m][1] = t.nodes[l][1] => m = l
    BY <1>4 DEF InStep
  <2>6. last # fd
    BY <1>5, <2>3, <2>4, <2>5
  <2>7. Exists(t, last)
    <3>1. Exists(t, t.nodes[l][1]) /\ t.nodes[l][1] = last
      BY <1>4, <2>3, <2>5, OnlyItem
    <3>2. QED
      BY <3>1
  <2>8. last \in Key
    <3>1. list[Len(list)] \in FdEntry
      BY <2>2
    <3>2. QED
      BY <2>1, <3>1 DEF FdEntry
  <2>9. pos \in Val
    <3>1. pos \in 0 .. fsize - 1
      BY <1>4, <1>5, <2>2, HashAssumption
    <3>2. QED
      BY <3>1, PollAssumption
  <2>10. table' = RemoveKey(SetValue(table, last, pos), fd)
    BY <1>1, <1>4, <1>7, <2>1 DEF TableWithMoved, Moved
  <2>11. Exists(table, fd) /\ Exists(table, last)
    BY <1>2, <1>4, <2>7
  <2>12. QED
    BY <2>6, <2>8, <2>9, <2>10, <2>11, MoveIsMove
<1>8. QED
  BY <1>6, <1>7

LEMMA PollIsMap ==
    ASSUME TableOK(table), TableOK(table'), PollInv, PollNext
    PROVE  Map!Next \/ Content' = Content
<1>1. CASE Initialize
  <2>1. \A c \in Columns : table'.chains[c] = <<>>
    BY <1>1 DEF Initialize, NewTable, Columns
  <2>2. QED
    BY <2>1, ResetIsReset
<1>2. ASSUME table' = table
      PROVE  Content' = Content
  BY <1>2, OtherwiseSame
<1>3. ASSUME NEW fd \in Key, NEW flags \in SUBSET Flags, Add(fd, flags)
      PROVE  Map!Next
  BY <1>3, AddIsInsert
<1>4. ASSUME NEW fd \in Key, RemoveSocket(fd)
      PROVE  Map!Next
  BY <1>4, RemoveSocketIsRemove
<1>5. CASE Close
  BY <1>2, <1>5 DEF Close
<1>6. ASSUME NEW fd \in Key, NEW flags \in SUBSET Flags, ChangeEventSet(fd, flags)
      PROVE  Content' = Content
  BY <1>2, <1>6 DEF ChangeEventSet
<1>7. CASE WaitForNextEvent
  BY <1>2, <1>7 DEF WaitForNextEvent, WaitPending, WaitPoll
<1>8. QED
  BY <1>1, <1>3, <1>4, <1>5, <1>6, <1>7 DEF PollNext

LEMMA HashIsMap ==
    ASSUME TableOK(table), TableOK(table'), HashNext
    PROVE  Map!Next \/ Content' = Content
<1>1. ASSUME table' = table
      PROVE  Content' = Content
  BY <1>1, OtherwiseSame
<1>2. ASSUME NEW k \in Key, NEW v \in Val, table' = InsertKey(table, k, v)
      PROVE  Map!Next \/ Content' = Content
  <2>1. CASE Full(table)
    <3>1. table' = table
      BY <1>2, <2>1 DEF InsertKey
    <3>2. QED
      BY <1>1, <3>1
  <2>2. CASE ~Full(table)
    BY <1>2, <2>2, InsertIsInsert
  <2>3. QED
    BY <2>1, <2>2
<1>3. ASSUME NEW k \in Key, Exists(table, k), table' = RemoveKey(table, k)
      PROVE  Map!Next
  BY <1>3, RemoveIsRemove
<1>4. ASSUME table' = Indexed(table)
      PROVE  Content' = Content
  <2>1. PICK t : t = table
    OBVIOUS
  <2>2. t \in Table
    BY <2>1 DEF TableOK
  <2>3. Indexed(t).chains = t.chains /\ Indexed(t).nodes = t.nodes
    BY <2>2 DEF Indexed, ReIndex, Table
  <2>4. QED
    BY <1>4, <2>1, <2>3, OtherwiseSame
<1>5. ASSUME table' = ResetTable(table)
      PROVE  Map!Next
  <2>1. \A c \in Columns : table'.chains[c] = <<>>
    BY <1>5 DEF ResetTable, NewTable, Columns
  <2>2. QED
    BY <2>1, ResetIsReset
<1>6. QED
  BY <1>2, <1>3, <1>4, <1>5 DEF HashNext, HashInsert, HashRemove, HashLookupByIndex, HashReset

LEMMA MapInit == PollingInit => Map!Init
<1> SUFFICES ASSUME PollingInit
             PROVE  Map!Init
  OBVIOUS
<1>1. PICK t : t = table
  OBVIOUS
<1>2. t = NewTable /\ TableOK(t)
  BY <1>1, NewTableOK DEF PollingInit, HashInit
<1>3. \A c \in Columns : t.chains[c] = <<>>
  BY <1>2 DEF NewTable, Columns
<1>4. ContentOf(t) = [k \in Key |-> <<>>]
  BY <1>2, <1>3, NothingInside
<1>5. QED
  BY <1>1, <1>4, ContentNow DEF Map!Init

LEMMA MapStep == PollingInv /\ PollingInv' /\ [PollingNext]_pollingVars => [Map!Next]_Content
<1> SUFFICES ASSUME PollingInv, PollingInv', [PollingNext]_pollingVars
             PROVE  Map!Next \/ Content' = Content
  OBVIOUS
<1>1. TableOK(table) /\ TableOK(table') /\ PollInv
  BY DEF PollingInv
<1>2. CASE PollNext
  BY <1>1, <1>2, PollIsMap
<1>3. CASE HashNext
  BY <1>1, <1>3, HashIsMap
<1>4. CASE table' = table
  BY <1>1, <1>4, OtherwiseSame
<1>5. QED
  BY <1>2, <1>3, <1>4 DEF PollingNext, pollingVars

(* The chains are a bounded multimap, whoever uses the table: Insert       *)
(* refuses only when nothing is free, Lookup shows the value inserted      *)
(* last, Remove gives the others back in turn, and a look-up by position   *)
(* changes nothing; CPoll moves an entry and removes another at once.      *)
THEOREM TableImplementsMultimap == PollingSpec => ImplementsMultimap
<1>1. PollingInv /\ PollingInv' /\ [PollingNext]_pollingVars => [Map!Next]_Content
  BY MapStep
<1>2. QED
  BY MapInit, <1>1, PollingInvHolds, PTL DEF PollingSpec, ImplementsMultimap, Map!Spec
=============================================================================
