------------------------ MODULE StunExchange_proofs ------------------------
(***************************************************************************)
(* What a reader finds in a message is a matter of where its attributes    *)
(* begin.  The builder puts each behind the one before, the reader's loop  *)
(* walks from each to the next, and the proofs show that both walks visit  *)
(* the same positions; what checksums and types say follows from there.    *)
(***************************************************************************)
EXTENDS StunExchange, FiniteSetTheorems, SequenceTheorems, TLAPS

-----------------------------------------------------------------------------
(* Induction over the naturals, from the pigeonhole principle: if n were   *)
(* not in S, k |-> k + 1 would map the elements of S below n one to one    *)
(* into those of them that are not 0                                       *)
LEMMA SetInduction ==
    ASSUME NEW S, 0 \in S, \A n \in Nat : n \in S => n + 1 \in S
    PROVE  Nat \subseteq S
<1> SUFFICES ASSUME NEW n \in Nat, n \notin S
             PROVE  FALSE
  OBVIOUS
<1> DEFINE D == {k \in 0 .. n : k \in S}
           E == D \ {0}
           f == [k \in D |-> k + 1]
<1>1. IsFiniteSet(D) /\ IsFiniteSet(E) /\ Cardinality(E) = Cardinality(D) - 1
  <2>1. IsFiniteSet(0 .. n)
    BY FS_Interval
  <2>2. IsFiniteSet(D)
    BY <2>1, FS_Subset
  <2>3. 0 \in D
    OBVIOUS
  <2> HIDE DEF D
  <2>4. QED
    BY <2>2, <2>3, FS_RemoveElement
<1>2. f \in [D -> E]
  BY SMT
<1>3. Cardinality(D) \in Nat
  BY <1>1, FS_CardinalityType
<1>4. PICK x, y \in D : x # y /\ f[x] = f[y]
  <2> HIDE DEF D, E, f
  <2>1. QED
    BY <1>1, <1>2, <1>3, FS_PigeonHole
<1>5. QED
  BY <1>4

(* The words of a message as a sequence of whatever they hold              *)
IsSeq(s) == \E S : s \in Seq(S)

LEMMA SeqFacts ==
    ASSUME NEW s, IsSeq(s)
    PROVE  /\ Len(s) \in Nat
           /\ DOMAIN s = 1 .. Len(s)
           /\ s = [i \in 1 .. Len(s) |-> s[i]]
<1>1. PICK S : s \in Seq(S)
  BY DEF IsSeq
<1>2. QED
  BY <1>1, LenProperties

LEMMA SeqMade ==
    ASSUME NEW s, NEW n \in Nat, s = [i \in 1 .. n |-> s[i]]
    PROVE  IsSeq(s) /\ Len(s) = n
<1>1. s \in [1 .. n -> {s[i] : i \in 1 .. n}]
  OBVIOUS
<1>2. s \in Seq({s[i] : i \in 1 .. n})
  BY <1>1, SeqDef
<1>3. Len(s) \in Nat /\ 1 .. Len(s) = 1 .. n
  BY <1>1, <1>2, LenProperties
<1>4. Len(s) = n
  BY <1>3
<1>5. QED
  BY <1>2, <1>4 DEF IsSeq

(* The first n words of a sequence                                         *)
LEMMA Prefix ==
    ASSUME NEW s, IsSeq(s), NEW n \in Nat, n <= Len(s)
    PROVE  /\ IsSeq(SubSeq(s, 1, n))
           /\ Len(SubSeq(s, 1, n)) = n
           /\ \A i \in 1 .. n : SubSeq(s, 1, n)[i] = s[i]
           /\ SubSeq(s, 1, n) = [i \in 1 .. n |-> s[i]]
<1>1. PICK S : s \in Seq(S)
  BY DEF IsSeq
<1>2. \A i \in 1 .. n : s[i] \in S
  BY <1>1, SeqFacts, LenProperties
<1>3. /\ SubSeq(s, 1, n) \in Seq(S)
      /\ Len(SubSeq(s, 1, n)) = n
      /\ \A i \in 1 .. n : SubSeq(s, 1, n)[i] = s[i]
  BY <1>2, SubSeqProperties
<1>4. IsSeq(SubSeq(s, 1, n))
  BY <1>3 DEF IsSeq
<1>5. SubSeq(s, 1, n) = [i \in 1 .. n |-> s[i]]
  BY <1>3, <1>4, SeqFacts
<1>6. QED
  BY <1>3, <1>4, <1>5

LEMMA PrefixAll ==
    ASSUME NEW s, IsSeq(s)
    PROVE  SubSeq(s, 1, Len(s)) = s
<1>1. PICK S : s \in Seq(S)
  BY DEF IsSeq
<1>2. QED
  BY <1>1, SubSeqFull

(* A set of positions that leaves no gap before any of them is an interval *)
LEMMA NoGaps ==
    ASSUME NEW M \in Nat, NEW D \in SUBSET (1 .. M),
           \A k \in D : \A j \in 1 .. k - 1 : j \in D
    PROVE  \E c \in 0 .. M : D = 1 .. c
<1> DEFINE Closed(X) == \A k \in X : \A j \in 1 .. k - 1 : j \in X
           S == {m \in Nat : \A X \in SUBSET (1 .. m) :
                                Closed(X) => \E c \in 0 .. m : X = 1 .. c}
<1>1. 0 \in S
  <2>1. \A X \in SUBSET (1 .. 0) : \E c \in 0 .. 0 : X = 1 .. c
    <3>1. 0 \in 0 .. 0 /\ \A X \in SUBSET (1 .. 0) : X = 1 .. 0
      OBVIOUS
    <3>2. QED
      BY <3>1
  <2>2. QED
    BY <2>1
<1>2. ASSUME NEW m \in Nat, m \in S
      PROVE  m + 1 \in S
  <2>1. ASSUME NEW X \in SUBSET (1 .. m + 1), Closed(X)
        PROVE  \E c \in 0 .. m + 1 : X = 1 .. c
    <3>1. CASE m + 1 \in X
      <4>1. \A j \in 1 .. (m + 1) - 1 : j \in X
        BY <2>1, <3>1
      <4>2. X = 1 .. m + 1
        <5>1. \A j \in 1 .. m + 1 : j = m + 1 \/ j \in 1 .. (m + 1) - 1
          OBVIOUS
        <5>2. \A j \in 1 .. m + 1 : j \in X
          BY <3>1, <4>1, <5>1
        <5>3. QED
          BY <5>2
      <4>3. QED
        BY <4>2
    <3>2. CASE m + 1 \notin X
      <4>1. X \in SUBSET (1 .. m)
        BY <3>2
      <4>2. PICK c \in 0 .. m : X = 1 .. c
        BY <4>1, <2>1, <1>2
      <4>3. QED
        BY <4>2
    <3>3. QED
      BY <3>1, <3>2
  <2>2. QED
    BY <2>1
<1>3. M \in S
  <2> HIDE DEF S
  <2>1. QED
    BY <1>1, <1>2, SetInduction
<1>4. QED
  BY <1>3

(* A set of positions that is not empty has a last one                     *)
LEMMA HasLast ==
    ASSUME NEW M \in Nat, NEW D \in SUBSET (1 .. M), D # {}
    PROVE  \E k \in D : \A j \in D : j <= k
<1> DEFINE S == {m \in Nat : \A X \in SUBSET (1 .. m) :
                                X # {} => \E k \in X : \A j \in X : j <= k}
<1>1. 0 \in S
  <2>1. \A X \in SUBSET (1 .. 0) : X = {}
    OBVIOUS
  <2>2. QED
    BY <2>1
<1>2. ASSUME NEW m \in Nat, m \in S
      PROVE  m + 1 \in S
  <2>1. ASSUME NEW X \in SUBSET (1 .. m + 1), X # {}
        PROVE  \E k \in X : \A j \in X : j <= k
    <3>1. CASE m + 1 \in X
      BY <3>1
    <3>2. CASE m + 1 \notin X
      <4>1. X \in SUBSET (1 .. m)
        BY <3>2
      <4>2. QED
        BY <4>1, <2>1, <1>2
    <3>3. QED
      BY <3>1, <3>2
  <2>2. QED
    BY <2>1
<1>3. M \in S
  <2> HIDE DEF S
  <2>1. QED
    BY <1>1, <1>2, SetInduction
<1>4. QED
  BY <1>3

(* LastOf finds the last attribute of a type, or 0 when there is none      *)
LEMMA LastOfFinds ==
    ASSUME NEW attributes, NEW c \in Nat, DOMAIN attributes = 1 .. c, NEW t
    PROVE  LET i == LastOf(attributes, t)
           IN  /\ i \in 0 .. c
               /\ i = 0 => \A j \in 1 .. c : attributes[j].t # t
               /\ i # 0 => /\ attributes[i].t = t
                           /\ \A j \in 1 .. c : attributes[j].t = t => j <= i
<1> DEFINE is == {i \in 1 .. c : attributes[i].t = t}
<1>1. CASE is = {}
  BY <1>1 DEF LastOf
<1>2. CASE is # {}
  <2>1. is \in SUBSET (1 .. c)
    OBVIOUS
  <2>2. \E k \in is : \A j \in is : j <= k
    <3> HIDE DEF is
    <3> QED BY <1>2, <2>1, HasLast
  <2>3. LastOf(attributes, t) = CHOOSE i \in is : \A j \in is : j <= i
    BY <1>2 DEF LastOf
  <2>4. LastOf(attributes, t) \in is /\ \A j \in is : j <= LastOf(attributes, t)
    <3> HIDE DEF is
    <3> QED BY <2>2, <2>3
  <2>5. QED
    BY <2>4
<1>3. QED
  BY <1>1, <1>2

LEMMA LastOfIs ==
    ASSUME NEW attributes, NEW c \in Nat, DOMAIN attributes = 1 .. c, NEW t,
           NEW i \in 1 .. c, attributes[i].t = t,
           \A j \in 1 .. c : attributes[j].t = t => j <= i
    PROVE  LastOf(attributes, t) = i
<1> DEFINE l == LastOf(attributes, t)
<1>1. /\ l \in 0 .. c
      /\ l = 0 => \A j \in 1 .. c : attributes[j].t # t
      /\ l # 0 => /\ attributes[l].t = t
                  /\ \A j \in 1 .. c : attributes[j].t = t => j <= l
  BY LastOfFinds
<1> HIDE DEF l
<1>2. l # 0 /\ l \in 1 .. c
  BY <1>1
<1>3. i <= l /\ l <= i
  BY <1>1, <1>2
<1>4. l = i
  BY <1>2, <1>3
<1>5. QED
  BY <1>4 DEF l

-----------------------------------------------------------------------------
(* HeaderAt is where its recursion says: a function is there for every     *)
(* bound, so also for MAX_NUM_ATTRIBUTES                                   *)
LEMMA HeaderAtDef ==
    ASSUME NEW body
    PROVE  HeaderAt(body) = [k \in 0 .. MAX_NUM_ATTRIBUTES |->
              IF k = 0 THEN 1
              ELSE IF HeaderAt(body)[k - 1] > Len(body) THEN HeaderAt(body)[k - 1]
                   ELSE HeaderAt(body)[k - 1] + 1 + WordsFor(body[HeaderAt(body)[k - 1]].n)]
<1> DEFINE After(p) == IF p > Len(body) THEN p ELSE p + 1 + WordsFor(body[p].n)
           IsAt(g, m) == g = [k \in 0 .. m |-> IF k = 0 THEN 1 ELSE After(g[k - 1])]
           S == {m \in Nat : \E g : IsAt(g, m)}
<1>1. 0 \in S
  <2>1. IsAt([k \in 0 .. 0 |-> 1], 0)
    OBVIOUS
  <2> HIDE DEF IsAt
  <2>2. QED
    BY <2>1
<1>2. \A m \in Nat : m \in S => m + 1 \in S
  <2> SUFFICES ASSUME NEW m \in Nat, m \in S
               PROVE  m + 1 \in S
    OBVIOUS
  <2>1. PICK g : IsAt(g, m)
    OBVIOUS
  <2> DEFINE h == [k \in 0 .. m + 1 |-> IF k = m + 1 THEN After(g[m]) ELSE g[k]]
  <2>2. IsAt(h, m + 1)
    <3> HIDE DEF After
    <3> QED BY <2>1
  <2> HIDE DEF h, IsAt
  <2>3. QED
    BY <2>2
<1>3. PICK g : IsAt(g, MAX_NUM_ATTRIBUTES)
  <2> HIDE DEF IsAt
  <2> QED BY <1>1, <1>2, SetInduction, ReaderAssumption
<1>4. QED
  BY <1>3 DEF HeaderAt

(* Words the loop of ReadBody can walk over: what it takes for a length is *)
(* a number                                                                *)
IsBody(body) == IsSeq(body) /\ \A x \in 1 .. Len(body) : body[x].n \in Nat

(* Attributes end to end: c headers, at the positions p, and p[c + 1] just *)
(* behind the last value                                                   *)
Chain(body, p, c) ==
    /\ c \in 0 .. MAX_NUM_ATTRIBUTES
    /\ p \in [1 .. c + 1 -> Nat]
    /\ p[1] = 1
    /\ p[c + 1] = Len(body) + 1
    /\ \A i \in 1 .. c :
          /\ p[i] \in 1 .. Len(body)
          /\ body[p[i]].n <= MAX_STUN_ATTRIBUTE_SIZE
          /\ p[i + 1] = p[i] + 1 + WordsFor(body[p[i]].n)

LEMMA WordsForNat == \A n \in Nat : WordsFor(n) \in Nat
BY DEF WordsFor

LEMMA HeaderAtFirst ==
    ASSUME NEW body
    PROVE  HeaderAt(body)[0] = 1
<1>1. 0 \in 0 .. MAX_NUM_ATTRIBUTES
  BY ReaderAssumption
<1>2. QED
  BY <1>1, HeaderAtDef

LEMMA HeaderAtNext ==
    ASSUME NEW body, NEW k \in 1 .. MAX_NUM_ATTRIBUTES
    PROVE  HeaderAt(body)[k] =
              IF HeaderAt(body)[k - 1] > Len(body) THEN HeaderAt(body)[k - 1]
              ELSE HeaderAt(body)[k - 1] + 1 + WordsFor(body[HeaderAt(body)[k - 1]].n)
<1>1. k \in 0 .. MAX_NUM_ATTRIBUTES /\ k # 0
  BY ReaderAssumption
<1> DEFINE at == HeaderAt(body)
           step == IF at[k - 1] > Len(body) THEN at[k - 1]
                   ELSE at[k - 1] + 1 + WordsFor(body[at[k - 1]].n)
<1>2. at = [j \in 0 .. MAX_NUM_ATTRIBUTES |->
              IF j = 0 THEN 1
              ELSE IF at[j - 1] > Len(body) THEN at[j - 1]
                   ELSE at[j - 1] + 1 + WordsFor(body[at[j - 1]].n)]
  BY HeaderAtDef
<1> HIDE DEF at
<1>3. at[k] = step
  BY <1>1, <1>2
<1>4. QED
  BY <1>3 DEF at

(* The loop's positions are numbers from 1 up                              *)
LEMMA HeaderAtType ==
    ASSUME NEW body, IsBody(body), NEW k \in 0 .. MAX_NUM_ATTRIBUTES
    PROVE  HeaderAt(body)[k] \in Nat \ {0}
<1> DEFINE at == HeaderAt(body)
           S == {m \in Nat : m <= MAX_NUM_ATTRIBUTES => at[m] \in Nat \ {0}}
<1>1. 0 \in S
  BY HeaderAtFirst
<1>2. ASSUME NEW m \in Nat, m \in S
      PROVE  m + 1 \in S
  <2>1. CASE m + 1 <= MAX_NUM_ATTRIBUTES
    <3>1. m + 1 \in 1 .. MAX_NUM_ATTRIBUTES /\ (m + 1) - 1 = m
      BY <2>1, ReaderAssumption
    <3>2. at[m + 1] = IF at[m] > Len(body) THEN at[m] ELSE at[m] + 1 + WordsFor(body[at[m]].n)
      BY <3>1, HeaderAtNext
    <3>3. at[m] \in Nat \ {0}
      BY <1>2, <2>1, ReaderAssumption
    <3>4. CASE at[m] > Len(body)
      BY <3>2, <3>3, <3>4
    <3>5. CASE ~(at[m] > Len(body))
      <4>1. at[m] \in 1 .. Len(body)
        BY <3>3, <3>5, SeqFacts DEF IsBody
      <4>2. WordsFor(body[at[m]].n) \in Nat
        BY <4>1, WordsForNat DEF IsBody
      <4> HIDE DEF at
      <4>3. QED
        BY <3>2, <3>3, <3>5, <4>2
    <3>6. QED
      BY <3>4, <3>5
  <2>2. CASE ~(m + 1 <= MAX_NUM_ATTRIBUTES)
    BY <2>2
  <2>3. QED
    BY <2>1, <2>2
<1>3. k \in S
  <2> HIDE DEF S
  <2> QED BY <1>1, <1>2, SetInduction, ReaderAssumption
<1>4. QED
  BY <1>3, ReaderAssumption

(* A body is cut into attributes in one way: where the loop goes           *)
LEMMA ChainIsHeaderAt ==
    ASSUME NEW body, IsBody(body), NEW p, NEW c, Chain(body, p, c), NEW i \in 1 .. c + 1
    PROVE  p[i] = HeaderAt(body)[i - 1]
<1> DEFINE at == HeaderAt(body)
           S == {m \in Nat : m <= c => p[m + 1] = at[m]}
<1>0. c \in Nat /\ c <= MAX_NUM_ATTRIBUTES
  BY ReaderAssumption DEF Chain
<1>1. 0 \in S
  BY HeaderAtFirst DEF Chain
<1>2. ASSUME NEW m \in Nat, m \in S
      PROVE  m + 1 \in S
  <2>1. CASE m + 1 <= c
    <3>1. m + 1 \in 1 .. MAX_NUM_ATTRIBUTES /\ (m + 1) - 1 = m /\ m + 1 \in 1 .. c
      BY <2>1, <1>0, ReaderAssumption
    <3>2. at[m + 1] = IF at[m] > Len(body) THEN at[m] ELSE at[m] + 1 + WordsFor(body[at[m]].n)
      BY <3>1, HeaderAtNext
    <3>3. p[m + 1] = at[m]
      BY <1>0, <1>2, <2>1
    <3>4. p[m + 1] \in 1 .. Len(body) /\ p[m + 1 + 1] = p[m + 1] + 1 + WordsFor(body[p[m + 1]].n)
      BY <3>1 DEF Chain
    <3>5. Len(body) \in Nat
      BY SeqFacts DEF IsBody
    <3> HIDE DEF at
    <3>6. p[m + 1 + 1] = at[m + 1]
      BY <3>2, <3>3, <3>4, <3>5
    <3>7. QED
      BY <3>6
  <2>2. CASE ~(m + 1 <= c)
    BY <2>2
  <2>3. QED
    BY <2>1, <2>2
<1>3. i - 1 \in Nat /\ i - 1 <= c /\ (i - 1) + 1 = i
  BY <1>0
<1>4. i - 1 \in S
  <2> HIDE DEF S
  <2> QED BY <1>1, <1>2, <1>3, SetInduction
<1>5. QED
  BY <1>3, <1>4

LEMMA WellFormedIsChain ==
    ASSUME NEW body, IsBody(body)
    PROVE  WellFormed(body) <=> \E c, p : Chain(body, p, c)
<1>0. Len(body) \in Nat /\ DOMAIN body = 1 .. Len(body)
  BY SeqFacts DEF IsBody
<1>1. ASSUME WellFormed(body)
      PROVE  \E c, p : Chain(body, p, c)
  <2>a. PICK k \in 0 .. MAX_NUM_ATTRIBUTES : \E q \in [1 .. k -> 1 .. Len(body)] :
           LET at(i) == IF i > k THEN Len(body) + 1 ELSE q[i]
           IN  /\ at(1) = 1
               /\ \A i \in 1 .. k :
                     /\ body[q[i]].n <= MAX_STUN_ATTRIBUTE_SIZE
                     /\ at(i + 1) = q[i] + 1 + WordsFor(body[q[i]].n)
    BY <1>0, <1>1 DEF WellFormed
  <2>1. PICK q \in [1 .. k -> 1 .. Len(body)] :
           LET at(i) == IF i > k THEN Len(body) + 1 ELSE q[i]
           IN  /\ at(1) = 1
               /\ \A i \in 1 .. k :
                     /\ body[q[i]].n <= MAX_STUN_ATTRIBUTE_SIZE
                     /\ at(i + 1) = q[i] + 1 + WordsFor(body[q[i]].n)
    BY <2>a
  <2> DEFINE p == [i \in 1 .. k + 1 |-> IF i > k THEN Len(body) + 1 ELSE q[i]]
  <2>0. k \in Nat
    BY ReaderAssumption
  <2>2. p \in [1 .. k + 1 -> Nat] /\ p[1] = 1 /\ p[k + 1] = Len(body) + 1
    BY <1>0, <2>0, <2>1
  <2>3. \A i \in 1 .. k : p[i] = q[i] /\ p[i] \in 1 .. Len(body)
    BY <1>0, <2>0
  <2>4. \A i \in 1 .. k : p[i + 1] = q[i] + 1 + WordsFor(body[q[i]].n)
    BY <2>0, <2>1
  <2> HIDE DEF p
  <2>5. Chain(body, p, k)
    BY <2>1, <2>2, <2>3, <2>4 DEF Chain
  <2>6. QED
    BY <2>5
<1>2. ASSUME NEW c, NEW p, Chain(body, p, c)
      PROVE  WellFormed(body)
  <2> DEFINE q == [i \in 1 .. c |-> p[i]]
  <2>0. c \in Nat /\ c \in 0 .. MAX_NUM_ATTRIBUTES
    BY <1>2, ReaderAssumption DEF Chain
  <2>1. q \in [1 .. c -> DOMAIN body]
    BY <1>0, <1>2 DEF Chain
  <2>2. (IF 1 > c THEN Len(body) + 1 ELSE q[1]) = 1
    BY <1>2, <2>0 DEF Chain
  <2>3. \A i \in 1 .. c :
           /\ body[q[i]].n <= MAX_STUN_ATTRIBUTE_SIZE
           /\ (IF i + 1 > c THEN Len(body) + 1 ELSE q[i + 1]) = q[i] + 1 + WordsFor(body[q[i]].n)
    <3> SUFFICES ASSUME NEW i \in 1 .. c
                 PROVE  /\ body[q[i]].n <= MAX_STUN_ATTRIBUTE_SIZE
                        /\ (IF i + 1 > c THEN Len(body) + 1 ELSE q[i + 1])
                              = q[i] + 1 + WordsFor(body[q[i]].n)
      OBVIOUS
    <3>1. q[i] = p[i] /\ p[i + 1] = p[i] + 1 + WordsFor(body[p[i]].n)
          /\ body[p[i]].n <= MAX_STUN_ATTRIBUTE_SIZE
      BY <1>2 DEF Chain
    <3>2. (IF i + 1 > c THEN Len(body) + 1 ELSE q[i + 1]) = p[i + 1]
      <4>1. CASE i = c
        BY <4>1, <1>2, <2>0 DEF Chain
      <4>2. CASE i # c
        <5>1. i + 1 \in 1 .. c /\ ~(i + 1 > c)
          BY <4>2, <2>0
        <5>2. QED
          BY <5>1
      <4>3. QED
        BY <4>1, <4>2
    <3> HIDE DEF q
    <3>3. QED
      BY <3>1, <3>2
  <2> HIDE DEF q
  <2>4. QED
    BY <2>0, <2>1, <2>2, <2>3 DEF WellFormed
<1>3. QED
  BY <1>1, <1>2

-----------------------------------------------------------------------------
(* What ReadBody computes from the body alone                              *)
FitsAt(body, k) ==
    /\ HeaderAt(body)[k - 1] <= Len(body)
    /\ AcceptableLength(body[HeaderAt(body)[k - 1]].n)

PassedAt(body, k) == FitsAt(body, k) /\ HeaderAt(body)[k] <= Len(body) + 1

Inserted(body) ==
    {k \in 1 .. MAX_NUM_ATTRIBUTES : FitsAt(body, k) /\ \A j \in 1 .. k - 1 : PassedAt(body, j)}

AttributesIn(body) ==
    [k \in Inserted(body) |->
        [t |-> body[HeaderAt(body)[k - 1]].t, n |-> body[HeaderAt(body)[k - 1]].n,
         at |-> HeaderAt(body)[k - 1]]]

Consumed(body) ==
    /\ \A k \in Inserted(body) : PassedAt(body, k)
    /\ HeaderAt(body)[Len(AttributesIn(body))] = Len(body) + 1

LEMMA ReadBodyIs ==
    ASSUME NEW r, NEW w
    PROVE  ReadBody(r, w) =
             [r EXCEPT !.attributes = AttributesIn(Body(r, w)),
                       !.indexFingerprint = LastOf(AttributesIn(Body(r, w)), "Fingerprint"),
                       !.indexMessageIntegrity =
                           LastOf(AttributesIn(Body(r, w)), "MessageIntegrity"),
                       !.state = IF Consumed(Body(r, w)) THEN "BodyValidated" ELSE "ParseError"]
BY DEF ReadBody, Consumed, AttributesIn, Inserted, PassedAt, FitsAt

(* The table holds the c attributes at the positions p                     *)
IsRead(body, attributes, p, c) ==
    /\ DOMAIN attributes = 1 .. c
    /\ Len(attributes) = c
    /\ \A i \in 1 .. c :
          attributes[i] = [t |-> body[p[i]].t, n |-> body[p[i]].n, at |-> p[i]]

LEMMA LenOfInserted ==
    ASSUME NEW body, NEW c \in Nat, Inserted(body) = 1 .. c
    PROVE  DOMAIN AttributesIn(body) = 1 .. c /\ Len(AttributesIn(body)) = c
<1> DEFINE a == AttributesIn(body)
<1>1. a = [k \in 1 .. c |-> [t |-> body[HeaderAt(body)[k - 1]].t,
                             n |-> body[HeaderAt(body)[k - 1]].n, at |-> HeaderAt(body)[k - 1]]]
  BY DEF AttributesIn
<1>2. a = [k \in 1 .. c |-> a[k]] /\ DOMAIN a = 1 .. c
  BY <1>1
<1> HIDE DEF a
<1>3. Len(a) = c
  BY <1>2, SeqMade
<1>4. QED
  BY <1>2, <1>3 DEF a

(* Attributes end to end are all inserted, and the loop ends at the end    *)
LEMMA ChainIsRead ==
    ASSUME NEW body, IsBody(body), NEW p, NEW c, Chain(body, p, c)
    PROVE  Consumed(body) /\ IsRead(body, AttributesIn(body), p, c)
<1> DEFINE at == HeaderAt(body)
<1>0. c \in Nat /\ c <= MAX_NUM_ATTRIBUTES /\ Len(body) \in Nat /\ MAX_NUM_ATTRIBUTES \in Nat
  BY ReaderAssumption, SeqFacts DEF Chain, IsBody
<1>1. \A i \in 1 .. c + 1 : p[i] = at[i - 1]
  BY ChainIsHeaderAt
<1>2. \A i \in 1 .. c : /\ p[i] \in 1 .. Len(body)
                        /\ body[p[i]].n <= MAX_STUN_ATTRIBUTE_SIZE
                        /\ p[i + 1] = p[i] + 1 + WordsFor(body[p[i]].n)
  BY DEF Chain
<1>3. p \in [1 .. c + 1 -> Nat] /\ p[c + 1] = Len(body) + 1
  BY DEF Chain
<1>4. \A i \in 1 .. c : p[i] = at[i - 1] /\ FitsAt(body, i)
  <2> SUFFICES ASSUME NEW i \in 1 .. c
               PROVE  p[i] = at[i - 1] /\ FitsAt(body, i)
    OBVIOUS
  <2>1. i \in 1 .. c + 1
    BY <1>0
  <2>2. p[i] = at[i - 1]
    BY <1>1, <2>1
  <2>3. p[i] <= Len(body)
    BY <1>0, <1>2
  <2>4. QED
    BY <1>2, <2>2, <2>3 DEF FitsAt, AcceptableLength
<1>5. at[c] = Len(body) + 1
  <2>1. c + 1 \in 1 .. c + 1 /\ (c + 1) - 1 = c
    BY <1>0
  <2>2. QED
    BY <1>1, <1>3, <2>1
<1>6. \A i \in 1 .. c : at[i] <= Len(body) + 1
  <2> SUFFICES ASSUME NEW i \in 1 .. c
               PROVE  at[i] <= Len(body) + 1
    OBVIOUS
  <2>1. i + 1 \in 1 .. c + 1 /\ (i + 1) - 1 = i
    BY <1>0
  <2>2. at[i] = p[i + 1]
    BY <1>1, <2>1
  <2>3. CASE i = c
    BY <1>0, <1>5, <2>3
  <2>4. CASE i # c
    <3>1. i + 1 \in 1 .. c
      BY <2>4, <1>0
    <3>2. p[i + 1] <= Len(body) /\ p[i + 1] \in Nat
      BY <1>0, <1>2, <3>1
    <3> HIDE DEF at
    <3>3. QED
      BY <1>0, <2>2, <3>2
  <2>5. QED
    BY <2>3, <2>4
<1>7. \A i \in 1 .. c : PassedAt(body, i)
  BY <1>4, <1>6 DEF PassedAt
<1>8. ASSUME c + 1 <= MAX_NUM_ATTRIBUTES
      PROVE  ~FitsAt(body, c + 1)
  <2>1. (c + 1) - 1 = c
    BY <1>0
  <2>2. ~(at[(c + 1) - 1] <= Len(body))
    BY <1>0, <1>5, <2>1
  <2>3. QED
    BY <2>2 DEF FitsAt
<1>9. Inserted(body) = 1 .. c
  <2>1. ASSUME NEW k \in 1 .. MAX_NUM_ATTRIBUTES, FitsAt(body, k),
               \A j \in 1 .. k - 1 : PassedAt(body, j)
        PROVE  k \in 1 .. c
    <3>1. CASE k > c + 1
      <4>1. c + 1 \in 1 .. k - 1 /\ c + 1 <= MAX_NUM_ATTRIBUTES
        BY <1>0, <3>1
      <4>2. FitsAt(body, c + 1)
        BY <2>1, <4>1 DEF PassedAt
      <4>3. QED
        BY <1>8, <4>1, <4>2
    <3>2. CASE k = c + 1
      BY <1>8, <2>1, <3>2
    <3>3. CASE k <= c
      BY <3>3, <1>0
    <3>4. QED
      BY <1>0, <3>1, <3>2, <3>3
  <2>2. ASSUME NEW k \in 1 .. c
        PROVE  k \in Inserted(body)
    <3>1. k \in 1 .. MAX_NUM_ATTRIBUTES
      BY <1>0
    <3>2. \A j \in 1 .. k - 1 : PassedAt(body, j)
      BY <1>0, <1>7
    <3>3. QED
      BY <3>1, <3>2, <1>4 DEF Inserted
  <2>3. QED
    BY <2>1, <2>2 DEF Inserted
<1>10. DOMAIN AttributesIn(body) = 1 .. c /\ Len(AttributesIn(body)) = c
  BY <1>0, <1>9, LenOfInserted
<1>11. \A i \in 1 .. c : AttributesIn(body)[i] =
                              [t |-> body[p[i]].t, n |-> body[p[i]].n, at |-> p[i]]
  BY <1>4, <1>9 DEF AttributesIn
<1>12. QED
  BY <1>5, <1>7, <1>9, <1>10, <1>11 DEF Consumed, IsRead

(* And when the loop ends at the end, what it inserted is end to end       *)
LEMMA ReadIsChain ==
    ASSUME NEW body, IsBody(body), Consumed(body)
    PROVE  \E p, c : Chain(body, p, c)
<1> DEFINE at == HeaderAt(body)
<1>0. MAX_NUM_ATTRIBUTES \in Nat /\ Len(body) \in Nat
  BY ReaderAssumption, SeqFacts DEF IsBody
<1>1. \E c \in 0 .. MAX_NUM_ATTRIBUTES : Inserted(body) = 1 .. c
  <2>1. Inserted(body) \in SUBSET (1 .. MAX_NUM_ATTRIBUTES)
    BY DEF Inserted
  <2>2. ASSUME NEW k \in Inserted(body), NEW j \in 1 .. k - 1
        PROVE  j \in Inserted(body)
    <3>1. k \in 1 .. MAX_NUM_ATTRIBUTES /\ \A i \in 1 .. k - 1 : PassedAt(body, i)
      BY DEF Inserted
    <3>2. j \in 1 .. MAX_NUM_ATTRIBUTES /\ \A i \in 1 .. j - 1 : i \in 1 .. k - 1
      BY <1>0, <3>1
    <3>3. QED
      BY <3>1, <3>2 DEF Inserted, PassedAt
  <2>3. QED
    BY <1>0, <2>1, <2>2, NoGaps
<1>2. PICK c \in 0 .. MAX_NUM_ATTRIBUTES : Inserted(body) = 1 .. c
  BY <1>1
<1>3. c \in Nat /\ c <= MAX_NUM_ATTRIBUTES
  BY <1>0
<1>4. Len(AttributesIn(body)) = c
  BY <1>2, <1>3, LenOfInserted
<1> DEFINE p == [i \in 1 .. c + 1 |-> at[i - 1]]
<1>5. \A k \in 0 .. c : at[k] \in Nat \ {0}
  BY <1>0, <1>3, HeaderAtType
<1>6. p \in [1 .. c + 1 -> Nat]
  <2>1. \A i \in 1 .. c + 1 : i - 1 \in 0 .. c
    BY <1>3
  <2> HIDE DEF at
  <2>2. QED
    BY <1>5, <2>1
<1>7. p[1] = 1
  <2>1. 1 \in 1 .. c + 1 /\ 1 - 1 = 0
    BY <1>3
  <2>2. QED
    BY <2>1, HeaderAtFirst
<1>8. p[c + 1] = Len(body) + 1
  <2>1. c + 1 \in 1 .. c + 1 /\ (c + 1) - 1 = c
    BY <1>3
  <2>2. at[c] = Len(body) + 1
    BY <1>4 DEF Consumed
  <2> HIDE DEF at
  <2>3. QED
    BY <2>1, <2>2
<1>9. ASSUME NEW i \in 1 .. c
      PROVE  /\ p[i] \in 1 .. Len(body)
             /\ body[p[i]].n <= MAX_STUN_ATTRIBUTE_SIZE
             /\ p[i + 1] = p[i] + 1 + WordsFor(body[p[i]].n)
  <2>1. i \in 1 .. c + 1 /\ i + 1 \in 1 .. c + 1 /\ (i + 1) - 1 = i /\ i - 1 \in 0 .. c
        /\ i \in 1 .. MAX_NUM_ATTRIBUTES
    BY <1>0, <1>3
  <2>2. p[i] = at[i - 1] /\ p[i + 1] = at[i]
    <3> HIDE DEF at
    <3> QED BY <2>1
  <2>3. FitsAt(body, i)
    BY <1>2 DEF Consumed, PassedAt
  <2>4. at[i - 1] <= Len(body) /\ body[at[i - 1]].n <= MAX_STUN_ATTRIBUTE_SIZE
    BY <2>3 DEF FitsAt, AcceptableLength
  <2>5. at[i - 1] \in Nat \ {0}
    BY <1>5, <2>1
  <2>6. at[i] = IF at[i - 1] > Len(body) THEN at[i - 1]
                ELSE at[i - 1] + 1 + WordsFor(body[at[i - 1]].n)
    BY <2>1, HeaderAtNext
  <2> HIDE DEF at, p
  <2>7. QED
    BY <1>0, <2>2, <2>4, <2>5, <2>6
<1> HIDE DEF p
<1>10. Chain(body, p, c)
  BY <1>6, <1>7, <1>8, <1>9 DEF Chain
<1>11. QED
  BY <1>10

-----------------------------------------------------------------------------
(* What came in: numbers where the code reads numbers, and no more bytes   *)
(* than there are words for                                                *)
IsWire(w) ==
    /\ w.length \in Nat /\ w.size \in Nat /\ w.zeroBits \in BOOLEAN
    /\ IsBody(w.words)
    /\ w.size <= STUN_HEADER_SIZE + 4 * Len(w.words)

IsReader(r) ==
    /\ r = [state |-> r.state, size |-> r.size, fAllowLegacyFormat |-> r.fAllowLegacyFormat,
            fMessageIsLegacyFormat |-> r.fMessageIsLegacyFormat, class |-> r.class,
            tid |-> r.tid, length |-> r.length, attributes |-> r.attributes,
            indexFingerprint |-> r.indexFingerprint,
            indexMessageIntegrity |-> r.indexMessageIntegrity]
    /\ r.size \in Nat
    /\ r.fAllowLegacyFormat \in BOOLEAN

GoodHeader(w, allow) ==
    /\ w.zeroBits
    /\ w.length % 4 = 0
    /\ w.length <= MAX_STUN_MESSAGE_SIZE
    /\ allow \/ w.tid.first = STUN_COOKIE

Whole(w)  == STUN_HEADER_SIZE + w.length
BodyOf(w) == SubSeq(w.words, 1, w.length \div 4)

(* The header fields of the reader are those of w                          *)
HeaderSeen(r, w) ==
    /\ r.size >= STUN_HEADER_SIZE
    /\ GoodHeader(w, r.fAllowLegacyFormat)
    /\ r.length = w.length /\ r.tid = w.tid /\ r.class = w.class
    /\ r.fMessageIsLegacyFormat = (w.tid.first # STUN_COOKIE)

(* The reader's table is what the body of w holds                          *)
BodySeen(r, w) ==
    /\ \E p, c : Chain(BodyOf(w), p, c) /\ IsRead(BodyOf(w), r.attributes, p, c)
    /\ r.indexFingerprint = LastOf(r.attributes, "Fingerprint")
    /\ r.indexMessageIntegrity = LastOf(r.attributes, "MessageIntegrity")

(* A reader that has been given the first r.size bytes of w                *)
Seen(r, w) ==
    \/ /\ r.state = "HeaderNotRead"
       /\ r.size < STUN_HEADER_SIZE
       /\ r.attributes = <<>> /\ r.indexFingerprint = 0 /\ r.indexMessageIntegrity = 0
    \/ r.state = "HeaderValidated" /\ HeaderSeen(r, w) /\ r.size < Whole(w)
    \/ r.state = "BodyValidated" /\ HeaderSeen(r, w) /\ r.size = Whole(w) /\ BodySeen(r, w)
    \/ /\ r.state = "ParseError" /\ r.size >= STUN_HEADER_SIZE
       /\ \/ ~GoodHeader(w, r.fAllowLegacyFormat)
          \/ r.size > Whole(w)
          \/ r.size = Whole(w) /\ ~WellFormed(BodyOf(w))

(* The same before CheckBody                                               *)
HeaderIn(r, w) ==
    \/ /\ r.state = "ParseError" /\ r.size >= STUN_HEADER_SIZE
       /\ ~GoodHeader(w, r.fAllowLegacyFormat)
    \/ r.state = "HeaderValidated" /\ HeaderSeen(r, w)
    \/ /\ r.state = "BodyValidated" /\ HeaderSeen(r, w)
       /\ r.size >= Whole(w)
       /\ r.size = Whole(w) => BodySeen(r, w)

LEMMA BodyOfIsBody ==
    ASSUME NEW w, IsWire(w), Whole(w) <= STUN_HEADER_SIZE + 4 * Len(w.words)
    PROVE  IsBody(BodyOf(w)) /\ Len(BodyOf(w)) = w.length \div 4
<1>1. IsSeq(w.words) /\ Len(w.words) \in Nat
  BY SeqFacts DEF IsWire, IsBody
<1>2. w.length \div 4 \in Nat /\ w.length \div 4 <= Len(w.words)
  BY <1>1 DEF IsWire, Whole, STUN_HEADER_SIZE
<1>3. /\ IsSeq(BodyOf(w))
      /\ Len(BodyOf(w)) = w.length \div 4
      /\ \A i \in 1 .. w.length \div 4 : BodyOf(w)[i] = w.words[i]
  BY <1>1, <1>2, Prefix DEF BodyOf
<1>4. \A i \in 1 .. w.length \div 4 : BodyOf(w)[i].n \in Nat
  <2> DEFINE m == w.length \div 4
  <2>1. m \in Nat /\ m <= Len(w.words) /\ \A i \in 1 .. m : BodyOf(w)[i] = w.words[i]
    BY <1>2, <1>3
  <2> HIDE DEF m
  <2>2. \A i \in 1 .. m : i \in 1 .. Len(w.words)
    BY <1>1, <2>1
  <2>3. \A i \in 1 .. Len(w.words) : w.words[i].n \in Nat
    BY DEF IsWire, IsBody
  <2>4. \A i \in 1 .. m : BodyOf(w)[i].n \in Nat
    BY <2>1, <2>2, <2>3
  <2>5. QED
    BY <2>4 DEF m
<1>5. QED
  BY <1>3, <1>4 DEF IsBody

(* A message of no attributes                                              *)
LEMMA EmptyBodySeen ==
    ASSUME NEW w, w.length = 0, NEW r, r.attributes = <<>>,
           r.indexFingerprint = 0, r.indexMessageIntegrity = 0
    PROVE  BodySeen(r, w)
<1>1. BodyOf(w) = <<>>
  BY SubSeqEmpty DEF BodyOf
<1> DEFINE q == [i \in 1 .. 0 + 1 |-> 1]
<1>2. Chain(<<>>, q, 0)
  BY ReaderAssumption DEF Chain
<1>3. IsRead(<<>>, <<>>, q, 0)
  BY DEF IsRead
<1>4. \A t : LastOf(<<>>, t) = 0
  BY DEF LastOf
<1> HIDE DEF q
<1>5. QED
  BY <1>1, <1>2, <1>3, <1>4 DEF BodySeen

LEMMA ReadBodySeen ==
    ASSUME NEW w, IsWire(w), NEW r, IsReader(r), r.state = "HeaderValidated",
           HeaderSeen(r, w), r.size = Whole(w),
           Whole(w) <= STUN_HEADER_SIZE + 4 * Len(w.words)
    PROVE  /\ IsReader(ReadBody(r, w)) /\ Seen(ReadBody(r, w), w)
           /\ ReadBody(r, w).size = r.size
<1> DEFINE body == BodyOf(w)
           s    == ReadBody(r, w)
<1>1. Body(r, w) = body
  BY DEF Body, BodyOf, HeaderSeen
<1>2. s = [r EXCEPT !.attributes = AttributesIn(body),
                    !.indexFingerprint = LastOf(AttributesIn(body), "Fingerprint"),
                    !.indexMessageIntegrity = LastOf(AttributesIn(body), "MessageIntegrity"),
                    !.state = IF Consumed(body) THEN "BodyValidated" ELSE "ParseError"]
  BY <1>1, ReadBodyIs
<1>3. IsBody(body)
  BY BodyOfIsBody
<1> HIDE DEF s, body
<1>4. /\ IsReader(s)
      /\ s.size = r.size /\ s.fAllowLegacyFormat = r.fAllowLegacyFormat
      /\ s.length = r.length /\ s.tid = r.tid /\ s.class = r.class
      /\ s.fMessageIsLegacyFormat = r.fMessageIsLegacyFormat
      /\ s.attributes = AttributesIn(body)
      /\ s.indexFingerprint = LastOf(s.attributes, "Fingerprint")
      /\ s.indexMessageIntegrity = LastOf(s.attributes, "MessageIntegrity")
      /\ s.state = IF Consumed(body) THEN "BodyValidated" ELSE "ParseError"
  BY <1>2 DEF IsReader
<1>5. HeaderSeen(s, w)
  BY <1>4 DEF HeaderSeen
<1>6. CASE Consumed(body)
  <2>1. PICK p, c : Chain(body, p, c)
    BY <1>3, <1>6, ReadIsChain
  <2>2. IsRead(body, s.attributes, p, c)
    BY <1>3, <1>4, <2>1, ChainIsRead
  <2>3. BodySeen(s, w)
    BY <1>4, <2>1, <2>2 DEF BodySeen, body
  <2>4. QED
    BY <1>4, <1>5, <1>6, <2>3 DEF Seen, s
<1>7. CASE ~Consumed(body)
  <2>1. ~WellFormed(body)
    BY <1>3, <1>7, WellFormedIsChain, ChainIsRead
  <2>2. s.size >= STUN_HEADER_SIZE
    BY <1>5 DEF HeaderSeen
  <2>3. QED
    BY <1>4, <1>7, <2>1, <2>2 DEF Seen, s, body
<1>8. QED
  BY <1>6, <1>7

LEMMA CheckBodySeen ==
    ASSUME NEW w, IsWire(w), NEW r, IsReader(r), HeaderIn(r, w),
           r.size <= STUN_HEADER_SIZE + 4 * Len(w.words)
    PROVE  /\ IsReader(CheckBody(r, w)) /\ Seen(CheckBody(r, w), w)
           /\ CheckBody(r, w).size = r.size
<1>0. r.size \in Nat /\ Whole(w) \in Nat
  BY DEF IsReader, IsWire, Whole, STUN_HEADER_SIZE
<1>1. CASE r.state = "ParseError"
  <2>1. CheckBody(r, w) = r
    BY <1>1 DEF CheckBody
  <2>2. Seen(r, w)
    BY <1>1 DEF HeaderIn, Seen
  <2>3. QED
    BY <2>1, <2>2
<1>2. CASE r.state \in {"HeaderValidated", "BodyValidated"}
  <2>1. HeaderSeen(r, w) /\ r.length + STUN_HEADER_SIZE = Whole(w)
    BY <1>2 DEF HeaderIn, HeaderSeen, Whole, IsWire, STUN_HEADER_SIZE
  <2>2. CASE r.size > Whole(w)
    <3> DEFINE s == [r EXCEPT !.state = "ParseError"]
    <3>1. CheckBody(r, w) = s
      BY <1>0, <1>2, <2>1, <2>2 DEF CheckBody
    <3>2. IsReader(s) /\ s.state = "ParseError" /\ s.size = r.size
      BY DEF IsReader
    <3>3. s.size >= STUN_HEADER_SIZE
      BY <2>1, <3>2 DEF HeaderSeen
    <3> HIDE DEF s
    <3>4. Seen(s, w)
      BY <2>2, <3>2, <3>3 DEF Seen
    <3>5. QED
      BY <3>1, <3>2, <3>4
  <2>3. CASE r.size = Whole(w) /\ r.state = "HeaderValidated"
    <3>1. CheckBody(r, w) = ReadBody(r, w)
      BY <2>1, <2>3 DEF CheckBody
    <3>2. QED
      BY <2>1, <2>3, <3>1, ReadBodySeen
  <2>4. CASE r.size = Whole(w) /\ r.state = "BodyValidated"
    <3>1. CheckBody(r, w) = r
      BY <1>0, <2>1, <2>4 DEF CheckBody
    <3>2. Seen(r, w)
      BY <2>1, <2>4 DEF HeaderIn, Seen
    <3>3. QED
      BY <3>1, <3>2
  <2>5. CASE r.size < Whole(w)
    <3>1. r.state = "HeaderValidated"
      BY <1>0, <1>2, <2>5 DEF HeaderIn
    <3>2. CheckBody(r, w) = r
      BY <1>0, <2>1, <2>5 DEF CheckBody
    <3>3. Seen(r, w)
      BY <2>1, <2>5, <3>1 DEF Seen
    <3>4. QED
      BY <3>2, <3>3
  <2>6. QED
    BY <1>0, <1>2, <2>2, <2>3, <2>4, <2>5
<1>3. QED
  BY <1>1, <1>2 DEF HeaderIn

LEMMA ReadHeaderIn ==
    ASSUME NEW w, IsWire(w), NEW r, IsReader(r), r.size >= STUN_HEADER_SIZE,
           r.attributes = <<>>, r.indexFingerprint = 0, r.indexMessageIntegrity = 0
    PROVE  LET s == ReadHeader(r, w)
           IN  /\ IsReader(s) /\ HeaderIn(s, w)
               /\ s.size = r.size /\ s.fAllowLegacyFormat = r.fAllowLegacyFormat
<1> DEFINE s      == ReadHeader(r, w)
           legacy == w.tid.first # STUN_COOKIE
           valid  == w.zeroBits /\ w.length % 4 = 0 /\ (r.fAllowLegacyFormat \/ ~legacy)
           read   == [r EXCEPT !.fMessageIsLegacyFormat = legacy,
                               !.length = w.length, !.tid = w.tid]
<1>0. w.length \in Nat /\ MAX_STUN_MESSAGE_SIZE \in Nat
  BY ReaderAssumption DEF IsWire
<1>1. CASE ~valid
  <2>1. s = [r EXCEPT !.fMessageIsLegacyFormat = legacy, !.state = "ParseError"]
    BY <1>1 DEF ReadHeader
  <2>2. ~GoodHeader(w, r.fAllowLegacyFormat)
    BY <1>1 DEF GoodHeader
  <2> HIDE DEF s, legacy
  <2>3. /\ IsReader(s) /\ s.state = "ParseError"
        /\ s.size = r.size /\ s.fAllowLegacyFormat = r.fAllowLegacyFormat
    BY <2>1 DEF IsReader
  <2>4. HeaderIn(s, w)
    BY <2>2, <2>3 DEF HeaderIn
  <2>5. QED
    BY <2>3, <2>4 DEF s
<1>2. CASE valid /\ w.length > MAX_STUN_MESSAGE_SIZE
  <2>1. s = [read EXCEPT !.state = "ParseError"]
    BY <1>2 DEF ReadHeader
  <2>2. ~GoodHeader(w, r.fAllowLegacyFormat)
    BY <1>0, <1>2 DEF GoodHeader
  <2> HIDE DEF s, legacy
  <2>3. /\ IsReader(s) /\ s.state = "ParseError"
        /\ s.size = r.size /\ s.fAllowLegacyFormat = r.fAllowLegacyFormat
    BY <2>1 DEF IsReader
  <2>4. HeaderIn(s, w)
    BY <2>2, <2>3 DEF HeaderIn
  <2>5. QED
    BY <2>3, <2>4 DEF s
<1>3. CASE valid /\ ~(w.length > MAX_STUN_MESSAGE_SIZE)
  <2>1. s = [read EXCEPT !.class = w.class,
                         !.state = IF w.length = 0 THEN "BodyValidated" ELSE "HeaderValidated"]
    BY <1>3 DEF ReadHeader
  <2>2. GoodHeader(w, r.fAllowLegacyFormat)
    BY <1>0, <1>3 DEF GoodHeader
  <2>a. legacy \in BOOLEAN
    OBVIOUS
  <2> HIDE DEF s, legacy
  <2>3. /\ IsReader(s)
        /\ s.size = r.size /\ s.fAllowLegacyFormat = r.fAllowLegacyFormat
        /\ s.length = w.length /\ s.tid = w.tid /\ s.class = w.class
        /\ s.attributes = r.attributes
        /\ s.indexFingerprint = r.indexFingerprint
        /\ s.indexMessageIntegrity = r.indexMessageIntegrity
        /\ s.state = IF w.length = 0 THEN "BodyValidated" ELSE "HeaderValidated"
    BY <2>1 DEF IsReader
  <2>4. s.fMessageIsLegacyFormat = legacy
    BY <2>1, <2>a DEF IsReader
  <2>5. HeaderSeen(s, w)
    BY <2>2, <2>3, <2>4 DEF HeaderSeen, legacy
  <2>6. CASE w.length = 0
    <3>1. BodySeen(s, w)
      BY <2>3, <2>6, EmptyBodySeen
    <3>2. s.size >= Whole(w)
      BY <2>3, <2>6 DEF Whole, STUN_HEADER_SIZE
    <3>3. HeaderIn(s, w)
      BY <2>3, <2>5, <2>6, <3>1, <3>2 DEF HeaderIn
    <3>4. QED
      BY <2>3, <3>3 DEF s
  <2>7. CASE w.length # 0
    <3>1. HeaderIn(s, w)
      BY <2>3, <2>5, <2>7 DEF HeaderIn
    <3>2. QED
      BY <2>3, <3>1 DEF s
  <2>8. QED
    BY <2>6, <2>7
<1>4. QED
  BY <1>1, <1>2, <1>3

(* However many bytes come, the reader stays true to what came             *)
LEMMA AddBytesSeen ==
    ASSUME NEW w, IsWire(w), NEW r, IsReader(r), Seen(r, w), NEW n \in Nat,
           r.size + n <= STUN_HEADER_SIZE + 4 * Len(w.words)
    PROVE  LET s == AddBytes(r, w, n)
           IN  IsReader(s) /\ Seen(s, w) /\ s.size \in {r.size, r.size + n}
<1> DEFINE g == [r EXCEPT !.size = @ + n]
           s == AddBytes(r, w, n)
<1>0. r.size \in Nat /\ w.length \in Nat /\ Whole(w) \in Nat /\ Whole(w) >= STUN_HEADER_SIZE
  BY DEF IsReader, IsWire, Whole, STUN_HEADER_SIZE
<1>1. CASE r.state = "ParseError" \/ n = 0
  <2>1. s = r
    BY <1>1 DEF AddBytes
  <2>2. QED
    BY <2>1
<1>2. CASE ~(r.state = "ParseError" \/ n = 0)
  <2>1. s = CheckBody(IF r.state = "HeaderNotRead" /\ g.size >= STUN_HEADER_SIZE
                      THEN ReadHeader(g, w) ELSE g, w)
    BY <1>2 DEF AddBytes
  <2>2. /\ IsReader(g) /\ g.size = r.size + n
        /\ g.fAllowLegacyFormat = r.fAllowLegacyFormat /\ g.state = r.state
        /\ g.length = r.length /\ g.tid = r.tid /\ g.class = r.class
        /\ g.fMessageIsLegacyFormat = r.fMessageIsLegacyFormat
        /\ g.attributes = r.attributes
        /\ g.indexFingerprint = r.indexFingerprint
        /\ g.indexMessageIntegrity = r.indexMessageIntegrity
    BY <1>0 DEF IsReader
  <2>3. g.size <= STUN_HEADER_SIZE + 4 * Len(w.words) /\ g.size > r.size /\ g.size \in Nat
    BY <1>0, <1>2, <2>2
  <2> HIDE DEF g, s
  <2>4. CASE r.state = "HeaderNotRead" /\ g.size >= STUN_HEADER_SIZE
    <3>1. r.attributes = <<>> /\ r.indexFingerprint = 0 /\ r.indexMessageIntegrity = 0
      BY <2>4 DEF Seen
    <3> DEFINE h == ReadHeader(g, w)
    <3>2. IsReader(h) /\ HeaderIn(h, w) /\ h.size = g.size
      BY <2>2, <2>4, <3>1, ReadHeaderIn
    <3>3. s = CheckBody(h, w)
      BY <2>1, <2>4
    <3> HIDE DEF h
    <3>4. h.size <= STUN_HEADER_SIZE + 4 * Len(w.words)
      BY <2>3, <3>2
    <3>5. IsReader(s) /\ Seen(s, w) /\ s.size = h.size
      BY <3>2, <3>3, <3>4, CheckBodySeen
    <3>6. QED
      BY <2>2, <3>2, <3>5 DEF s
  <2>5. CASE r.state = "HeaderNotRead" /\ ~(g.size >= STUN_HEADER_SIZE)
    <3>1. s = CheckBody(g, w)
      BY <2>1, <2>5
    <3>2. s = g
      BY <2>2, <2>5, <3>1 DEF CheckBody
    <3>3. g.attributes = <<>> /\ g.indexFingerprint = 0 /\ g.indexMessageIntegrity = 0
      BY <2>2, <2>5 DEF Seen
    <3>4. g.size < STUN_HEADER_SIZE
      BY <2>3, <2>5 DEF STUN_HEADER_SIZE
    <3>5. Seen(g, w)
      BY <2>2, <2>5, <3>3, <3>4 DEF Seen
    <3>6. QED
      BY <2>2, <3>2, <3>5 DEF s
  <2>6. CASE r.state \in {"HeaderValidated", "BodyValidated"}
    <3>1. s = CheckBody(g, w)
      BY <2>1, <2>6
    <3>2. HeaderSeen(r, w)
      BY <2>6 DEF Seen
    <3>3. HeaderSeen(g, w)
      BY <1>0, <2>2, <2>3, <3>2 DEF HeaderSeen, STUN_HEADER_SIZE
    <3>4. r.state = "BodyValidated" => g.size > Whole(w)
      BY <2>3 DEF Seen
    <3>5. HeaderIn(g, w)
      BY <1>0, <2>2, <2>3, <2>6, <3>3, <3>4 DEF HeaderIn
    <3>6. QED
      BY <2>2, <2>3, <3>1, <3>5, CheckBodySeen DEF s
  <2>7. QED
    BY <1>2, <2>4, <2>5, <2>6 DEF Seen
<1>3. QED
  BY <1>1, <1>2

-----------------------------------------------------------------------------
(* u is s with t behind it                                                 *)
Joined(s, t, u) ==
    /\ IsSeq(u)
    /\ Len(u) = Len(s) + Len(t)
    /\ \A i \in 1 .. Len(s) : u[i] = s[i]
    /\ \A i \in 1 .. Len(t) : u[Len(s) + i] = t[i]

LEMMA ConcatIs ==
    ASSUME NEW s, NEW t, IsSeq(s), IsSeq(t)
    PROVE  Joined(s, t, s \o t)
<1>1. PICK S : s \in Seq(S)
  BY DEF IsSeq
<1>2. PICK T : t \in Seq(T)
  BY DEF IsSeq
<1>3. s \in Seq(S \cup T) /\ t \in Seq(S \cup T)
  BY <1>1, <1>2, SeqMonotonic
<1>4. Len(s) \in Nat /\ Len(t) \in Nat
  BY SeqFacts
<1>5. /\ s \o t \in Seq(S \cup T)
      /\ Len(s \o t) = Len(s) + Len(t)
      /\ \A i \in 1 .. Len(s) + Len(t) :
            (s \o t)[i] = IF i <= Len(s) THEN s[i] ELSE t[i - Len(s)]
  BY <1>3, ConcatProperties
<1>6. IsSeq(s \o t)
  BY <1>5 DEF IsSeq
<1>7. \A i \in 1 .. Len(s) : (s \o t)[i] = s[i]
  BY <1>4, <1>5
<1>8. ASSUME NEW i \in 1 .. Len(t)
      PROVE  (s \o t)[Len(s) + i] = t[i]
  <2>1. /\ Len(s) + i \in 1 .. Len(s) + Len(t)
        /\ ~(Len(s) + i <= Len(s)) /\ (Len(s) + i) - Len(s) = i
    BY <1>4
  <2>2. QED
    BY <1>5, <2>1
<1>9. QED
  BY <1>5, <1>6, <1>7, <1>8 DEF Joined

LEMMA OneWord ==
    ASSUME NEW x
    PROVE  IsSeq(<<x>>) /\ Len(<<x>>) = 1 /\ <<x>>[1] = x
<1>1. <<x>> \in Seq({x})
  OBVIOUS
<1>2. QED
  BY <1>1 DEF IsSeq

LEMMA AppendIs ==
    ASSUME NEW s, IsSeq(s), NEW x
    PROVE  /\ IsSeq(Append(s, x))
           /\ Len(Append(s, x)) = Len(s) + 1
           /\ \A i \in 1 .. Len(s) : Append(s, x)[i] = s[i]
           /\ Append(s, x)[Len(s) + 1] = x
<1>1. PICK S : s \in Seq(S)
  BY DEF IsSeq
<1>2. s \in Seq(S \cup {x})
  BY <1>1, SeqMonotonic
<1>3. /\ Append(s, x) \in Seq(S \cup {x})
      /\ Len(Append(s, x)) = Len(s) + 1
      /\ \A i \in 1 .. Len(s) : Append(s, x)[i] = s[i]
      /\ Append(s, x)[Len(s) + 1] = x
  BY <1>2
<1>4. QED
  BY <1>3 DEF IsSeq

IsMsg(m) ==
    m = [class |-> m.class, tid |-> m.tid, length |-> m.length, words |-> m.words,
         lacks |-> m.lacks]

(* A header word, then k words of value                                    *)
Longer(old, new, t, n, v, k) ==
    /\ IsSeq(new)
    /\ Len(new) = Len(old) + 1 + k
    /\ \A i \in 1 .. Len(old) : new[i] = old[i]
    /\ new[Len(old) + 1] = Word(t, n, <<>>)
    /\ \A j \in 1 .. k : new[Len(old) + 1 + j] = Data(IF j = 1 THEN v ELSE <<"more">>)

LEMMA Append1Is ==
    ASSUME NEW m, IsMsg(m), IsSeq(m.words), NEW t, NEW n, NEW v, NEW k \in Nat
    PROVE  LET g == Append1(m, t, n, v, k)
           IN  /\ IsMsg(g)
               /\ g.class = m.class /\ g.tid = m.tid /\ g.length = m.length /\ g.lacks = m.lacks
               /\ Longer(m.words, g.words, t, n, v, k)
<1> DEFINE g    == Append1(m, t, n, v, k)
           z    == Len(m.words)
           head == <<Word(t, n, <<>>)>>
           tail == Value(v, k)
<1>1. /\ IsMsg(g)
      /\ g.class = m.class /\ g.tid = m.tid /\ g.length = m.length /\ g.lacks = m.lacks
      /\ g.words = m.words \o head \o tail
  <2>1. g = [m EXCEPT !.words = m.words \o head \o tail]
    BY DEF Append1
  <2> HIDE DEF g, head, tail
  <2>2. QED
    BY <2>1 DEF IsMsg
<1>2. /\ IsSeq(tail) /\ Len(tail) = k
      /\ \A j \in 1 .. k : tail[j] = Data(IF j = 1 THEN v ELSE <<"more">>)
  <2>1. tail = [j \in 1 .. k |-> Data(IF j = 1 THEN v ELSE <<"more">>)]
    BY DEF Value
  <2>2. tail = [j \in 1 .. k |-> tail[j]]
    BY <2>1
  <2>3. \A j \in 1 .. k : tail[j] = Data(IF j = 1 THEN v ELSE <<"more">>)
    BY <2>1
  <2> HIDE DEF tail
  <2>4. QED
    BY <2>2, <2>3, SeqMade
<1>3. IsSeq(head) /\ Len(head) = 1 /\ head[1] = Word(t, n, <<>>)
  BY OneWord
<1>4. z \in Nat
  BY SeqFacts
<1> HIDE DEF g, head, tail
<1> DEFINE mh == m.words \o head
<1>5. /\ IsSeq(mh) /\ Len(mh) = z + 1
      /\ \A i \in 1 .. z : mh[i] = m.words[i]
      /\ mh[z + 1] = head[1]
  <2>1. Joined(m.words, head, mh)
    BY <1>3, ConcatIs
  <2>2. 1 \in 1 .. Len(head)
    BY <1>3
  <2> HIDE DEF mh
  <2>3. QED
    BY <1>3, <2>1, <2>2 DEF Joined
<1>6. mh[z + 1] = Word(t, n, <<>>)
  BY <1>3, <1>5
<1>7. g.words = mh \o tail
  BY <1>1
<1> HIDE DEF mh
<1>8. /\ IsSeq(g.words) /\ Len(g.words) = z + 1 + k
      /\ \A i \in 1 .. z + 1 : g.words[i] = mh[i]
      /\ \A j \in 1 .. k : g.words[z + 1 + j] = tail[j]
  <2>1. Joined(mh, tail, g.words)
    BY <1>2, <1>5, <1>7, ConcatIs
  <2>2. QED
    BY <1>2, <1>5, <2>1 DEF Joined
<1>9. (\A i \in 1 .. z : g.words[i] = m.words[i]) /\ g.words[z + 1] = Word(t, n, <<>>)
  BY <1>4, <1>5, <1>6, <1>8
<1>10. QED
  BY <1>1, <1>2, <1>8, <1>9 DEF g, Longer

-----------------------------------------------------------------------------
IsWord(x) == x = Word(x.t, x.n, x.v) /\ x.n \in Nat /\ (x.t = "Data" => x.n = 0)

(* Where the builder put the attributes ad: headers at the positions p,    *)
(* each with its value behind it                                           *)
Layout(m, ad, p) ==
    /\ p \in [1 .. Len(ad) + 1 -> Nat]
    /\ p[1] = 1
    /\ p[Len(ad) + 1] = Len(m.words) + 1
    /\ \A i, j \in 1 .. Len(ad) + 1 : i < j => p[i] < p[j]
    /\ \A i \in 1 .. Len(ad) :
          /\ p[i + 1] = p[i] + 1 + WordsFor(ad[i].n)
          /\ m.words[p[i]] = Word(ad[i].t, ad[i].n, <<>>)
          /\ \A j \in 1 .. WordsFor(ad[i].n) :
                m.words[p[i] + j] = Data(IF j = 1 THEN ad[i].v ELSE <<"more">>)

Legacy(m) == m.tid.first # STUN_COOKIE

(* What the checksum of an attribute at position at covers, more counting  *)
(* the attribute itself                                                    *)
CoveredTo(m, at, more) ==
    [class |-> m.class, length |-> 4 * (at - 1) + more, tid |-> m.tid,
     words |-> SubSeq(m.words, 1, at - 1)]

(* What the builder writes for an attribute of each type, at position at.  *)
(* A message that lacks bytes never gets them, and no reader takes it.     *)
Written(m, a, at) ==
    /\ a.n \in 1 .. 20
    /\ a.t \notin {"Data", "Other"}
    /\ a.t = "MessageIntegrity" =>
          /\ a.n = 20
          /\ m.lacks = 0 => \E key \in Keys : a.v = <<"hmac", key, CoveredTo(m, at, 24)>>
    /\ a.t = "Fingerprint" =>
          /\ a.n = 4
          /\ m.lacks = 0 => a.v = <<"crc", 0, CoveredTo(m, at, 8)>>
    /\ a.t \in {"XorMappedAddress", "XorMappedAddressOptional"} =>
          /\ (a.t = "XorMappedAddressOptional") <=> Legacy(m)
          /\ \E x \in Addrs : /\ a.v = ApplyStunXorMap(PlainAddress(x), m.tid)
                              /\ a.n = IF x.family = 4 THEN 8 ELSE 20
    /\ a.t = "ResponsePort" => (a.n = 2 <=> ~Legacy(m))
    /\ a.t = "ChangeRequest" => a.n = 4

(* The list of unknown attributes, written in RFC mode                     *)
HasRagged(m, ad) == ~Legacy(m) /\ \E i \in 1 .. Len(ad) : ad[i].t = "UnknownAttributes"

Composed(m, ad) ==
    /\ IsMsg(m) /\ IsSeq(m.words) /\ IsSeq(ad)
    /\ \A x \in 1 .. Len(m.words) : IsWord(m.words[x])
    /\ m.lacks \in {0, 2}
    /\ m.lacks # 0 <=> HasRagged(m, ad)
    /\ \E p : Layout(m, ad, p) /\ \A i \in 1 .. Len(ad) : Written(m, ad[i], p[i])

LEMMA WrittenBounds ==
    ASSUME NEW m, NEW a, NEW at, Written(m, a, at)
    PROVE  a.n \in 1 .. 20 /\ a.n \in Nat /\ a.t \notin {"Data", "Other"}
<1>1. a.n \in 1 .. 20 /\ a.t \notin {"Data", "Other"}
  BY DEF Written
<1>2. QED
  BY <1>1

(* The checksum of the first words stays what it was when more follow      *)
LEMMA WrittenStays ==
    ASSUME NEW m, NEW g, IsSeq(m.words), IsSeq(g.words), Len(m.words) <= Len(g.words),
           \A i \in 1 .. Len(m.words) : g.words[i] = m.words[i],
           g.class = m.class, g.tid = m.tid, g.lacks = 0 => m.lacks = 0,
           NEW a, NEW at \in Nat, at > 0, at <= Len(m.words) + 1, Written(m, a, at)
    PROVE  Written(g, a, at)
<1>1. Len(m.words) \in Nat /\ Len(g.words) \in Nat
  BY SeqFacts
<1>2. at - 1 \in Nat /\ at - 1 <= Len(m.words) /\ at - 1 <= Len(g.words)
  BY <1>1
<1>3. /\ SubSeq(m.words, 1, at - 1) = [i \in 1 .. at - 1 |-> m.words[i]]
      /\ SubSeq(g.words, 1, at - 1) = [i \in 1 .. at - 1 |-> g.words[i]]
  BY <1>2, Prefix
<1>4. \A i \in 1 .. at - 1 : g.words[i] = m.words[i]
  BY <1>1, <1>2
<1>5. SubSeq(m.words, 1, at - 1) = SubSeq(g.words, 1, at - 1)
  BY <1>3, <1>4
<1>6. \A more : CoveredTo(m, at, more) = CoveredTo(g, at, more)
  BY <1>5 DEF CoveredTo
<1>7. Legacy(m) <=> Legacy(g)
  BY DEF Legacy
<1>8. QED
  BY <1>6, <1>7 DEF Written

(* One more attribute keeps the message composed                           *)
LEMMA OneMore ==
    ASSUME NEW m, NEW ad, Composed(m, ad),
           NEW t, NEW n \in 1 .. 20, NEW v, NEW g, IsMsg(g),
           g.words = Append1(m, t, n, v, WordsFor(n)).words,
           g.class = m.class, g.tid = m.tid,
           g.lacks \in {0, 2}, g.lacks = 0 => m.lacks = 0,
           g.lacks # 0 <=> m.lacks # 0 \/ (t = "UnknownAttributes" /\ ~Legacy(g)),
           Written(g, [t |-> t, n |-> n, v |-> v], Len(m.words) + 1)
    PROVE  Composed(g, Append(ad, [t |-> t, n |-> n, v |-> v]))
<1> DEFINE a  == [t |-> t, n |-> n, v |-> v]
           ag == Append(ad, a)
           z  == Len(m.words)
           c  == Len(ad)
           k  == WordsFor(n)
<1>1. PICK p : Layout(m, ad, p) /\ \A i \in 1 .. c : Written(m, ad[i], p[i])
  BY DEF Composed
<1>2. IsMsg(m) /\ IsSeq(m.words) /\ IsSeq(ad) /\ z \in Nat /\ c \in Nat /\ k \in Nat
  BY SeqFacts, WordsForNat DEF Composed
<1>3. /\ IsSeq(g.words) /\ Len(g.words) = z + 1 + k
      /\ \A i \in 1 .. z : g.words[i] = m.words[i]
      /\ g.words[z + 1] = Word(t, n, <<>>)
      /\ \A j \in 1 .. k : g.words[z + 1 + j] = Data(IF j = 1 THEN v ELSE <<"more">>)
  <2> DEFINE h == Append1(m, t, n, v, k)
  <2> HIDE DEF k
  <2>1. Longer(m.words, h.words, t, n, v, k)
    BY <1>2, Append1Is
  <2>2. g.words = h.words
    BY DEF k
  <2> HIDE DEF h
  <2>3. QED
    BY <2>1, <2>2 DEF Longer
<1>4. /\ IsSeq(ag) /\ Len(ag) = c + 1
      /\ \A i \in 1 .. c : ag[i] = ad[i]
      /\ ag[c + 1] = a
  BY <1>2, AppendIs
<1> HIDE DEF ag
<1> DEFINE q == [i \in 1 .. c + 2 |-> IF i = c + 2 THEN z + 1 + k + 1 ELSE p[i]]
<1>5. /\ p \in [1 .. c + 1 -> Nat] /\ p[1] = 1 /\ p[c + 1] = z + 1
      /\ \A i, j \in 1 .. c + 1 : i < j => p[i] < p[j]
  BY <1>1 DEF Layout
<1>6. /\ q \in [1 .. c + 2 -> Nat]
      /\ q[c + 2] = z + 1 + k + 1
      /\ \A i \in 1 .. c + 1 : q[i] = p[i]
  <2> HIDE DEF z, c, k
  <2>1. QED
    BY <1>2, <1>5
<1>7. \A i \in 1 .. c : p[i] > 0 /\ p[i] < z + 1
  <2> SUFFICES ASSUME NEW i \in 1 .. c
               PROVE  p[i] > 0 /\ p[i] < z + 1
    OBVIOUS
  <2>1. i \in 1 .. c + 1 /\ c + 1 \in 1 .. c + 1 /\ i < c + 1 /\ 1 \in 1 .. c + 1
    BY <1>2
  <2>2. p[i] < z + 1
    BY <1>5, <2>1
  <2>3. p[i] > 0
    BY <1>2, <1>5, <2>1
  <2>4. QED
    BY <2>2, <2>3
<1> HIDE DEF q
<1>8. \A i, j \in 1 .. c + 2 : i < j => q[i] < q[j]
  <2> SUFFICES ASSUME NEW i \in 1 .. c + 2, NEW j \in 1 .. c + 2, i < j
               PROVE  q[i] < q[j]
    OBVIOUS
  <2> HIDE DEF z, c, k
  <2>1. i \in 1 .. c + 1
    BY <1>2
  <2>2. CASE j = c + 2
    <3>1. p[i] <= z + 1
      <4>1. i = c + 1 \/ i \in 1 .. c
        BY <1>2, <2>1
      <4>2. QED
        BY <1>2, <1>5, <1>7, <4>1
    <3>2. p[i] \in Nat
      BY <1>5, <2>1
    <3>3. QED
      BY <1>2, <1>6, <2>1, <2>2, <3>1, <3>2
  <2>3. CASE j # c + 2
    <3>1. j \in 1 .. c + 1
      BY <1>2, <2>3
    <3>2. QED
      BY <1>5, <1>6, <2>1, <3>1
  <2>4. QED
    BY <2>2, <2>3
<1>9. \A i \in 1 .. c :
         /\ q[i + 1] = q[i] + 1 + WordsFor(ag[i].n)
         /\ g.words[q[i]] = Word(ag[i].t, ag[i].n, <<>>)
         /\ \A j \in 1 .. WordsFor(ag[i].n) :
               g.words[q[i] + j] = Data(IF j = 1 THEN ag[i].v ELSE <<"more">>)
  <2> SUFFICES ASSUME NEW i \in 1 .. c
               PROVE  /\ q[i + 1] = q[i] + 1 + WordsFor(ag[i].n)
                      /\ g.words[q[i]] = Word(ag[i].t, ag[i].n, <<>>)
                      /\ \A j \in 1 .. WordsFor(ag[i].n) :
                            g.words[q[i] + j] = Data(IF j = 1 THEN ag[i].v ELSE <<"more">>)
    OBVIOUS
  <2>1. i \in 1 .. c + 1 /\ i + 1 \in 1 .. c + 1
    BY <1>2
  <2>2. q[i] = p[i] /\ q[i + 1] = p[i + 1] /\ ag[i] = ad[i]
    BY <1>4, <1>6, <2>1
  <2>3. /\ p[i + 1] = p[i] + 1 + WordsFor(ad[i].n)
        /\ m.words[p[i]] = Word(ad[i].t, ad[i].n, <<>>)
        /\ \A j \in 1 .. WordsFor(ad[i].n) :
              m.words[p[i] + j] = Data(IF j = 1 THEN ad[i].v ELSE <<"more">>)
    BY <1>1 DEF Layout
  <2>4. p[i] \in Nat /\ p[i + 1] \in Nat /\ p[i] \in 1 .. z
    <3>1. p[i] \in Nat /\ p[i + 1] \in Nat
      BY <1>5, <2>1
    <3>2. p[i] > 0 /\ p[i] < z + 1
      BY <1>7
    <3> HIDE DEF z
    <3>3. QED
      BY <1>2, <3>1, <3>2
  <2>5. p[i + 1] <= z + 1
    <3>1. i + 1 = c + 1 \/ i + 1 \in 1 .. c
      BY <1>2
    <3>2. CASE i + 1 = c + 1
      BY <1>2, <1>5, <3>2
    <3>3. CASE i + 1 \in 1 .. c
      <4>1. p[i + 1] < z + 1
        BY <1>7, <3>3
      <4>2. QED
        BY <1>2, <2>4, <4>1
    <3>4. QED
      BY <3>1, <3>2, <3>3
  <2>6. WordsFor(ad[i].n) \in Nat
    <3>1. ad[i].n \in Nat
      BY <1>1, WrittenBounds
    <3>2. QED
      BY <3>1, WordsForNat
  <2>7. \A j \in 1 .. WordsFor(ad[i].n) : p[i] + j \in 1 .. z
    <3> HIDE DEF z, c, k
    <3> DEFINE w == WordsFor(ad[i].n)
    <3>1. p[i + 1] = p[i] + 1 + w /\ w \in Nat
      BY <2>3, <2>6
    <3> DEFINE from == p[i]
    <3> HIDE DEF w
    <3>2. from \in Nat /\ from + 1 + w <= z + 1 /\ z \in Nat
      BY <1>2, <2>4, <2>5, <3>1
    <3> HIDE DEF from
    <3>3. \A j \in 1 .. w : from + j \in 1 .. z
      BY <3>1, <3>2
    <3>4. QED
      BY <3>3 DEF w, from
  <2>8. g.words[q[i]] = Word(ag[i].t, ag[i].n, <<>>)
    BY <1>3, <2>2, <2>3, <2>4
  <2>9. \A j \in 1 .. WordsFor(ag[i].n) :
           g.words[q[i] + j] = Data(IF j = 1 THEN ag[i].v ELSE <<"more">>)
    <3>1. \A j \in 1 .. WordsFor(ad[i].n) : g.words[p[i] + j] = m.words[p[i] + j]
      BY <1>3, <2>7
    <3>2. QED
      BY <2>2, <2>3, <3>1
  <2>10. QED
    BY <2>2, <2>3, <2>8, <2>9
<1>10. /\ q[c + 1 + 1] = q[c + 1] + 1 + WordsFor(ag[c + 1].n)
       /\ g.words[q[c + 1]] = Word(ag[c + 1].t, ag[c + 1].n, <<>>)
       /\ \A j \in 1 .. WordsFor(ag[c + 1].n) :
             g.words[q[c + 1] + j] = Data(IF j = 1 THEN ag[c + 1].v ELSE <<"more">>)
  <2>1. q[c + 1] = z + 1 /\ c + 1 + 1 = c + 2
    <3>1. c + 1 \in 1 .. c + 1
      BY <1>2
    <3>2. QED
      BY <1>2, <1>5, <1>6, <3>1
  <2>2. ag[c + 1].n = n /\ ag[c + 1].t = t /\ ag[c + 1].v = v
    BY <1>4
  <2>3. q[c + 2] = z + 1 + 1 + k
    BY <1>2, <1>6
  <2>4. QED
    BY <1>3, <2>1, <2>2, <2>3
<1>11. Layout(g, ag, q)
  <2>1. Len(ag) + 1 = c + 2 /\ q[1] = 1
    <3>1. 1 \in 1 .. c + 1
      BY <1>2
    <3>2. QED
      BY <1>2, <1>4, <1>5, <1>6, <3>1
  <2>2. q[Len(ag) + 1] = Len(g.words) + 1
    BY <1>3, <1>6, <2>1
  <2>3. \A i \in 1 .. c + 1 : i = c + 1 \/ i \in 1 .. c
    BY <1>2
  <2>4. \A i \in 1 .. Len(ag) :
           /\ q[i + 1] = q[i] + 1 + WordsFor(ag[i].n)
           /\ g.words[q[i]] = Word(ag[i].t, ag[i].n, <<>>)
           /\ \A j \in 1 .. WordsFor(ag[i].n) :
                 g.words[q[i] + j] = Data(IF j = 1 THEN ag[i].v ELSE <<"more">>)
    BY <1>4, <1>9, <1>10, <2>3
  <2>5. QED
    BY <1>6, <1>8, <2>1, <2>2, <2>4 DEF Layout
<1>12. \A i \in 1 .. Len(ag) : Written(g, ag[i], q[i])
  <2> SUFFICES ASSUME NEW i \in 1 .. c + 1
               PROVE  Written(g, ag[i], q[i])
    BY <1>4
  <2>1. CASE i = c + 1
    <3>1. q[i] = z + 1
      BY <1>5, <1>6, <2>1
    <3>2. QED
      BY <1>4, <2>1, <3>1
  <2>2. CASE i # c + 1
    <3>1. i \in 1 .. c
      BY <1>2, <2>2
    <3>2. q[i] = p[i] /\ ag[i] = ad[i] /\ p[i] \in Nat
      BY <1>4, <1>5, <1>6, <3>1
    <3>3. Written(m, ad[i], p[i]) /\ p[i] > 0 /\ p[i] <= z + 1
      BY <1>1, <1>2, <1>7, <3>1, <3>2
    <3>4. Len(m.words) <= Len(g.words)
      BY <1>2, <1>3
    <3>5. Written(g, ad[i], p[i])
      BY <1>2, <1>3, <3>2, <3>3, <3>4, WrittenStays
    <3>6. QED
      BY <3>2, <3>5
  <2>3. QED
    BY <2>1, <2>2
<1>13. \A x \in 1 .. Len(g.words) : IsWord(g.words[x])
  <2> SUFFICES ASSUME NEW x \in 1 .. z + 1 + k
               PROVE  IsWord(g.words[x])
    BY <1>3
  <2>1. CASE x \in 1 .. z
    BY <1>3, <2>1 DEF Composed
  <2>2. CASE x = z + 1
    <3>1. g.words[x] = Word(t, n, <<>>) /\ t # "Data"
      BY <1>3, <2>2 DEF Written
    <3>2. QED
      BY <3>1 DEF IsWord, Word
  <2>3. CASE x > z + 1
    <3>1. x - (z + 1) \in 1 .. k /\ z + 1 + (x - (z + 1)) = x
      <4> HIDE DEF z, k
      <4> QED BY <1>2, <2>3
    <3>2. g.words[x] = Data(IF x - (z + 1) = 1 THEN v ELSE <<"more">>)
      BY <1>3, <3>1
    <3>3. QED
      BY <3>2 DEF IsWord, Word, Data
  <2>4. QED
    <3> HIDE DEF z, k
    <3> QED BY <1>2, <2>1, <2>2, <2>3
<1>14. g.lacks # 0 <=> HasRagged(g, ag)
  <2>1. ag[c + 1].t = t /\ Len(ag) = c + 1 /\ c \in Nat /\ \A i \in 1 .. c : ag[i] = ad[i]
    BY <1>2, <1>4
  <2>2. (\E i \in 1 .. Len(ag) : ag[i].t = "UnknownAttributes") <=>
           \/ \E i \in 1 .. c : ad[i].t = "UnknownAttributes"
           \/ t = "UnknownAttributes"
    <3> HIDE DEF c
    <3>1. \A i \in 1 .. c + 1 : i \in 1 .. c \/ i = c + 1
      BY <2>1
    <3>2. c + 1 \in 1 .. c + 1 /\ \A i \in 1 .. c : i \in 1 .. c + 1
      BY <2>1
    <3>3. QED
      BY <2>1, <3>1, <3>2
  <2>3. Legacy(g) <=> Legacy(m)
    BY DEF Legacy
  <2>4. m.lacks # 0 <=> HasRagged(m, ad)
    BY DEF Composed
  <2>5. QED
    BY <2>2, <2>3, <2>4 DEF HasRagged
<1>15. QED
  BY <1>3, <1>4, <1>11, <1>12, <1>13, <1>14 DEF Composed, ag

-----------------------------------------------------------------------------
BuilderInv ==
    /\ stage \in {"Empty", "Header", "Attributes", "Built"}
    /\ Composed(msg, added)
    /\ stage \in {"Empty", "Header"} => added = <<>> /\ msg.words = <<>> /\ msg.lacks = 0
    /\ stage = "Built" => msg.length = BodySize(msg)

LEMMA ComposedOfNothing ==
    ASSUME NEW m, IsMsg(m), m.words = <<>>, m.lacks = 0
    PROVE  Composed(m, <<>>)
<1> DEFINE p == [i \in 1 .. 0 + 1 |-> 1]
<1>1. IsSeq(<<>>) /\ Len(<<>>) = 0
  <2>1. <<>> \in Seq({})
    OBVIOUS
  <2>2. QED
    BY <2>1 DEF IsSeq
<1>2. Layout(m, <<>>, p)
  BY <1>1 DEF Layout
<1> HIDE DEF p
<1>3. ~HasRagged(m, <<>>)
  BY <1>1 DEF HasRagged
<1>4. QED
  BY <1>1, <1>2, <1>3 DEF Composed

LEMMA ComposedWithLength ==
    ASSUME NEW m, NEW ad, Composed(m, ad), NEW l
    PROVE  Composed([m EXCEPT !.length = l], ad)
<1> DEFINE g == [m EXCEPT !.length = l]
<1>1. IsMsg(m)
  BY DEF Composed
<1>2. IsMsg(g) /\ g.words = m.words /\ g.class = m.class /\ g.tid = m.tid /\ g.lacks = m.lacks
  BY <1>1 DEF IsMsg
<1> HIDE DEF g
<1>3. PICK p : Layout(m, ad, p) /\ \A i \in 1 .. Len(ad) : Written(m, ad[i], p[i])
  BY DEF Composed
<1>4. Layout(g, ad, p)
  BY <1>2, <1>3 DEF Layout
<1>5. \A at, more : CoveredTo(m, at, more) = CoveredTo(g, at, more)
  BY <1>2 DEF CoveredTo
<1>6. \A a, at : Written(m, a, at) => Written(g, a, at)
  BY <1>2, <1>5 DEF Written, Legacy
<1>7. HasRagged(m, ad) <=> HasRagged(g, ad)
  BY <1>2 DEF HasRagged, Legacy
<1>8. QED
  BY <1>2, <1>3, <1>4, <1>6, <1>7 DEF Composed, g

(* Mixing an address with the id, and undoing it                           *)
LEMMA XorOnce ==
    ASSUME NEW a, NEW tid
    PROVE  /\ ApplyStunXorMap(PlainAddress(a), tid) = <<"addr", a, XorKey(a, tid)>>
           /\ XorKey(a, tid) # <<>>
<1>1. PlainAddress(a)[2] = a /\ PlainAddress(a)[3] = <<>>
  BY DEF PlainAddress
<1>2. QED
  BY <1>1 DEF ApplyStunXorMap, XorKey

LEMMA XorTwice ==
    ASSUME NEW a, NEW tid
    PROVE  ApplyStunXorMap(ApplyStunXorMap(PlainAddress(a), tid), tid) = PlainAddress(a)
<1> DEFINE v == <<"addr", a, XorKey(a, tid)>>
<1>1. v[2] = a /\ v[3] = XorKey(a, tid) /\ XorKey(a, tid) # <<>>
  BY XorOnce
<1>2. ApplyStunXorMap(PlainAddress(a), tid) = v
  BY XorOnce
<1> HIDE DEF v
<1>3. ApplyStunXorMap(v, tid) = PlainAddress(a)
  BY <1>1 DEF ApplyStunXorMap
<1>4. QED
  BY <1>2, <1>3

LEMMA Lengths ==
    /\ \A n \in 1 .. 20 : WordsFor(n) >= 1
    /\ WordsFor(2) = 1 /\ WordsFor(4) = 1 /\ WordsFor(6) = 2 /\ WordsFor(10) = 3
    /\ WordsFor(8) = 2 /\ WordsFor(12) = 3 /\ WordsFor(20) = 5
BY DEF WordsFor

(* What every step that adds an attribute has to establish                 *)
LEMMA AddsOne ==
    ASSUME BuilderInv, NEW t, NEW n \in 1 .. 20, NEW v, NEW g, IsMsg(g),
           Adding(t, n, v), msg' = g,
           g.words = Append1(msg, t, n, v, WordsFor(n)).words,
           g.class = msg.class, g.tid = msg.tid,
           g.lacks \in {0, 2}, g.lacks = 0 => msg.lacks = 0,
           g.lacks # 0 <=> msg.lacks # 0 \/ (t = "UnknownAttributes" /\ ~Legacy(g)),
           Written(g, [t |-> t, n |-> n, v |-> v], Len(msg.words) + 1)
    PROVE  BuilderInv'
<1>1. /\ stage = "Attributes" /\ stage' = stage
      /\ added' = Append(added, [t |-> t, n |-> n, v |-> v])
  BY DEF Adding
<1>2. Composed(msg, added)
  BY DEF BuilderInv
<1>3. Composed(g, Append(added, [t |-> t, n |-> n, v |-> v]))
  BY <1>2, OneMore
<1>4. Composed(msg', added')
  BY <1>1, <1>3
<1>5. QED
  BY <1>1, <1>4 DEF BuilderInv

(* Most attributes carry no checksum                                       *)
Plain(t) ==
    t \notin {"Data", "Other", "MessageIntegrity", "Fingerprint", "UnknownAttributes"}

LEMMA AddsPlain ==
    ASSUME BuilderInv, NEW t, NEW n \in 1 .. 20, NEW v, Plain(t),
           Adding(t, n, v), msg' = Append1(msg, t, n, v, WordsFor(n)),
           t \in {"XorMappedAddress", "XorMappedAddressOptional"} =>
              /\ (t = "XorMappedAddressOptional") <=> Legacy(msg)
              /\ \E x \in Addrs : /\ v = ApplyStunXorMap(PlainAddress(x), msg.tid)
                                  /\ n = IF x.family = 4 THEN 8 ELSE 20,
           t = "ResponsePort" => (n = 2 <=> ~Legacy(msg)),
           t = "ChangeRequest" => n = 4
    PROVE  BuilderInv'
<1> DEFINE g == Append1(msg, t, n, v, WordsFor(n))
           a == [t |-> t, n |-> n, v |-> v]
<1>1. IsMsg(msg) /\ IsSeq(msg.words) /\ msg.lacks \in {0, 2}
  BY DEF BuilderInv, Composed
<1>2. WordsFor(n) \in Nat
  BY WordsForNat
<1>3. IsMsg(g) /\ g.class = msg.class /\ g.tid = msg.tid /\ g.lacks = msg.lacks
  BY <1>1, <1>2, Append1Is
<1>4. msg' = g /\ g.words = Append1(msg, t, n, v, WordsFor(n)).words
  OBVIOUS
<1> HIDE DEF g
<1>5. Legacy(g) <=> Legacy(msg)
  BY <1>3 DEF Legacy
<1>6. a.t = t /\ a.n = n /\ a.v = v
  OBVIOUS
<1> HIDE DEF a
<1>7. Written(g, a, Len(msg.words) + 1)
  BY <1>3, <1>5, <1>6 DEF Written, Plain
<1>8. Written(g, [t |-> t, n |-> n, v |-> v], Len(msg.words) + 1)
  BY <1>7 DEF a
<1>9. g.lacks # 0 <=> msg.lacks # 0 \/ (t = "UnknownAttributes" /\ ~Legacy(g))
  BY <1>3 DEF Plain
<1>10. QED
  BY <1>1, <1>3, <1>4, <1>8, <1>9, AddsOne

LEMMA AddsAttribute ==
    ASSUME BuilderInv, NEW t, NEW size \in {2, 4, 6, 10}, NEW v, Plain(t),
           t \notin {"XorMappedAddress", "XorMappedAddressOptional"},
           t = "ResponsePort" => size = 2, t = "ChangeRequest" => size = 4,
           AddAttribute(t, size, v)
    PROVE  BuilderInv'
<1> DEFINE n == AttributeLength(size)
<1>1. n \in 1 .. 20 /\ WordsFor(n) = WordsFor(size)
  BY Lengths DEF AttributeLength
<1>2. /\ size = 2 => (n = 2 <=> ~Legacy(msg))
      /\ size = 4 => n = 4
  BY Lengths DEF AttributeLength, fLegacyMode, Legacy
<1>3. Adding(t, n, v) /\ msg' = Append1(msg, t, n, v, WordsFor(n))
  BY <1>1 DEF AddAttribute
<1> HIDE DEF n
<1>4. QED
  BY <1>1, <1>2, <1>3, AddsPlain

LEMMA AddsAddress ==
    ASSUME BuilderInv, NEW t, NEW a \in Addrs, NEW v, v[2] = a, Plain(t),
           t \notin {"ResponsePort", "ChangeRequest"},
           t \in {"XorMappedAddress", "XorMappedAddressOptional"} =>
              /\ (t = "XorMappedAddressOptional") <=> Legacy(msg)
              /\ v = ApplyStunXorMap(PlainAddress(a), msg.tid),
           AddMappedAddressImpl(t, v)
    PROVE  BuilderInv'
<1> DEFINE n == IF a.family = 4 THEN 8 ELSE 20
<1>1. n \in 1 .. 20 /\ n \div 4 = WordsFor(n)
  BY Lengths
<1>2. Adding(t, n, v) /\ msg' = Append1(msg, t, n, v, WordsFor(n))
  BY <1>1 DEF AddMappedAddressImpl
<1>3. t \in {"XorMappedAddress", "XorMappedAddressOptional"} =>
         /\ (t = "XorMappedAddressOptional") <=> Legacy(msg)
         /\ \E x \in Addrs : /\ v = ApplyStunXorMap(PlainAddress(x), msg.tid)
                             /\ n = IF x.family = 4 THEN 8 ELSE 20
  OBVIOUS
<1> HIDE DEF n
<1>4. QED
  BY <1>1, <1>2, <1>3, AddsPlain

(* The two checksums cover the words before them, and a length that counts *)
(* them                                                                    *)
WithLength(m, l) == [m EXCEPT !.length = l]

(* g is b, and a checksum over grown covers more bytes than go before it   *)
Signs(g, b, grown, more) ==
    /\ IsMsg(g) /\ g.words = b.words
    /\ g.class = msg.class /\ g.tid = msg.tid /\ g.lacks = msg.lacks
    /\ msg.lacks = 0 => Covered(grown, msg.words) = CoveredTo(g, Len(msg.words) + 1, more)

LEMMA SignsWhatIsThere ==
    ASSUME BuilderInv, NEW t, NEW n \in {4, 20}, NEW v, NEW k \in Nat, k = WordsFor(n),
           NEW more, more = 4 * k + 4, NEW u,
           NEW grown, grown = FixLengthField(Append1(msg, t, n, u, k)),
           NEW g, g = WithLength(Append1(msg, t, n, v, k), grown.length)
    PROVE  Signs(g, Append1(msg, t, n, v, k), grown, more)
<1> DEFINE a == Append1(msg, t, n, u, k)
           b == Append1(msg, t, n, v, k)
           z == Len(msg.words)
<1>0. grown = FixLengthField(a) /\ g = [b EXCEPT !.length = grown.length]
  BY DEF WithLength
<1>1. IsMsg(msg) /\ IsSeq(msg.words) /\ msg.lacks \in {0, 2} /\ z \in Nat
  BY SeqFacts DEF BuilderInv, Composed
<1>2. /\ IsMsg(a) /\ a.class = msg.class /\ a.tid = msg.tid /\ a.lacks = msg.lacks
      /\ Longer(msg.words, a.words, t, n, u, k)
  BY <1>1, Append1Is
<1>3. /\ IsMsg(b) /\ b.class = msg.class /\ b.tid = msg.tid /\ b.lacks = msg.lacks
      /\ Longer(msg.words, b.words, t, n, v, k)
  BY <1>1, Append1Is
<1> HIDE DEF a, b
<1>4. /\ grown.class = msg.class /\ grown.tid = msg.tid
      /\ grown.length = 4 * Len(a.words) - msg.lacks
  BY <1>0, <1>2 DEF IsMsg, FixLengthField, BodySize
<1>5. /\ IsMsg(g) /\ g.words = b.words
      /\ g.class = msg.class /\ g.tid = msg.tid /\ g.lacks = msg.lacks
  BY <1>0, <1>3 DEF IsMsg
<1>6. Len(a.words) = z + 1 + k
  BY <1>2 DEF Longer
<1>7. SubSeq(g.words, 1, z) = msg.words
  <2>1. IsSeq(g.words) /\ Len(g.words) = z + 1 + k /\ \A i \in 1 .. z : g.words[i] = msg.words[i]
    BY <1>3, <1>5 DEF Longer
  <2>2. z <= Len(g.words)
    BY <1>1, <2>1
  <2>3. SubSeq(g.words, 1, z) = [i \in 1 .. z |-> g.words[i]]
    BY <1>1, <2>1, <2>2, Prefix
  <2>4. msg.words = [i \in 1 .. z |-> msg.words[i]]
    BY <1>1, SeqFacts
  <2>5. QED
    BY <2>1, <2>3, <2>4
<1>8. ASSUME msg.lacks = 0
      PROVE  Covered(grown, msg.words) = CoveredTo(g, z + 1, more)
  <2>1. grown.length = 4 * z + more /\ (z + 1) - 1 = z
    <3>1. grown.length = 4 * (z + 1 + k)
      <4>1. Len(a.words) \in Nat
        BY <1>1, <1>6
      <4>2. QED
        BY <1>4, <1>6, <1>8, <4>1
    <3> HIDE DEF z
    <3>2. 4 * (z + 1 + k) = 4 * z + (4 * k + 4) /\ (z + 1) - 1 = z
      BY <1>1
    <3>3. QED
      BY <3>1, <3>2
  <2> HIDE DEF z
  <2>2. CoveredTo(g, z + 1, more) = [class |-> g.class, length |-> 4 * z + more, tid |-> g.tid,
                                     words |-> SubSeq(g.words, 1, z)]
    BY <2>1 DEF CoveredTo
  <2>3. QED
    BY <1>4, <1>5, <1>7, <2>1, <2>2 DEF Covered, z
<1>9. QED
  BY <1>5, <1>8 DEF b, Signs

LEMMA AddsIntegrity ==
    ASSUME BuilderInv, NEW key \in Keys, AddMessageIntegrity(key)
    PROVE  BuilderInv'
<1> DEFINE t     == "MessageIntegrity"
           grown == FixLengthField(Append1(msg, t, 20, <<>>, 5))
           v     == <<"hmac", key, Covered(grown, msg.words)>>
           g     == [Append1(msg, t, 20, v, 5) EXCEPT !.length = grown.length]
           a     == [t |-> t, n |-> 20, v |-> v]
<1>1. Adding(t, 20, v) /\ msg' = g
  BY DEF AddMessageIntegrity, HMAC_SIZE
<1>2. 5 = WordsFor(20) /\ 5 \in Nat /\ 20 \in {4, 20} /\ 20 \in 1 .. 20 /\ 24 = 4 * 5 + 4
  BY Lengths
<1>3. /\ IsMsg(g) /\ g.words = Append1(msg, t, 20, v, WordsFor(20)).words
      /\ g.class = msg.class /\ g.tid = msg.tid /\ g.lacks = msg.lacks
      /\ msg.lacks = 0 => Covered(grown, msg.words) = CoveredTo(g, Len(msg.words) + 1, 24)
  <2>1. /\ grown = FixLengthField(Append1(msg, t, 20, <<>>, 5))
        /\ g = WithLength(Append1(msg, t, 20, v, 5), grown.length)
    BY DEF WithLength
  <2> HIDE DEF v, t, g, grown
  <2>2. Signs(g, Append1(msg, t, 20, v, 5), grown, 24)
    BY <1>2, <2>1, SignsWhatIsThere
  <2>3. QED
    BY <1>2, <2>2 DEF Signs
<1> HIDE DEF g, grown
<1>4. a.t = t /\ a.n = 20 /\ a.v = v
  OBVIOUS
<1>5. Written(g, a, Len(msg.words) + 1)
  <2> HIDE DEF a
  <2>1. g.lacks = 0 => \E x \in Keys : a.v = <<"hmac", x, CoveredTo(g, Len(msg.words) + 1, 24)>>
    BY <1>3, <1>4
  <2>2. a.n \in 1 .. 20 /\ a.t = "MessageIntegrity"
    BY <1>2, <1>4
  <2>3. QED
    BY <1>4, <2>1, <2>2 DEF Written
<1>6. msg.lacks \in {0, 2} /\ t # "UnknownAttributes"
  BY DEF BuilderInv, Composed
<1> HIDE DEF t, v
<1>7. QED
  BY <1>1, <1>2, <1>3, <1>5, <1>6, AddsOne

LEMMA AddsFingerprint ==
    ASSUME BuilderInv, AddFingerprintAttribute
    PROVE  BuilderInv'
<1> DEFINE t     == "Fingerprint"
           grown == FixLengthField(Append1(msg, t, 4, <<>>, 1))
           v     == <<"crc", 0, Covered(grown, msg.words)>>
           g     == [Append1(msg, t, 4, v, 1) EXCEPT !.length = grown.length]
           a     == [t |-> t, n |-> 4, v |-> v]
<1>1. Adding(t, 4, v) /\ msg' = g
  BY DEF AddFingerprintAttribute
<1>2. 1 = WordsFor(4) /\ 1 \in Nat /\ 4 \in {4, 20} /\ 4 \in 1 .. 20 /\ 8 = 4 * 1 + 4
  BY Lengths
<1>3. /\ IsMsg(g) /\ g.words = Append1(msg, t, 4, v, WordsFor(4)).words
      /\ g.class = msg.class /\ g.tid = msg.tid /\ g.lacks = msg.lacks
      /\ msg.lacks = 0 => Covered(grown, msg.words) = CoveredTo(g, Len(msg.words) + 1, 8)
  <2>1. /\ grown = FixLengthField(Append1(msg, t, 4, <<>>, 1))
        /\ g = WithLength(Append1(msg, t, 4, v, 1), grown.length)
    BY DEF WithLength
  <2> HIDE DEF v, t, g, grown
  <2>2. Signs(g, Append1(msg, t, 4, v, 1), grown, 8)
    BY <1>2, <2>1, SignsWhatIsThere
  <2>3. QED
    BY <1>2, <2>2 DEF Signs
<1> HIDE DEF g, grown
<1>4. a.t = t /\ a.n = 4 /\ a.v = v
  OBVIOUS
<1>5. Written(g, a, Len(msg.words) + 1)
  <2> HIDE DEF a
  <2>1. g.lacks = 0 => a.v = <<"crc", 0, CoveredTo(g, Len(msg.words) + 1, 8)>>
    BY <1>3, <1>4
  <2>2. a.n \in 1 .. 20 /\ a.t = "Fingerprint"
    BY <1>2, <1>4
  <2>3. QED
    BY <1>4, <2>1, <2>2 DEF Written
<1>6. msg.lacks \in {0, 2} /\ t # "UnknownAttributes"
  BY DEF BuilderInv, Composed
<1> HIDE DEF t, v
<1>7. QED
  BY <1>1, <1>2, <1>3, <1>5, <1>6, AddsOne

LEMMA AddsUnknown ==
    ASSUME BuilderInv, AddUnknownAttributes
    PROVE  BuilderInv'
<1> DEFINE t == "UnknownAttributes"
           n == IF fLegacyMode THEN 4 ELSE 2
           v == <<"types">>
           b == Append1(msg, t, n, v, 1)
           g == [b EXCEPT !.lacks = 4 - n]
           a == [t |-> t, n |-> n, v |-> v]
<1>1. Adding(t, n, v) /\ msg' = g /\ \A i \in DOMAIN added : added[i].t # t
  BY DEF AddUnknownAttributes
<1>2. n \in 1 .. 20 /\ WordsFor(n) = 1 /\ 4 - n \in {0, 2}
  BY Lengths
<1>3. IsMsg(msg) /\ IsSeq(msg.words) /\ IsSeq(added)
      /\ (msg.lacks # 0 => \E i \in 1 .. Len(added) : added[i].t = t)
  BY DEF BuilderInv, Composed, HasRagged
<1>4. msg.lacks = 0
  BY <1>1, <1>3, SeqFacts
<1>5. IsMsg(b) /\ b.class = msg.class /\ b.tid = msg.tid
  <2> HIDE DEF n, v, t
  <2>1. 1 \in Nat
    OBVIOUS
  <2>2. QED
    BY <1>3, <2>1, Append1Is
<1>6. b.words = Append1(msg, t, n, v, WordsFor(n)).words
  BY <1>2
<1> HIDE DEF b, n
<1>7. /\ IsMsg(g) /\ g.words = b.words /\ g.lacks = 4 - n
      /\ g.class = msg.class /\ g.tid = msg.tid
  BY <1>5 DEF IsMsg
<1> HIDE DEF g
<1>8. a.t = t /\ a.n = n
  OBVIOUS
<1>9. Written(g, a, Len(msg.words) + 1)
  <2> HIDE DEF a
  <2> QED BY <1>2, <1>8 DEF Written
<1>10. g.lacks # 0 <=> msg.lacks # 0 \/ (t = "UnknownAttributes" /\ ~Legacy(g))
  BY <1>4, <1>7 DEF n, fLegacyMode, Legacy
<1> HIDE DEF v
<1>11. QED
  BY <1>1, <1>2, <1>4, <1>6, <1>7, <1>9, <1>10, AddsOne

LEMMA BuilderStep ==
    ASSUME BuilderInv, BuilderNext
    PROVE  BuilderInv'
<1>0. IsMsg(msg) /\ Composed(msg, added)
  BY DEF BuilderInv, Composed
<1>1. ASSUME NEW class \in Classes, AddHeader(class)
      PROVE  BuilderInv'
  <2>1. /\ stage = "Empty" /\ stage' = "Header" /\ added' = added
        /\ msg' = [msg EXCEPT !.class = class]
    BY <1>1 DEF AddHeader
  <2>2. added = <<>> /\ msg.words = <<>> /\ msg.lacks = 0
    BY <2>1 DEF BuilderInv
  <2> DEFINE g == [msg EXCEPT !.class = class]
  <2>3. IsMsg(g) /\ g.words = <<>> /\ g.lacks = 0
    BY <1>0, <2>2 DEF IsMsg
  <2> HIDE DEF g
  <2>4. Composed(g, <<>>)
    BY <2>3, ComposedOfNothing
  <2>5. msg' = g
    BY <2>1 DEF g
  <2>6. QED
    BY <2>1, <2>2, <2>3, <2>4, <2>5 DEF BuilderInv
<1>2. ASSUME NEW tid \in Tids, AddTransactionId(tid)
      PROVE  BuilderInv'
  <2>1. /\ stage = "Header" /\ stage' = "Attributes" /\ added' = added
        /\ msg' = [msg EXCEPT !.tid = tid]
    BY <1>2 DEF AddTransactionId
  <2>2. added = <<>> /\ msg.words = <<>> /\ msg.lacks = 0
    BY <2>1 DEF BuilderInv
  <2> DEFINE g == [msg EXCEPT !.tid = tid]
  <2>3. IsMsg(g) /\ g.words = <<>> /\ g.lacks = 0
    BY <1>0, <2>2 DEF IsMsg
  <2> HIDE DEF g
  <2>4. Composed(g, <<>>)
    BY <2>3, ComposedOfNothing
  <2>5. msg' = g
    BY <2>1 DEF g
  <2>6. QED
    BY <2>1, <2>2, <2>3, <2>4, <2>5 DEF BuilderInv
<1>3. ASSUME NEW a \in Addrs, AddMappedAddress(a)
      PROVE  BuilderInv'
  <2>1. PlainAddress(a)[2] = a
    BY DEF PlainAddress
  <2>2. Plain("MappedAddress")
    BY DEF Plain
  <2>3. QED
    BY <1>3, <2>1, <2>2, AddsAddress DEF AddMappedAddress
<1>4. ASSUME NEW a \in Addrs, AddXorMappedAddress(a)
      PROVE  BuilderInv'
  <2> DEFINE t == IF fLegacyMode THEN "XorMappedAddressOptional" ELSE "XorMappedAddress"
             v == ApplyStunXorMap(PlainAddress(a), msg.tid)
  <2>1. v[2] = a
    <3>1. v = <<"addr", a, XorKey(a, msg.tid)>>
      BY XorOnce
    <3>2. QED
      BY <3>1
  <2>2. Plain(t) /\ t \notin {"ResponsePort", "ChangeRequest"}
        /\ ((t = "XorMappedAddressOptional") <=> Legacy(msg))
    BY DEF Plain, fLegacyMode, Legacy
  <2>3. AddMappedAddressImpl(t, v)
    BY <1>4 DEF AddXorMappedAddress
  <2> HIDE DEF t
  <2>4. QED
    BY <2>1, <2>2, <2>3, AddsAddress
<1>5. ASSUME NEW a \in Addrs, AddOtherAddress(a)
      PROVE  BuilderInv'
  <2> DEFINE t == IF fLegacyMode THEN "ChangedAddress" ELSE "OtherAddress"
  <2>1. PlainAddress(a)[2] = a
    BY DEF PlainAddress
  <2>2. Plain(t) /\ t \notin {"ResponsePort", "ChangeRequest"}
        /\ t \notin {"XorMappedAddress", "XorMappedAddressOptional"}
    BY DEF Plain
  <2>3. AddMappedAddressImpl(t, PlainAddress(a))
    BY <1>5 DEF AddOtherAddress
  <2> HIDE DEF t
  <2>4. QED
    BY <2>1, <2>2, <2>3, AddsAddress
<1>6. ASSUME AddStringAttribute("Nonce")
      PROVE  BuilderInv'
  <2>1. AddAttribute("Nonce", 6, <<"string">>)
    BY <1>6 DEF AddStringAttribute
  <2>2. Plain("Nonce") /\ 6 \in {2, 4, 6, 10}
    BY DEF Plain
  <2>3. QED
    BY <2>1, <2>2, AddsAttribute
<1>7. ASSUME AddErrorCode
      PROVE  BuilderInv'
  <2>1. AddAttribute("ErrorCode", 10, <<"error">>)
    BY <1>7 DEF AddErrorCode
  <2>2. Plain("ErrorCode") /\ 10 \in {2, 4, 6, 10}
    BY DEF Plain
  <2>3. QED
    BY <2>1, <2>2, AddsAttribute
<1>8. ASSUME AddResponsePort
      PROVE  BuilderInv'
  <2>1. AddAttribute("ResponsePort", 2, <<"port">>)
    BY <1>8 DEF AddResponsePort
  <2>2. Plain("ResponsePort") /\ 2 \in {2, 4, 6, 10}
    BY DEF Plain
  <2>3. QED
    BY <2>1, <2>2, AddsAttribute
<1>9. ASSUME AddChangeRequest
      PROVE  BuilderInv'
  <2>1. AddAttribute("ChangeRequest", 4, <<"flags">>)
    BY <1>9 DEF AddChangeRequest
  <2>2. Plain("ChangeRequest") /\ 4 \in {2, 4, 6, 10}
    BY DEF Plain
  <2>3. QED
    BY <2>1, <2>2, AddsAttribute
<1>10. ASSUME GetResult
       PROVE  BuilderInv'
  <2>1. /\ stage = "Attributes" /\ stage' = "Built" /\ added' = added
        /\ msg' = [msg EXCEPT !.length = BodySize(msg)]
    BY <1>10 DEF GetResult, FixLengthField
  <2>2. Composed(msg', added')
    BY <1>0, <2>1, ComposedWithLength
  <2>3. msg'.length = BodySize(msg) /\ msg'.words = msg.words /\ msg'.lacks = msg.lacks
    BY <1>0, <2>1 DEF IsMsg
  <2>4. msg'.length = BodySize(msg')
    BY <2>3 DEF BodySize
  <2>5. QED
    BY <2>1, <2>2, <2>4 DEF BuilderInv
<1>11. QED
  BY <1>1, <1>2, <1>3, <1>4, <1>5, <1>6, <1>7, <1>8, <1>9, <1>10,
     AddsUnknown, AddsIntegrity, AddsFingerprint DEF BuilderNext

-----------------------------------------------------------------------------
(* What the network may have made of a word                                *)
Altered(y, x) ==
    \/ y = x
    \/ x.t # "Data" /\ y = Word("Other", x.n, x.v)
    \/ x.t = "Data" /\ y = Data(Noise)

(* A datagram on its way from the builder, intact or damaged               *)
Near(w) ==
    /\ w = [zeroBits |-> w.zeroBits, class |-> w.class, tid |-> w.tid, length |-> w.length,
            words |-> w.words, size |-> w.size]
    /\ w.zeroBits \in BOOLEAN
    /\ w.size = STUN_HEADER_SIZE + BodySize(msg)
    /\ w.length \in {msg.length, msg.length + 4}
    /\ IsSeq(w.words) /\ Len(w.words) = Len(msg.words)
    /\ \A x \in 1 .. Len(msg.words) : Altered(w.words[x], msg.words[x])

(* A message that lacks bytes has an attribute                             *)
LEMMA BodySizeNat ==
    ASSUME BuilderInv
    PROVE  BodySize(msg) \in Nat /\ BodySize(msg) <= 4 * Len(msg.words)
<1>1. IsSeq(msg.words) /\ IsSeq(added) /\ msg.lacks \in {0, 2}
  BY DEF BuilderInv, Composed
<1>2. Len(msg.words) \in Nat /\ Len(added) \in Nat
  BY <1>1, SeqFacts
<1>3. ASSUME msg.lacks # 0
      PROVE  Len(msg.words) >= 1
  <2>1. PICK i \in 1 .. Len(added) : added[i].t = "UnknownAttributes"
    BY <1>3 DEF BuilderInv, Composed, HasRagged
  <2>2. PICK p : Layout(msg, added, p)
    BY DEF BuilderInv, Composed
  <2>3. /\ 1 \in 1 .. Len(added) + 1 /\ Len(added) + 1 \in 1 .. Len(added) + 1
        /\ 1 < Len(added) + 1
    BY <1>2, <2>1
  <2>4. p[1] < p[Len(added) + 1] /\ p[1] = 1 /\ p[Len(added) + 1] = Len(msg.words) + 1
    BY <2>2, <2>3 DEF Layout
  <2>5. QED
    BY <1>2, <2>4
<1>4. QED
  BY <1>1, <1>2, <1>3 DEF BodySize

LEMMA SentIsNear ==
    ASSUME BuilderInv, stage = "Built"
    PROVE  Near(Sent)
<1>1. IsSeq(msg.words)
  BY DEF BuilderInv, Composed
<1>2. \A x \in 1 .. Len(msg.words) : Altered(msg.words[x], msg.words[x])
  BY DEF Altered
<1>3. QED
  BY <1>1, <1>2 DEF Near, Sent

LEMMA DamagedIsNear ==
    ASSUME BuilderInv, stage = "Built", NEW w \in Damaged(Sent)
    PROVE  Near(w)
<1>0. /\ IsSeq(msg.words)
      /\ \A x \in 1 .. Len(msg.words) : IsWord(msg.words[x])
      /\ \A x \in 1 .. Len(msg.words) : Altered(msg.words[x], msg.words[x])
  BY DEF BuilderInv, Composed, Altered
<1> DEFINE s == Sent
<1>1. /\ s = [zeroBits |-> TRUE, class |-> msg.class, tid |-> msg.tid, length |-> msg.length,
              words |-> msg.words, size |-> STUN_HEADER_SIZE + BodySize(msg)]
      /\ s.words = msg.words
  BY DEF Sent
<1>2. \/ \E tid \in Tids : w = [s EXCEPT !.tid = tid]
      \/ \E class \in Classes : w = [s EXCEPT !.class = class]
      \/ w = [s EXCEPT !.zeroBits = FALSE]
      \/ w = [s EXCEPT !.length = @ + 4]
      \/ \E i \in DOMAIN s.words :
            w = [s EXCEPT !.words[i] = IF @.t = "Data" THEN Data(Noise)
                                       ELSE [@ EXCEPT !.t = "Other"]]
  BY DEF Damaged
<1> HIDE DEF s
<1>3. ASSUME NEW tid, w = [s EXCEPT !.tid = tid]
      PROVE  Near(w)
  BY <1>0, <1>1, <1>3 DEF Near
<1>4. ASSUME NEW class, w = [s EXCEPT !.class = class]
      PROVE  Near(w)
  BY <1>0, <1>1, <1>4 DEF Near
<1>5. CASE w = [s EXCEPT !.zeroBits = FALSE]
  BY <1>0, <1>1, <1>5 DEF Near
<1>6. CASE w = [s EXCEPT !.length = @ + 4]
  BY <1>0, <1>1, <1>6 DEF Near
<1>7. ASSUME NEW i \in DOMAIN s.words,
             w = [s EXCEPT !.words[i] = IF @.t = "Data" THEN Data(Noise)
                                        ELSE [@ EXCEPT !.t = "Other"]]
      PROVE  Near(w)
  <2> DEFINE x == msg.words[i]
             y == IF x.t = "Data" THEN Data(Noise) ELSE [x EXCEPT !.t = "Other"]
             u == [msg.words EXCEPT ![i] = y]
  <2>1. w = [s EXCEPT !.words = u]
    BY <1>1, <1>7
  <2>2. /\ i \in 1 .. Len(msg.words) /\ Len(msg.words) \in Nat
        /\ DOMAIN msg.words = 1 .. Len(msg.words)
    BY <1>0, <1>1, SeqFacts
  <2>3. Altered(y, x)
    <3>1. IsWord(x)
      BY <1>0, <2>2
    <3>2. x.t # "Data" => y = Word("Other", x.n, x.v)
      BY <3>1 DEF IsWord, Word
    <3> HIDE DEF x
    <3>3. QED
      BY <3>2 DEF Altered
  <2> HIDE DEF x, y
  <2>4. u = [j \in 1 .. Len(msg.words) |-> IF j = i THEN y ELSE msg.words[j]]
    BY <2>2
  <2>5. u = [j \in 1 .. Len(msg.words) |-> u[j]]
    BY <2>4
  <2>6. \A j \in 1 .. Len(msg.words) : Altered(u[j], msg.words[j])
    BY <1>0, <2>3, <2>4 DEF x
  <2> HIDE DEF u
  <2>7. IsSeq(u) /\ Len(u) = Len(msg.words)
    BY <2>2, <2>5, SeqMade
  <2>8. /\ w = [zeroBits |-> TRUE, class |-> msg.class, tid |-> msg.tid, length |-> msg.length,
                words |-> u, size |-> STUN_HEADER_SIZE + BodySize(msg)]
    BY <1>1, <2>1
  <2>9. QED
    BY <2>6, <2>7, <2>8 DEF Near
<1>8. QED
  BY <1>2, <1>3, <1>4, <1>5, <1>6, <1>7

LEMMA NearIsWire ==
    ASSUME BuilderInv, stage = "Built", NEW w, Near(w)
    PROVE  IsWire(w)
<1>1. BodySize(msg) \in Nat /\ BodySize(msg) <= 4 * Len(msg.words) /\ msg.length = BodySize(msg)
  BY BodySizeNat DEF BuilderInv
<1>2. IsSeq(msg.words) /\ \A x \in 1 .. Len(msg.words) : IsWord(msg.words[x])
  BY DEF BuilderInv, Composed
<1>3. Len(msg.words) \in Nat
  BY <1>2, SeqFacts
<1>4. ASSUME NEW x \in 1 .. Len(msg.words)
      PROVE  w.words[x].n \in Nat
  <2>1. Altered(w.words[x], msg.words[x]) /\ IsWord(msg.words[x])
    BY <1>2 DEF Near
  <2>2. msg.words[x].n \in Nat
    BY <2>1 DEF IsWord
  <2>3. CASE w.words[x] = msg.words[x]
    BY <2>2, <2>3
  <2>4. CASE w.words[x] = Word("Other", msg.words[x].n, msg.words[x].v)
    BY <2>2, <2>4 DEF Word
  <2>5. CASE w.words[x] = Data(Noise)
    BY <2>5 DEF Data, Word
  <2>6. QED
    BY <2>1, <2>3, <2>4, <2>5 DEF Altered
<1>5. IsBody(w.words)
  BY <1>4 DEF Near, IsBody
<1>6. w.length \in Nat /\ w.size \in Nat /\ w.size <= STUN_HEADER_SIZE + 4 * Len(w.words)
  BY <1>1, <1>3 DEF Near, STUN_HEADER_SIZE
<1>7. QED
  BY <1>5, <1>6 DEF Near, IsWire

-----------------------------------------------------------------------------
(* The inductive invariant: what has been built, where the wire comes from *)
(* and what the reader has made of the bytes it was given                  *)
ExchangeInv ==
    /\ BuilderInv
    /\ IsReader(reader) /\ IsWire(wire) /\ Seen(reader, wire)
    /\ transport \in {"none", "tcp", "udp"}
    /\ transport = "none" => reader.size = 0
    /\ transport = "tcp" => stage = "Built" /\ wire = Sent /\ reader.size <= wire.size
    /\ transport = "udp" =>
          /\ (stage = "Built" /\ Near(wire)) \/ (stage = "Empty" /\ wire \in ForeignWires)
          /\ reader.size \in {0, wire.size}

LEMMA ForeignIsWire ==
    ASSUME NEW w \in ForeignWires
    PROVE  IsWire(w)
<1>1. /\ w.length \in Nat /\ w.size \in Nat /\ w.zeroBits \in BOOLEAN
      /\ w.words \in Seq({w.words[i] : i \in DOMAIN w.words})
      /\ w.size <= STUN_HEADER_SIZE + 4 * Len(w.words)
      /\ \A i \in DOMAIN w.words : w.words[i].n \in Nat
  BY ForeignAssumption
<1>2. IsSeq(w.words)
  BY <1>1 DEF IsSeq
<1>3. DOMAIN w.words = 1 .. Len(w.words)
  BY <1>2, SeqFacts
<1>4. QED
  BY <1>1, <1>2, <1>3 DEF IsWire, IsBody

LEMMA NothingSeen ==
    ASSUME NEW r, NEW w, Seen(r, w), r.size = 0, IsWire(w), NEW u
    PROVE  Seen(r, u) /\ r.state = "HeaderNotRead"
<1>1. ~(r.size >= STUN_HEADER_SIZE) /\ r.size < STUN_HEADER_SIZE
  BY DEF STUN_HEADER_SIZE
<1>2. QED
  BY <1>1 DEF Seen, HeaderSeen

LEMMA ExchangeStarts == ExchangeInit => ExchangeInv
<1> SUFFICES ASSUME ExchangeInit
             PROVE  ExchangeInv
  OBVIOUS
<1>1. msg = EmptyMessage /\ added = <<>> /\ stage = "Empty"
  BY DEF ExchangeInit, BuilderInit
<1>2. IsMsg(msg) /\ msg.words = <<>> /\ msg.lacks = 0
  BY <1>1 DEF EmptyMessage, IsMsg
<1>3. Composed(msg, added)
  BY <1>1, <1>2, ComposedOfNothing
<1>4. BuilderInv
  BY <1>1, <1>2, <1>3 DEF BuilderInv
<1>5. PICK allow \in BOOLEAN : reader = Reset(allow)
  BY DEF ExchangeInit
<1>6. IsReader(reader) /\ reader.size = 0
  BY <1>5 DEF Reset, IsReader
<1>7. Seen(reader, wire)
  BY <1>5 DEF Reset, Seen, STUN_HEADER_SIZE
<1>8. IsSeq(<<>>) /\ Len(<<>>) = 0
  <2>1. <<>> \in Seq({})
    OBVIOUS
  <2>2. QED
    BY <2>1 DEF IsSeq
<1>9. wire = NoWire /\ transport = "none"
  BY DEF ExchangeInit
<1>10. IsWire(wire)
  BY <1>8, <1>9 DEF NoWire, IsWire, IsBody, STUN_HEADER_SIZE
<1>11. QED
  BY <1>4, <1>6, <1>7, <1>9, <1>10 DEF ExchangeInv

(* One delivery to the reader: all the bytes asked for or fewer            *)
LEMMA ExchangeStep ==
    ExchangeInv /\ [ExchangeNext]_exchangeVars => ExchangeInv'
<1> SUFFICES ASSUME ExchangeInv, [ExchangeNext]_exchangeVars
             PROVE  ExchangeInv'
  OBVIOUS
<1>0. BuilderInv /\ IsReader(reader) /\ IsWire(wire) /\ Seen(reader, wire)
  BY DEF ExchangeInv
<1>1. CASE Build
  <2>1. /\ transport = "none" /\ BuilderNext /\ transport' = "none"
        /\ wire' = wire /\ reader' = reader
    BY <1>1 DEF Build
  <2>2. BuilderInv'
    BY <1>0, <2>1, BuilderStep
  <2>3. reader.size = 0
    BY <2>1 DEF ExchangeInv
  <2>4. /\ IsReader(reader') /\ IsWire(wire') /\ Seen(reader', wire') /\ reader'.size = 0
    BY <1>0, <2>1, <2>3
  <2>5. QED
    BY <2>1, <2>2, <2>4 DEF ExchangeInv
<1>2. ASSUME NEW kind \in {"udp", "tcp"}, NEW w, Send(kind, w), IsWire(w),
             kind = "tcp" => stage = "Built" /\ w = Sent,
             kind = "udp" => \/ stage = "Built" /\ Near(w)
                             \/ stage = "Empty" /\ w \in ForeignWires
      PROVE  ExchangeInv'
  <2>1. /\ transport = "none" /\ transport' = kind /\ wire' = w
        /\ msg' = msg /\ added' = added /\ stage' = stage /\ reader' = reader
    BY <1>2 DEF Send
  <2>2. reader.size = 0
    BY <2>1 DEF ExchangeInv
  <2>3. Seen(reader, w)
    BY <1>0, <2>2, NothingSeen
  <2>4. BuilderInv'
    BY <1>0, <2>1 DEF BuilderInv, Composed
  <2>5. Sent' = Sent /\ (Near(w) => Near(w)')
    BY <2>1 DEF Sent, Near, BodySize
  <2>6. IsReader(reader') /\ IsWire(wire') /\ Seen(reader', wire') /\ reader'.size = 0
    BY <1>0, <1>2, <2>1, <2>2, <2>3
  <2>7. wire'.size \in Nat /\ (Near(w)' => Near(wire)')
    BY <1>2, <2>1 DEF IsWire, Near
  <2>8. kind = "tcp" => stage' = "Built" /\ wire' = Sent' /\ reader'.size <= wire'.size
    BY <1>2, <2>1, <2>5, <2>6, <2>7
  <2>9. kind = "udp" => \/ stage' = "Built" /\ Near(wire)'
                        \/ stage' = "Empty" /\ wire' \in ForeignWires
    BY <1>2, <2>1, <2>5, <2>7
  <2>10. QED
    BY <2>1, <2>4, <2>6, <2>8, <2>9 DEF ExchangeInv
<1>3. CASE SendDatagram
  <2>1. stage = "Built" /\ \E w \in {Sent} \cup Damaged(Sent) : Send("udp", w)
    BY <1>3 DEF SendDatagram
  <2>2. PICK w \in {Sent} \cup Damaged(Sent) : Send("udp", w)
    BY <2>1
  <2>3. Near(w)
    BY <1>0, <2>1, SentIsNear, DamagedIsNear
  <2>4. IsWire(w)
    BY <1>0, <2>1, <2>3, NearIsWire
  <2>5. QED
    BY <1>2, <2>1, <2>2, <2>3, <2>4
<1>4. CASE SendStream
  <2>1. stage = "Built" /\ Send("tcp", Sent)
    BY <1>4 DEF SendStream
  <2>2. IsWire(Sent)
    BY <1>0, <2>1, SentIsNear, NearIsWire
  <2>3. QED
    BY <1>2, <2>1, <2>2
<1>5. CASE ForeignSends
  <2>1. PICK w \in ForeignWires : stage = "Empty" /\ Send("udp", w)
    BY <1>5 DEF ForeignSends
  <2>2. QED
    BY <1>2, <2>1, ForeignIsWire
<1>6. ASSUME NEW n \in Nat, reader' = AddBytes(reader, wire, n),
             UNCHANGED <<msg, added, stage, wire, transport>>,
             reader.size + n <= wire.size, transport # "none",
             transport = "udp" => reader.size = 0 /\ n = wire.size
      PROVE  ExchangeInv'
  <2>1. /\ msg' = msg /\ added' = added /\ stage' = stage
        /\ wire' = wire /\ transport' = transport
    BY <1>6
  <2>2. reader.size \in Nat /\ wire.size \in Nat /\ Len(wire.words) \in Nat
        /\ wire.size <= STUN_HEADER_SIZE + 4 * Len(wire.words)
    BY <1>0, SeqFacts DEF IsReader, IsWire, IsBody
  <2>3. reader.size + n <= STUN_HEADER_SIZE + 4 * Len(wire.words)
    BY <1>6, <2>2 DEF STUN_HEADER_SIZE
  <2>4. IsReader(reader') /\ Seen(reader', wire) /\ reader'.size \in {reader.size, reader.size + n}
    BY <1>0, <1>6, <2>3, AddBytesSeen
  <2>5. BuilderInv'
    BY <1>0, <2>1 DEF BuilderInv, Composed
  <2>6. Sent' = Sent /\ (Near(wire) => Near(wire)')
    BY <2>1 DEF Sent, Near, BodySize
  <2>7. IsReader(reader') /\ IsWire(wire') /\ Seen(reader', wire')
    BY <1>0, <2>1, <2>4
  <2>8. reader'.size <= wire'.size
    BY <1>6, <2>1, <2>2, <2>4
  <2>9. transport = "udp" => reader'.size \in {0, wire'.size}
    BY <1>6, <2>1, <2>2, <2>4
  <2>10. transport' = "tcp" => stage' = "Built" /\ wire' = Sent'
    BY <2>1, <2>6 DEF ExchangeInv
  <2>11. transport' = "udp" => \/ stage' = "Built" /\ Near(wire)'
                               \/ stage' = "Empty" /\ wire' \in ForeignWires
    BY <2>1, <2>6 DEF ExchangeInv
  <2>12. transport' \in {"tcp", "udp"}
    BY <1>6, <2>1 DEF ExchangeInv
  <2>13. QED
    BY <2>1, <2>5, <2>7, <2>8, <2>9, <2>10, <2>11, <2>12 DEF ExchangeInv
<1>7. CASE ReceiveDatagram
  <2>1. /\ transport = "udp" /\ reader.size = 0
        /\ reader' = AddBytes(reader, wire, wire.size)
        /\ UNCHANGED <<msg, added, stage, wire, transport>>
    BY <1>7 DEF ReceiveDatagram
  <2>2. wire.size \in Nat /\ reader.size + wire.size <= wire.size
    BY <1>0, <2>1 DEF IsWire
  <2>3. QED
    BY <1>6, <2>1, <2>2
<1>8. CASE Recv
  <2> DEFINE needed == HowManyBytesNeeded(reader)
  <2>1. /\ transport = "tcp" /\ needed > 0
        /\ UNCHANGED <<msg, added, stage, wire, transport>>
    BY <1>8 DEF Recv
  <2>2. PICK n \in Pieces \cup {needed} : n <= needed /\ reader' = AddBytes(reader, wire, n)
    BY <1>8 DEF Recv
  <2>3. stage = "Built" /\ wire = Sent /\ reader.size \in Nat
    BY <1>0, <2>1 DEF ExchangeInv, IsReader
  <2>4. /\ wire.size = Whole(wire) /\ wire.length \in Nat /\ wire.size >= STUN_HEADER_SIZE
    <3>1. msg.length = BodySize(msg) /\ BodySize(msg) \in Nat
      BY <1>0, <2>3, BodySizeNat DEF BuilderInv
    <3>2. wire.length = msg.length /\ wire.size = STUN_HEADER_SIZE + BodySize(msg)
      BY <2>3 DEF Sent
    <3>3. QED
      BY <3>1, <3>2 DEF Whole, STUN_HEADER_SIZE
  <2>5. needed \in Nat /\ reader.size + needed <= wire.size
    <3>1. CASE reader.state = "HeaderNotRead"
      <4>1. needed = STUN_HEADER_SIZE - reader.size /\ reader.size < STUN_HEADER_SIZE
        BY <1>0, <3>1 DEF HowManyBytesNeeded, Seen
      <4> HIDE DEF needed
      <4>2. QED
        BY <2>3, <2>4, <4>1 DEF STUN_HEADER_SIZE, Whole
    <3>2. CASE reader.state = "HeaderValidated"
      <4>1. /\ needed = wire.length + STUN_HEADER_SIZE - reader.size
            /\ reader.size < Whole(wire)
        BY <1>0, <3>2 DEF HowManyBytesNeeded, Seen, HeaderSeen
      <4> HIDE DEF needed
      <4>2. QED
        BY <2>3, <2>4, <4>1 DEF STUN_HEADER_SIZE, Whole
    <3>3. CASE reader.state \notin {"HeaderNotRead", "HeaderValidated"}
      <4>1. needed = 0
        BY <3>3 DEF HowManyBytesNeeded
      <4> HIDE DEF needed
      <4>2. QED
        BY <2>1, <4>1
    <3>4. QED
      BY <3>1, <3>2, <3>3
  <2> HIDE DEF needed
  <2>6. n \in Nat /\ reader.size + n <= wire.size
    BY <2>2, <2>3, <2>4, <2>5, TransportAssumption DEF Whole, STUN_HEADER_SIZE
  <2>7. QED
    BY <1>6, <2>1, <2>2, <2>6
<1>9. CASE UNCHANGED exchangeVars
  <2>1. /\ msg' = msg /\ added' = added /\ stage' = stage
        /\ wire' = wire /\ transport' = transport /\ reader' = reader
    BY <1>9 DEF exchangeVars
  <2>2. BuilderInv'
    BY <1>0, <2>1 DEF BuilderInv, Composed
  <2>3. Sent' = Sent /\ (Near(wire) => Near(wire)')
    BY <2>1 DEF Sent, Near, BodySize
  <2>4. IsReader(reader') /\ IsWire(wire') /\ Seen(reader', wire')
    BY <1>0, <2>1
  <2>5. QED
    BY <2>1, <2>2, <2>3, <2>4 DEF ExchangeInv
<1>10. QED
  BY <1>1, <1>3, <1>4, <1>5, <1>7, <1>8, <1>9 DEF ExchangeNext

LEMMA ExchangeAlways == ExchangeSpec => []ExchangeInv
BY ExchangeStarts, ExchangeStep, PTL DEF ExchangeSpec

-----------------------------------------------------------------------------
(* Where a reader that took the body found its attributes: inside it       *)
LEMMA TableFits ==
    ASSUME NEW w, IsWire(w), NEW r, IsReader(r), Seen(r, w), r.state = "BodyValidated",
           r.size <= STUN_HEADER_SIZE + 4 * Len(w.words),
           NEW i \in DOMAIN r.attributes
    PROVE  /\ r.attributes[i].at \in Nat \ {0}
           /\ r.attributes[i].n \in Nat
           /\ r.attributes[i].at + WordsFor(r.attributes[i].n) <= Len(w.words)
<1>1. HeaderSeen(r, w) /\ r.size = Whole(w) /\ BodySeen(r, w)
  BY DEF Seen
<1> DEFINE body == BodyOf(w)
<1>2. IsBody(body) /\ Len(body) = w.length \div 4
  BY <1>1, BodyOfIsBody
<1>3. Len(w.words) \in Nat /\ w.length \in Nat /\ Len(body) \in Nat
  BY <1>2, SeqFacts DEF IsWire, IsBody
<1>4. Len(body) <= Len(w.words)
  <2> HIDE DEF body
  <2>1. w.length <= 4 * Len(w.words)
    BY <1>1, <1>3 DEF Whole, STUN_HEADER_SIZE
  <2>2. QED
    BY <1>2, <1>3, <2>1
<1>5. PICK p, c : Chain(body, p, c) /\ IsRead(body, r.attributes, p, c)
  BY <1>1 DEF BodySeen
<1> HIDE DEF body
<1>6. c \in Nat
  BY <1>5, ReaderAssumption DEF Chain
<1>7. i \in 1 .. c /\ r.attributes[i].at = p[i] /\ r.attributes[i].n = body[p[i]].n
  <2>1. i \in 1 .. c
    BY <1>5 DEF IsRead
  <2>2. r.attributes[i] = [t |-> body[p[i]].t, n |-> body[p[i]].n, at |-> p[i]]
    BY <1>5, <2>1 DEF IsRead
  <2>3. QED
    BY <2>1, <2>2
<1>8. /\ p[i] \in 1 .. Len(body)
      /\ p[i + 1] = p[i] + 1 + WordsFor(body[p[i]].n)
      /\ body[p[i]].n \in Nat
  BY <1>2, <1>5, <1>7 DEF Chain, IsBody
<1>9. p[i + 1] <= Len(body) + 1
  <2>1. CASE i = c
    BY <1>3, <1>5, <2>1 DEF Chain
  <2>2. CASE i # c
    <3>1. i + 1 \in 1 .. c
      BY <1>6, <1>7, <2>2
    <3>2. p[i + 1] \in 1 .. Len(body)
      BY <1>5, <3>1 DEF Chain
    <3>3. QED
      BY <1>3, <3>2
  <2>3. QED
    BY <2>1, <2>2
<1>10. WordsFor(body[p[i]].n) \in Nat
  BY <1>8, WordsForNat
<1>11. p[i] \in Nat \ {0} /\ p[i] + WordsFor(body[p[i]].n) <= Len(w.words)
  <2> DEFINE k == WordsFor(body[p[i]].n)
  <2>1. p[i] + 1 + k <= Len(body) + 1 /\ k \in Nat /\ p[i] \in 1 .. Len(body)
    BY <1>8, <1>9, <1>10
  <2> HIDE DEF k
  <2>2. p[i] \in Nat \ {0} /\ p[i] + k <= Len(w.words)
    BY <1>3, <1>4, <2>1
  <2>3. QED
    BY <2>2 DEF k
<1>12. QED
  BY <1>7, <1>8, <1>11

(* What the reader has never runs past what came                           *)
LEMMA ReadWithin ==
    ASSUME ExchangeInv
    PROVE  reader.size <= STUN_HEADER_SIZE + 4 * Len(wire.words)
<1>1. wire.size \in Nat /\ wire.size <= STUN_HEADER_SIZE + 4 * Len(wire.words)
  BY DEF ExchangeInv, IsWire
<1>2. Len(wire.words) \in Nat
  BY SeqFacts DEF ExchangeInv, IsWire, IsBody
<1>3. reader.size \in Nat /\ (reader.size = 0 \/ reader.size <= wire.size)
  BY <1>1 DEF ExchangeInv, IsReader
<1>4. QED
  BY <1>1, <1>2, <1>3 DEF STUN_HEADER_SIZE

(* The answer is a function of the bytes                                   *)
LEMMA VerdictSeen ==
    ASSUME ExchangeInv
    PROVE  StateIsFunctionOfBytes
<1> DEFINE n    == reader.size
           good == GoodHeader(wire, reader.fAllowLegacyFormat)
           well == WellFormed(BodyOf(wire))
<1>1. n \in Nat /\ wire.length \in Nat /\ Whole(wire) \in Nat /\ Whole(wire) >= STUN_HEADER_SIZE
  BY DEF ExchangeInv, IsReader, IsWire, Whole, STUN_HEADER_SIZE
<1>2. Verdict(wire, n, reader.fAllowLegacyFormat) =
        CASE n < STUN_HEADER_SIZE                                -> "HeaderNotRead"
          [] n >= STUN_HEADER_SIZE /\ ~good                      -> "ParseError"
          [] n >= STUN_HEADER_SIZE /\ good /\ n < Whole(wire)    -> "HeaderValidated"
          [] good /\ n > Whole(wire)                             -> "ParseError"
          [] good /\ n = Whole(wire) -> IF well THEN "BodyValidated" ELSE "ParseError"
  BY DEF Verdict, GoodHeader, Whole, BodyOf
<1>3. /\ Seen(reader, wire) /\ IsReader(reader) /\ IsWire(wire)
  BY DEF ExchangeInv
<1>4. CASE reader.state = "HeaderNotRead"
  <2>1. n < STUN_HEADER_SIZE
    BY <1>3, <1>4 DEF Seen
  <2> HIDE DEF n, good, well
  <2>2. Verdict(wire, n, reader.fAllowLegacyFormat) = "HeaderNotRead"
    BY <1>1, <1>2, <2>1 DEF STUN_HEADER_SIZE
  <2>3. QED
    BY <1>4, <2>2 DEF StateIsFunctionOfBytes, n
<1>5. CASE reader.state = "HeaderValidated"
  <2>1. n >= STUN_HEADER_SIZE /\ good /\ n < Whole(wire)
    BY <1>3, <1>5 DEF Seen, HeaderSeen
  <2> HIDE DEF n, good, well
  <2>2. Verdict(wire, n, reader.fAllowLegacyFormat) = "HeaderValidated"
    BY <1>1, <1>2, <2>1 DEF STUN_HEADER_SIZE
  <2>3. QED
    BY <1>5, <2>2 DEF StateIsFunctionOfBytes, n
<1>6. CASE reader.state = "BodyValidated"
  <2>1. n >= STUN_HEADER_SIZE /\ good /\ n = Whole(wire) /\ BodySeen(reader, wire)
    BY <1>3, <1>6 DEF Seen, HeaderSeen
  <2>2. IsBody(BodyOf(wire))
    BY <1>3, <2>1, ReadWithin, BodyOfIsBody
  <2>3. well
    BY <2>1, <2>2, WellFormedIsChain DEF BodySeen
  <2> HIDE DEF n, good, well
  <2>4. Verdict(wire, n, reader.fAllowLegacyFormat) = "BodyValidated"
    BY <1>1, <1>2, <2>1, <2>3 DEF STUN_HEADER_SIZE
  <2>5. QED
    BY <1>6, <2>4 DEF StateIsFunctionOfBytes, n
<1>7. CASE reader.state = "ParseError"
  <2>1. /\ n >= STUN_HEADER_SIZE
        /\ ~good \/ n > Whole(wire) \/ (n = Whole(wire) /\ ~well)
    BY <1>3, <1>7 DEF Seen
  <2> HIDE DEF n, good, well
  <2>2. Verdict(wire, n, reader.fAllowLegacyFormat) = "ParseError"
    <3>1. CASE ~good
      BY <1>1, <1>2, <2>1, <3>1 DEF STUN_HEADER_SIZE
    <3>2. CASE good /\ n > Whole(wire)
      BY <1>1, <1>2, <2>1, <3>2 DEF STUN_HEADER_SIZE
    <3>3. CASE good /\ n = Whole(wire) /\ ~well
      BY <1>1, <1>2, <2>1, <3>3 DEF STUN_HEADER_SIZE
    <3>4. QED
      BY <2>1, <3>1, <3>2, <3>3
  <2>3. QED
    BY <1>7, <2>2 DEF StateIsFunctionOfBytes, n
<1>8. QED
  BY <1>3, <1>4, <1>5, <1>6, <1>7 DEF Seen

(* The parser's answer depends on the bytes received and not on how recv   *)
(* cut them up (CStunMessageReader::AddBytes, ReadHeader, ReadBody)        *)
THEOREM AnswerFromBytesAlone == ExchangeSpec => []StateIsFunctionOfBytes
BY VerdictSeen, ExchangeAlways, PTL

(* Reading what HowManyBytesNeeded says never takes a byte of the message  *)
(* behind, on any TCP stream (TcpClientLoop over CStunMessageReader)       *)
THEOREM StreamStaysInStep == ExchangeSpec => []ReadsOneMessage
<1>1. ASSUME ExchangeInv
      PROVE  ReadsOneMessage
  <2> SUFFICES ASSUME transport = "tcp"
               PROVE  /\ reader.size <= wire.size
                      /\ reader.state = "HeaderNotRead"   => reader.size < STUN_HEADER_SIZE
                      /\ reader.state = "HeaderValidated" => reader.size < wire.size
                      /\ reader.state = "BodyValidated"   => reader.size = wire.size
    BY DEF ReadsOneMessage
  <2>1. /\ stage = "Built" /\ wire = Sent /\ reader.size <= wire.size
        /\ BuilderInv /\ Seen(reader, wire)
    BY <1>1 DEF ExchangeInv
  <2>2. msg.length = BodySize(msg)
    BY <2>1 DEF BuilderInv
  <2>3. wire.size = Whole(wire)
    BY <2>1, <2>2 DEF Sent, Whole
  <2>4. QED
    BY <2>1, <2>3 DEF Seen
<1>2. QED
  BY <1>1, ExchangeAlways, PTL

-----------------------------------------------------------------------------
(* The positions where the builder put the attributes                      *)
Placed(p) ==
    /\ Layout(msg, added, p)
    /\ \A i \in 1 .. Len(added) : Written(msg, added[i], p[i])

LEMMA Positions ==
    ASSUME BuilderInv, NEW p, Placed(p), NEW i \in 1 .. Len(added)
    PROVE  /\ p[i] \in 1 .. Len(msg.words) /\ p[i] + 1 \in 1 .. Len(msg.words)
           /\ added[i].n \in 1 .. 20 /\ WordsFor(added[i].n) \in Nat
           /\ p[i + 1] = p[i] + 1 + WordsFor(added[i].n)
           /\ p[i + 1] <= Len(msg.words) + 1
           /\ i < Len(added) => p[i + 1] <= Len(msg.words)
           /\ p[i + 1] >= p[i] + 2
<1>1. Len(added) \in Nat /\ Len(msg.words) \in Nat
  BY SeqFacts DEF BuilderInv, Composed
<1>2. /\ p \in [1 .. Len(added) + 1 -> Nat] /\ p[1] = 1 /\ p[Len(added) + 1] = Len(msg.words) + 1
      /\ \A j, k \in 1 .. Len(added) + 1 : j < k => p[j] < p[k]
      /\ p[i + 1] = p[i] + 1 + WordsFor(added[i].n)
  BY DEF Placed, Layout
<1>3. added[i].n \in 1 .. 20 /\ WordsFor(added[i].n) >= 1 /\ WordsFor(added[i].n) \in Nat
  <2>1. added[i].n \in 1 .. 20 /\ added[i].n \in Nat
    BY WrittenBounds DEF Placed
  <2>2. QED
    BY <2>1, Lengths, WordsForNat
<1>4. /\ i \in 1 .. Len(added) + 1 /\ i + 1 \in 1 .. Len(added) + 1
      /\ 1 \in 1 .. Len(added) + 1 /\ Len(added) + 1 \in 1 .. Len(added) + 1
  BY <1>1
<1>5. p[i] \in Nat /\ p[i] >= 1
  <2>1. i = 1 \/ 1 < i
    BY <1>1
  <2>2. QED
    BY <1>2, <1>4, <2>1
<1>6. i < Len(added) => p[i + 1] < Len(msg.words) + 1
  <2>1. i < Len(added) => i + 1 < Len(added) + 1
    BY <1>1
  <2>2. QED
    BY <1>2, <1>4, <2>1
<1>7. i = Len(added) \/ i < Len(added)
  BY <1>1
<1>8. p[i + 1] <= Len(msg.words) + 1
  BY <1>1, <1>2, <1>6, <1>7
<1>9. p[i + 1] >= p[i] + 2 /\ p[i] + 1 <= Len(msg.words)
  <2> DEFINE a == p[i]
             b == p[i + 1]
             k == WordsFor(added[i].n)
  <2>1. a \in Nat /\ k \in Nat /\ k >= 1 /\ b = a + 1 + k /\ b <= Len(msg.words) + 1
    BY <1>2, <1>3, <1>5, <1>8
  <2> HIDE DEF a, b, k
  <2>2. b >= a + 2 /\ a + 1 <= Len(msg.words)
    BY <1>1, <2>1
  <2>3. QED
    BY <2>2 DEF a, b
<1>10. p[i] \in 1 .. Len(msg.words) /\ p[i] + 1 \in 1 .. Len(msg.words)
  BY <1>1, <1>5, <1>9
<1>11. i < Len(added) => p[i + 1] <= Len(msg.words)
  <2>1. p[i + 1] \in Nat
    BY <1>2, <1>4
  <2>2. QED
    BY <1>1, <1>6, <2>1
<1>12. QED
  BY <1>2, <1>3, <1>8, <1>9, <1>10, <1>11

(* What comes in at those positions                                        *)
LEMMA NearAt ==
    ASSUME BuilderInv, NEW p, Placed(p), NEW i \in 1 .. Len(added), NEW w, Near(w)
    PROVE  /\ w.words[p[i]].n = added[i].n
           /\ w.words[p[i]].t \in {added[i].t, "Other"}
           /\ added[i].t # "Other"
           /\ w.words[p[i]].t = added[i].t => w.words[p[i]] = msg.words[p[i]]
           /\ w.words[p[i] + 1] \in {Data(added[i].v), Data(Noise)}
           /\ msg.words[p[i] + 1] = Data(added[i].v)
<1>1. p[i] \in 1 .. Len(msg.words) /\ p[i] + 1 \in 1 .. Len(msg.words)
      /\ added[i].n \in 1 .. 20
  BY Positions
<1>2. Altered(w.words[p[i]], msg.words[p[i]]) /\ Altered(w.words[p[i] + 1], msg.words[p[i] + 1])
  BY <1>1 DEF Near
<1>3. msg.words[p[i]] = Word(added[i].t, added[i].n, <<>>)
  BY DEF Placed, Layout
<1>4. added[i].t # "Data" /\ added[i].t # "Other"
  BY WrittenBounds DEF Placed
<1>5. msg.words[p[i] + 1] = Data(added[i].v)
  <2>1. 1 \in 1 .. WordsFor(added[i].n)
    <3>1. WordsFor(added[i].n) \in Nat /\ WordsFor(added[i].n) >= 1
      BY <1>1, Positions, Lengths
    <3>2. QED
      BY <3>1
  <2>2. msg.words[p[i] + 1] = Data(IF 1 = 1 THEN added[i].v ELSE <<"more">>)
    BY <2>1 DEF Placed, Layout
  <2>3. QED
    BY <2>2
<1>6. /\ w.words[p[i]] = Word(added[i].t, added[i].n, <<>>)
         \/ w.words[p[i]] = Word("Other", added[i].n, <<>>)
  BY <1>2, <1>3, <1>4 DEF Altered, Word
<1>7. w.words[p[i] + 1] \in {Data(added[i].v), Data(Noise)}
  BY <1>2, <1>5 DEF Altered, Data, Word
<1>8. QED
  BY <1>3, <1>4, <1>5, <1>6, <1>7 DEF Word

(* The reader's walk meets the builder's                                   *)
SamePath(p, q, c) == c = Len(added) /\ \A i \in 1 .. c + 1 : q[i] = p[i]

LEMMA WalksMeet ==
    ASSUME BuilderInv, NEW p, Placed(p), NEW w, Near(w), NEW q, NEW c, Chain(w.words, q, c)
    PROVE  SamePath(p, q, c)
<1> DEFINE k == Len(added)
           z == Len(msg.words)
           S == {m \in Nat : m <= c /\ m <= k => q[m + 1] = p[m + 1]}
<1>0. k \in Nat /\ z \in Nat /\ c \in Nat /\ Len(w.words) = z
  BY SeqFacts, ReaderAssumption DEF BuilderInv, Composed, Near, Chain
<1>1. 0 \in S
  BY DEF Chain, Placed, Layout
<1>2. ASSUME NEW m \in Nat, m \in S
      PROVE  m + 1 \in S
  <2>1. CASE m + 1 <= c /\ m + 1 <= k
    <3>1. m + 1 \in 1 .. c /\ m + 1 \in 1 .. k
      BY <1>0, <2>1
    <3>2. q[m + 1] = p[m + 1]
      BY <1>0, <1>2, <2>1
    <3>3. q[m + 1 + 1] = q[m + 1] + 1 + WordsFor(w.words[q[m + 1]].n)
      BY <3>1 DEF Chain
    <3>4. p[m + 1 + 1] = p[m + 1] + 1 + WordsFor(added[m + 1].n)
      BY <3>1 DEF Placed, Layout
    <3>5. w.words[p[m + 1]].n = added[m + 1].n
      BY <3>1, NearAt
    <3>6. QED
      BY <3>2, <3>3, <3>4, <3>5
  <2>2. CASE ~(m + 1 <= c /\ m + 1 <= k)
    BY <2>2
  <2>3. QED
    BY <2>1, <2>2
<1>3. \A m \in Nat : m <= c /\ m <= k => q[m + 1] = p[m + 1]
  <2>1. Nat \subseteq S
    <3> HIDE DEF S
    <3> QED BY <1>1, <1>2, SetInduction
  <2>2. QED
    BY <2>1
<1>4. /\ q[c + 1] = z + 1 /\ p[k + 1] = z + 1
  BY <1>0 DEF Chain, Placed, Layout
<1>5. ~(c < k)
  <2> SUFFICES ASSUME c < k
               PROVE  FALSE
    OBVIOUS
  <2>1. p[c + 1] = z + 1
    BY <1>0, <1>3, <1>4
  <2>2. c + 1 \in 1 .. k + 1 /\ k + 1 \in 1 .. k + 1 /\ c + 1 < k + 1
    BY <1>0
  <2>3. p[c + 1] < p[k + 1]
    BY <2>2 DEF Placed, Layout
  <2>4. QED
    BY <1>0, <1>4, <2>1, <2>3
<1>6. ~(k < c)
  <2> SUFFICES ASSUME k < c
               PROVE  FALSE
    OBVIOUS
  <2>1. q[k + 1] = z + 1
    BY <1>0, <1>3, <1>4
  <2>2. k + 1 \in 1 .. c
    BY <1>0
  <2>3. q[k + 1] \in 1 .. z
    BY <1>0, <2>2 DEF Chain
  <2>4. QED
    BY <1>0, <2>1, <2>3
<1>7. c = k
  BY <1>0, <1>5, <1>6
<1>8. ASSUME NEW i \in 1 .. c + 1
      PROVE  q[i] = p[i]
  <2>1. i - 1 \in Nat /\ i - 1 <= c /\ i - 1 <= k /\ (i - 1) + 1 = i
    BY <1>0, <1>7
  <2>2. QED
    BY <1>3, <2>1
<1>9. QED
  BY <1>7, <1>8 DEF SamePath

LEMMA FourTimes == \A k \in Nat : (4 * k) \div 4 = k
OBVIOUS

(* What the table of a reader holds when it took the builder's message     *)
Found(p) ==
    /\ Placed(p)
    /\ msg.lacks = 0
    /\ wire.length = 4 * Len(msg.words) /\ wire.length = msg.length
    /\ HeaderSeen(reader, wire)
    /\ DOMAIN reader.attributes = 1 .. Len(added)
    /\ Len(reader.attributes) = Len(added)
    /\ \A i \in 1 .. Len(added) :
          /\ reader.attributes[i].t = wire.words[p[i]].t
          /\ reader.attributes[i].n = added[i].n
          /\ reader.attributes[i].at = p[i]
    /\ reader.indexFingerprint = LastOf(reader.attributes, "Fingerprint")
    /\ reader.indexMessageIntegrity = LastOf(reader.attributes, "MessageIntegrity")
    /\ Body(reader, wire) = wire.words

LEMMA FoundInTable ==
    ASSUME ExchangeInv, stage = "Built", Near(wire), transport # "none",
           reader.state = "BodyValidated"
    PROVE  \E p : Found(p)
<1>1. BuilderInv /\ IsWire(wire) /\ IsReader(reader) /\ Seen(reader, wire)
  BY DEF ExchangeInv
<1>2. HeaderSeen(reader, wire) /\ reader.size = Whole(wire) /\ BodySeen(reader, wire)
  BY <1>1 DEF Seen
<1>3. msg.length = BodySize(msg) /\ BodySize(msg) \in Nat /\ wire.length \in Nat
  BY <1>1, BodySizeNat DEF BuilderInv, IsWire
<1>4. wire.length = msg.length
  <2>1. CASE transport = "tcp"
    BY <2>1 DEF ExchangeInv, Sent
  <2>2. CASE transport = "udp"
    <3>1. reader.size = wire.size
      BY <1>2, <1>3, <2>2 DEF ExchangeInv, Whole, STUN_HEADER_SIZE
    <3>2. wire.size = STUN_HEADER_SIZE + BodySize(msg)
      BY DEF Near
    <3>3. QED
      BY <1>2, <1>3, <3>1, <3>2 DEF Whole, STUN_HEADER_SIZE
  <2>3. QED
    BY <2>1, <2>2 DEF ExchangeInv
<1>5. IsSeq(msg.words) /\ msg.lacks \in {0, 2} /\ Len(msg.words) \in Nat
  BY <1>1, SeqFacts DEF BuilderInv, Composed
<1>6. wire.length % 4 = 0
  BY <1>2 DEF HeaderSeen, GoodHeader
<1>7. msg.lacks = 0 /\ wire.length = 4 * Len(msg.words)
  BY <1>3, <1>4, <1>5, <1>6 DEF BodySize
<1>8. IsSeq(wire.words) /\ Len(wire.words) = Len(msg.words)
  BY DEF Near
<1>9. BodyOf(wire) = wire.words /\ Body(reader, wire) = wire.words
  <2>1. wire.length \div 4 = Len(wire.words)
    BY <1>5, <1>7, <1>8, FourTimes
  <2>2. SubSeq(wire.words, 1, Len(wire.words)) = wire.words
    BY <1>8, PrefixAll
  <2>3. reader.length = wire.length
    BY <1>2 DEF HeaderSeen
  <2>4. QED
    BY <2>1, <2>2, <2>3 DEF BodyOf, Body
<1>10. PICK q, c : Chain(wire.words, q, c) /\ IsRead(wire.words, reader.attributes, q, c)
  BY <1>2, <1>9 DEF BodySeen
<1>11. PICK p : Placed(p)
  BY <1>1 DEF BuilderInv, Composed, Placed
<1>12. c = Len(added) /\ \A i \in 1 .. c + 1 : q[i] = p[i]
  <2>1. SamePath(p, q, c)
    BY <1>1, <1>10, <1>11, WalksMeet
  <2>2. QED
    BY <2>1 DEF SamePath
<1>13. DOMAIN reader.attributes = 1 .. Len(added) /\ Len(reader.attributes) = Len(added)
  BY <1>10, <1>12 DEF IsRead
<1>14. ASSUME NEW i \in 1 .. Len(added)
       PROVE  /\ reader.attributes[i].t = wire.words[p[i]].t
              /\ reader.attributes[i].n = added[i].n
              /\ reader.attributes[i].at = p[i]
  <2>1. Len(added) \in Nat
    BY <1>1, SeqFacts DEF BuilderInv, Composed
  <2>2. i \in 1 .. c /\ i \in 1 .. c + 1
    BY <1>12, <2>1
  <2>3. q[i] = p[i]
    BY <1>12, <2>2
  <2>4. reader.attributes[i] =
           [t |-> wire.words[p[i]].t, n |-> wire.words[p[i]].n, at |-> p[i]]
    BY <1>10, <2>2, <2>3 DEF IsRead
  <2>5. wire.words[p[i]].n = added[i].n
    BY <1>1, <1>11, NearAt
  <2>6. QED
    BY <2>4, <2>5
<1>15. Found(p)
  BY <1>2, <1>4, <1>7, <1>9, <1>11, <1>13, <1>14 DEF Found, BodySeen
<1>16. QED
  BY <1>15

-----------------------------------------------------------------------------
LEMMA IndexFound ==
    ASSUME NEW p, Found(p), NEW t, NEW i, i = LastOf(reader.attributes, t), i # 0, BuilderInv
    PROVE  /\ i \in 1 .. Len(added) /\ reader.attributes[i].t = t
           /\ \A j \in 1 .. Len(added) : reader.attributes[j].t = t => j <= i
<1>1. Len(added) \in Nat /\ DOMAIN reader.attributes = 1 .. Len(added)
  BY SeqFacts DEF BuilderInv, Composed, Found
<1>2. /\ i \in 0 .. Len(added)
      /\ i # 0 => /\ reader.attributes[i].t = t
                  /\ \A j \in 1 .. Len(added) : reader.attributes[j].t = t => j <= i
  BY <1>1, LastOfFinds
<1>3. QED
  BY <1>1, <1>2

(* A run of words that holds a value                                       *)
LEMMA ValueWords ==
    ASSUME NEW words, IsSeq(words), NEW a \in Nat, a + 5 <= Len(words), NEW x
    PROVE  SubSeq(words, a + 1, a + HMAC_SIZE \div 4) = Value(x, HMAC_SIZE \div 4) <=>
              \A j \in 1 .. 5 : words[a + j] = Data(IF j = 1 THEN x ELSE <<"more">>)
<1>1. HMAC_SIZE \div 4 = 5
  BY DEF HMAC_SIZE
<1>2. Len(words) \in Nat /\ DOMAIN words = 1 .. Len(words)
  BY SeqFacts
<1>3. PICK S : words \in Seq(S)
  BY DEF IsSeq
<1> DEFINE s == SubSeq(words, a + 1, a + 5)
           v == Value(x, 5)
<1>4. \A i \in a + 1 .. a + 5 : words[i] \in S
  <2>1. \A i \in a + 1 .. a + 5 : i \in 1 .. Len(words)
    BY <1>2
  <2>2. QED
    BY <1>3, <2>1, ElementOfSeq
<1>5. /\ s \in Seq(S)
      /\ Len(s) = IF a + 1 <= a + 5 THEN (a + 5) - (a + 1) + 1 ELSE 0
      /\ \A i \in 1 .. (a + 5) - (a + 1) + 1 : s[i] = words[(a + 1) + i - 1]
  <2>1. a + 1 \in Int /\ a + 5 \in Int
    OBVIOUS
  <2>2. QED
    BY <1>4, <2>1, SubSeqProperties
<1> HIDE DEF s
<1>6. Len(s) = 5 /\ \A i \in 1 .. 5 : s[i] = words[a + i]
  <2>1. (a + 5) - (a + 1) + 1 = 5 /\ a + 1 <= a + 5
    OBVIOUS
  <2>2. Len(s) = 5 /\ \A i \in 1 .. 5 : s[i] = words[(a + 1) + i - 1]
    BY <1>5, <2>1
  <2>3. \A i \in 1 .. 5 : (a + 1) + i - 1 = a + i
    OBVIOUS
  <2>4. QED
    BY <2>2, <2>3
<1>7. s = [i \in 1 .. 5 |-> s[i]]
  <2>1. IsSeq(s)
    BY <1>5 DEF IsSeq
  <2>2. QED
    BY <1>6, <2>1, SeqFacts
<1>8. v = [i \in 1 .. 5 |-> Data(IF i = 1 THEN x ELSE <<"more">>)]
  BY DEF Value
<1> HIDE DEF v
<1>9. s = v <=> \A j \in 1 .. 5 : words[a + j] = Data(IF j = 1 THEN x ELSE <<"more">>)
  <2>1. ASSUME s = v, NEW j \in 1 .. 5
        PROVE  words[a + j] = Data(IF j = 1 THEN x ELSE <<"more">>)
    <3>1. s[j] = words[a + j]
      BY <1>6
    <3>2. v[j] = Data(IF j = 1 THEN x ELSE <<"more">>)
      BY <1>8
    <3>3. QED
      BY <2>1, <3>1, <3>2
  <2>2. ASSUME \A j \in 1 .. 5 : words[a + j] = Data(IF j = 1 THEN x ELSE <<"more">>)
        PROVE  s = v
    BY <1>6, <1>7, <1>8, <2>2
  <2>3. QED
    BY <2>1, <2>2
<1>10. QED
  BY <1>1, <1>9 DEF s, v

(* The words before a checksum are those it was computed from              *)
LEMMA SamePrefix ==
    ASSUME NEW u, NEW w, IsSeq(u), IsSeq(w), NEW n \in Nat, n <= Len(u), n <= Len(w),
           SubSeq(u, 1, n) = SubSeq(w, 1, n), NEW i \in 1 .. n
    PROVE  u[i] = w[i]
<1>1. SubSeq(u, 1, n)[i] = u[i]
  BY Prefix
<1>2. SubSeq(w, 1, n)[i] = w[i]
  BY Prefix
<1>3. QED
  BY <1>1, <1>2

(* A foreign message has no signature                                      *)
LEMMA ForeignUnsigned ==
    ASSUME ExchangeInv, wire \in ForeignWires, reader.state = "BodyValidated",
           NEW i \in DOMAIN reader.attributes, reader.attributes[i].n = HMAC_SIZE
    PROVE  ValueOf(reader, wire, i)[1] # "hmac"
<1>1. /\ reader.attributes[i].at \in Nat \ {0}
      /\ reader.attributes[i].at + WordsFor(reader.attributes[i].n) <= Len(wire.words)
  BY ReadWithin, TableFits DEF ExchangeInv
<1>2. WordsFor(reader.attributes[i].n) = 5
  BY Lengths DEF HMAC_SIZE
<1>3. IsSeq(wire.words)
  BY DEF ExchangeInv, IsWire, IsBody
<1>4. Len(wire.words) \in Nat /\ DOMAIN wire.words = 1 .. Len(wire.words)
  BY <1>3, SeqFacts
<1>5. reader.attributes[i].at + 1 \in DOMAIN wire.words
  BY <1>1, <1>2, <1>4
<1>6. QED
  BY <1>5, ForeignAssumption DEF ValueOf

LEMMA NoiseIsNoChecksum ==
    /\ Noise[1] \notin {"hmac", "crc"}
    /\ \A v : Data(v).v = v
BY DEF Noise, Data, Word

(* Whose message it is, once it is read                                    *)
LEMMA WhoseMessage ==
    ASSUME ExchangeInv, reader.state = "BodyValidated"
    PROVE  \/ /\ transport = "udp" /\ wire \in ForeignWires
              /\ stage = "Empty"
           \/ transport # "none" /\ stage = "Built" /\ Near(wire)
<1>1. CASE transport = "none"
  <2>1. reader.state = "HeaderNotRead"
    BY <1>1, NothingSeen DEF ExchangeInv
  <2>2. QED
    BY <2>1
<1>2. CASE transport = "tcp"
  BY <1>2, SentIsNear DEF ExchangeInv
<1>3. CASE transport = "udp"
  BY <1>3 DEF ExchangeInv
<1>4. QED
  BY <1>1, <1>2, <1>3 DEF ExchangeInv

LEMMA IntegrityHolds ==
    ASSUME ExchangeInv, NEW key \in Keys, ValidateMessageIntegrity(reader, wire, key)
    PROVE  /\ stage = "Built"
           /\ reader.tid = msg.tid /\ reader.class = msg.class
           /\ \E s \in DOMAIN added :
                 /\ added[s].t = "MessageIntegrity" /\ added[s].v[2] = key
                 /\ \A i \in DOMAIN reader.attributes :
                       \/ i <= s /\ reader.attributes[i].t = added[i].t
                                 /\ ValueOf(reader, wire, i) = added[i].v
                       \/ i = s + 1 /\ reader.attributes[i].t = "Fingerprint"
<1> DEFINE s        == Lookup(reader, "MessageIntegrity")
           at       == reader.attributes[s].at
           signed   == LengthSigned(reader, wire)
           computed == <<"hmac", key, Covered([wire EXCEPT !.length = signed],
                                              SubSeq(wire.words, 1, at - 1))>>
<1>1. /\ reader.state = "BodyValidated"
      /\ reader.indexMessageIntegrity # 0
      /\ reader.attributes[s].n = HMAC_SIZE
      /\ NothingElseFollows(reader)
      /\ SubSeq(wire.words, at + 1, at + HMAC_SIZE \div 4) = Value(computed, HMAC_SIZE \div 4)
  BY DEF ValidateMessageIntegrity
<1>2. s = LastOf(reader.attributes, "MessageIntegrity")
  BY DEF Lookup
<1>3. BodySeen(reader, wire) /\ BuilderInv /\ IsSeq(wire.words)
  BY <1>1 DEF ExchangeInv, Seen, IsWire, IsBody
<1>4. reader.indexMessageIntegrity = s /\ s # 0
  BY <1>1, <1>2, <1>3 DEF BodySeen
<1> HIDE DEF s
<1>5. s \in DOMAIN reader.attributes
  <2>1. PICK p, c : Chain(BodyOf(wire), p, c) /\ IsRead(BodyOf(wire), reader.attributes, p, c)
    BY <1>3 DEF BodySeen
  <2>2. c \in Nat /\ DOMAIN reader.attributes = 1 .. c
    BY <2>1, ReaderAssumption DEF Chain, IsRead
  <2>3. s \in 0 .. c
    BY <1>2, <2>2, LastOfFinds
  <2>4. QED
    BY <1>4, <2>2, <2>3
<1>6. at \in Nat \ {0} /\ at + 5 <= Len(wire.words)
  <2>1. /\ at \in Nat \ {0}
        /\ at + WordsFor(reader.attributes[s].n) <= Len(wire.words)
    BY <1>1, <1>5, ReadWithin, TableFits DEF ExchangeInv
  <2>2. WordsFor(reader.attributes[s].n) = 5
    BY <1>1, Lengths DEF HMAC_SIZE
  <2>3. QED
    BY <2>1, <2>2
<1> HIDE DEF at, computed
<1>7. wire.words[at + 1] = Data(computed)
  <2>1. \A j \in 1 .. 5 : wire.words[at + j] = Data(IF j = 1 THEN computed ELSE <<"more">>)
    BY <1>1, <1>3, <1>6, ValueWords
  <2>2. 1 \in 1 .. 5
    OBVIOUS
  <2>3. wire.words[at + 1] = Data(IF 1 = 1 THEN computed ELSE <<"more">>)
    BY <2>1, <2>2
  <2>4. QED
    BY <2>3
<1>8. ValueOf(reader, wire, s) = computed /\ computed[1] = "hmac"
  BY <1>7, NoiseIsNoChecksum DEF ValueOf, at, computed
<1>9. wire \notin ForeignWires
  BY <1>1, <1>5, <1>8, ForeignUnsigned
<1>10. transport # "none" /\ stage = "Built" /\ Near(wire)
  BY <1>1, <1>9, WhoseMessage
<1>11. PICK p : Found(p)
  BY <1>1, <1>10, FoundInTable
<1>12. Placed(p) /\ msg.lacks = 0 /\ HeaderSeen(reader, wire)
       /\ Len(reader.attributes) = Len(added) /\ DOMAIN reader.attributes = 1 .. Len(added)
  BY <1>11 DEF Found
<1>13. s \in 1 .. Len(added) /\ reader.attributes[s].t = "MessageIntegrity"
  BY <1>2, <1>3, <1>4, <1>11, IndexFound
<1>14. at = p[s] /\ wire.words[p[s]].t = "MessageIntegrity"
  BY <1>11, <1>13 DEF Found, at
<1>15. added[s].t = "MessageIntegrity"
  BY <1>3, <1>10, <1>12, <1>13, <1>14, NearAt
<1>16. added[s].v = computed
  <2>1. wire.words[p[s] + 1] \in {Data(added[s].v), Data(Noise)}
    BY <1>3, <1>10, <1>12, <1>13, NearAt
  <2>2. Data(computed) # Data(Noise)
    BY <1>8, NoiseIsNoChecksum
  <2>3. Data(computed) = Data(added[s].v)
    BY <1>7, <1>14, <2>1, <2>2
  <2>4. QED
    BY <2>3, NoiseIsNoChecksum
<1>17. PICK k \in Keys : added[s].v = <<"hmac", k, CoveredTo(msg, p[s], 24)>>
  <2>1. Written(msg, added[s], p[s])
    BY <1>12, <1>13 DEF Placed
  <2>2. QED
    BY <1>12, <1>15, <2>1 DEF Written
<1>18. /\ key = k /\ added[s].v[2] = key
       /\ Covered([wire EXCEPT !.length = signed], SubSeq(wire.words, 1, at - 1))
             = CoveredTo(msg, p[s], 24)
  <2> DEFINE x == Covered([wire EXCEPT !.length = signed], SubSeq(wire.words, 1, at - 1))
             y == CoveredTo(msg, p[s], 24)
  <2>1. <<"hmac", key, x>> = <<"hmac", k, y>>
    BY <1>16, <1>17 DEF computed
  <2> HIDE DEF x, y
  <2>2. key = k /\ x = y
    BY <2>1
  <2>3. added[s].v[2] = k
    BY <1>17
  <2>4. QED
    BY <2>2, <2>3 DEF x, y
<1>19. /\ wire.class = msg.class /\ wire.tid = msg.tid
       /\ SubSeq(wire.words, 1, p[s] - 1) = SubSeq(msg.words, 1, p[s] - 1)
  <2> DEFINE e == [wire EXCEPT !.length = signed]
  <2>1. e.class = wire.class /\ e.tid = wire.tid
    BY <1>10 DEF Near
  <2>2. Covered(e, SubSeq(wire.words, 1, at - 1)) = CoveredTo(msg, p[s], 24)
    BY <1>18
  <2> HIDE DEF e
  <2>3. QED
    BY <1>14, <2>1, <2>2 DEF Covered, CoveredTo
<1>20. reader.tid = msg.tid /\ reader.class = msg.class
  BY <1>12, <1>19 DEF HeaderSeen
<1>21. IsSeq(msg.words) /\ Len(wire.words) = Len(msg.words) /\ Len(msg.words) \in Nat
       /\ Len(added) \in Nat
  BY <1>3, <1>10, SeqFacts DEF BuilderInv, Composed, Near
<1>22. ASSUME NEW i \in 1 .. Len(added), i < s
       PROVE  /\ reader.attributes[i].t = added[i].t
              /\ ValueOf(reader, wire, i) = added[i].v
  <2>1. /\ p[i] \in 1 .. Len(msg.words) /\ p[i + 1] >= p[i] + 2
        /\ p[s] \in 1 .. Len(msg.words)
    BY <1>3, <1>12, <1>13, Positions
  <2>2. p[i + 1] <= p[s] /\ p[i + 1] \in Nat
    <3>1. i + 1 = s \/ i + 1 < s
      BY <1>13, <1>21, <1>22
    <3>2. i + 1 \in 1 .. Len(added) + 1 /\ s \in 1 .. Len(added) + 1
      BY <1>13, <1>21
    <3>3. p \in [1 .. Len(added) + 1 -> Nat]
          /\ \A x, y \in 1 .. Len(added) + 1 : x < y => p[x] < p[y]
      BY <1>12 DEF Placed, Layout
    <3>4. QED
      BY <3>1, <3>2, <3>3
  <2>3. p[i] \in 1 .. p[s] - 1 /\ p[i] + 1 \in 1 .. p[s] - 1
    BY <1>21, <2>1, <2>2
  <2>4. p[s] - 1 \in Nat /\ p[s] - 1 <= Len(msg.words) /\ p[s] - 1 <= Len(wire.words)
    BY <1>21, <2>1
  <2>5. wire.words[p[i]] = msg.words[p[i]] /\ wire.words[p[i] + 1] = msg.words[p[i] + 1]
    BY <1>3, <1>19, <1>21, <2>3, <2>4, SamePrefix
  <2>6. msg.words[p[i]].t = added[i].t
    <3>1. msg.words[p[i]] = Word(added[i].t, added[i].n, <<>>)
      BY <1>12 DEF Placed, Layout
    <3>2. QED
      BY <3>1 DEF Word
  <2>7. msg.words[p[i] + 1] = Data(added[i].v)
    BY <1>3, <1>10, <1>12, NearAt
  <2>8. reader.attributes[i].t = wire.words[p[i]].t /\ reader.attributes[i].at = p[i]
    BY <1>11 DEF Found
  <2>9. ValueOf(reader, wire, i) = added[i].v
    BY <2>5, <2>7, <2>8, NoiseIsNoChecksum DEF ValueOf
  <2>10. QED
    BY <2>5, <2>6, <2>8, <2>9
<1>23. ASSUME NEW i \in 1 .. Len(added), i > s
       PROVE  i = s + 1 /\ reader.attributes[i].t = "Fingerprint"
  <2>1. s = Len(added) \/ (s = Len(added) - 1 /\ reader.indexFingerprint = Len(added))
    BY <1>1, <1>4, <1>12 DEF NothingElseFollows
  <2>2. s = Len(added) - 1 /\ reader.indexFingerprint = Len(added) /\ i = s + 1 /\ i = Len(added)
    BY <1>13, <1>21, <1>23, <2>1
  <2>3. reader.indexFingerprint = LastOf(reader.attributes, "Fingerprint")
    BY <1>11 DEF Found
  <2>4. i # 0 /\ i = LastOf(reader.attributes, "Fingerprint")
    BY <1>21, <2>2, <2>3
  <2>5. reader.attributes[i].t = "Fingerprint"
    BY <1>3, <1>11, <2>4, IndexFound
  <2>6. QED
    BY <2>2, <2>5
<1>24. \A i \in DOMAIN reader.attributes :
          \/ i <= s /\ reader.attributes[i].t = added[i].t
                    /\ ValueOf(reader, wire, i) = added[i].v
          \/ i = s + 1 /\ reader.attributes[i].t = "Fingerprint"
  <2>1. ASSUME NEW i \in 1 .. Len(added)
        PROVE  \/ i <= s /\ reader.attributes[i].t = added[i].t
                         /\ ValueOf(reader, wire, i) = added[i].v
               \/ i = s + 1 /\ reader.attributes[i].t = "Fingerprint"
    <3>1. i < s \/ i = s \/ i > s
      BY <1>13, <1>21
    <3>2. CASE i < s
      <4>1. i <= s
        BY <1>13, <1>21, <3>2
      <4>2. reader.attributes[i].t = added[i].t /\ ValueOf(reader, wire, i) = added[i].v
        BY <1>22, <3>2
      <4>3. QED
        BY <4>1, <4>2
    <3>3. CASE i = s
      <4>1. s <= s
        BY <1>13, <1>21
      <4>2. QED
        BY <1>8, <1>13, <1>15, <1>16, <3>3, <4>1
    <3>4. CASE i > s
      BY <1>23, <3>4
    <3>5. QED
      BY <3>1, <3>2, <3>3, <3>4
  <2>2. QED
    BY <1>12, <2>1
<1>25. s \in DOMAIN added
  BY <1>3, <1>13, SeqFacts DEF BuilderInv, Composed
<1>26. QED
  BY <1>10, <1>15, <1>18, <1>20, <1>24, <1>25

(* When MESSAGE-INTEGRITY verifies, in a message of any length, damaged or *)
(* not, the holder of the key wrote what the reader can look up, save a    *)
(* fingerprint behind it (CStunMessageReader::ValidateMessageIntegrity)    *)
THEOREM IntegrityCovers == ExchangeSpec => []IntegrityCoversMessage
<1>1. ASSUME ExchangeInv
      PROVE  IntegrityCoversMessage
  BY <1>1, IntegrityHolds DEF IntegrityCoversMessage
<1>2. QED
  BY <1>1, ExchangeAlways, PTL

(* A datagram that differs from what was sent in no field or word is it    *)
LEMMA NothingDamaged ==
    ASSUME Near(wire), wire.zeroBits, wire.length = msg.length, wire.class = msg.class,
           wire.tid = msg.tid, BuilderInv,
           \A x \in 1 .. Len(msg.words) : wire.words[x] = msg.words[x]
    PROVE  wire = Sent
<1>1. wire = [zeroBits |-> wire.zeroBits, class |-> wire.class, tid |-> wire.tid,
              length |-> wire.length, words |-> wire.words, size |-> wire.size]
  BY Zenon DEF Near
<1>2. wire.zeroBits = TRUE /\ wire.size = STUN_HEADER_SIZE + BodySize(msg)
  BY DEF Near
<1>3. wire.words = msg.words
  <2>1. IsSeq(wire.words) /\ IsSeq(msg.words) /\ Len(wire.words) = Len(msg.words)
    BY DEF Near, BuilderInv, Composed
  <2>2. /\ wire.words = [x \in 1 .. Len(msg.words) |-> wire.words[x]]
        /\ msg.words = [x \in 1 .. Len(msg.words) |-> msg.words[x]]
    BY <2>1, SeqFacts
  <2>3. [x \in 1 .. Len(msg.words) |-> wire.words[x]] = [x \in 1 .. Len(msg.words) |-> msg.words[x]]
    OBVIOUS
  <2>4. QED
    BY <2>2, <2>3
<1>4. QED
  BY <1>1, <1>2, <1>3 DEF Sent

LEMMA FingerprintHolds ==
    ASSUME ExchangeInv, stage = "Built", IsFingerprintAttributeValid(reader, wire)
    PROVE  /\ wire = Sent
           /\ reader.attributes[Len(reader.attributes)].t = "Fingerprint"
<1> DEFINE s == Lookup(reader, "Fingerprint")
<1>1. /\ s # 0 /\ reader.attributes[s].n = 4
      /\ reader.state = "BodyValidated"
      /\ ValueOf(reader, wire, s) = <<"crc", 0, CrcCovers(reader, wire)>>
  BY DEF IsFingerprintAttributeValid, CrcMatches
<1>2. s = LastOf(reader.attributes, "Fingerprint")
  BY DEF Lookup
<1> HIDE DEF s
<1>3. BodySeen(reader, wire) /\ BuilderInv /\ IsSeq(wire.words) /\ HeaderSeen(reader, wire)
  BY <1>1 DEF ExchangeInv, Seen, IsWire, IsBody
<1>4. s \in DOMAIN reader.attributes
  <2>1. PICK p, c : Chain(BodyOf(wire), p, c) /\ IsRead(BodyOf(wire), reader.attributes, p, c)
    BY <1>3 DEF BodySeen
  <2>2. c \in Nat /\ DOMAIN reader.attributes = 1 .. c
    BY <2>1, ReaderAssumption DEF Chain, IsRead
  <2>3. s \in 0 .. c
    BY <1>2, <2>2, LastOfFinds
  <2>4. QED
    BY <1>1, <2>2, <2>3
<1>6. transport # "none" /\ stage = "Built" /\ Near(wire)
  BY <1>1, WhoseMessage
<1>7. PICK p : Found(p)
  BY <1>1, <1>6, FoundInTable
<1>8. Placed(p) /\ msg.lacks = 0 /\ wire.length = 4 * Len(msg.words) /\ wire.length = msg.length
      /\ Len(reader.attributes) = Len(added) /\ Body(reader, wire) = wire.words
  BY <1>7 DEF Found
<1>9. s \in 1 .. Len(added) /\ reader.attributes[s].t = "Fingerprint"
  BY <1>1, <1>2, <1>3, <1>7, IndexFound
<1>10. wire.words[p[s]].t = "Fingerprint" /\ reader.attributes[s].at = p[s]
  BY <1>7, <1>9 DEF Found
<1>11. added[s].t = "Fingerprint" /\ wire.words[p[s]] = msg.words[p[s]]
  <2>1. added[s].t = "Fingerprint"
    BY <1>3, <1>6, <1>8, <1>9, <1>10, NearAt
  <2>2. wire.words[p[s]].t = added[s].t
    BY <1>10, <2>1
  <2>3. QED
    BY <1>3, <1>6, <1>8, <1>9, <2>1, <2>2, NearAt
<1> DEFINE computed == <<"crc", 0, CrcCovers(reader, wire)>>
<1>12. wire.words[p[s] + 1].v = computed
  BY <1>1, <1>10 DEF ValueOf
<1>13. computed[1] = "crc"
  OBVIOUS
<1> HIDE DEF computed
<1>14. added[s].v = computed /\ wire.words[p[s] + 1] = msg.words[p[s] + 1]
  <2>1. /\ wire.words[p[s] + 1] \in {Data(added[s].v), Data(Noise)}
        /\ msg.words[p[s] + 1] = Data(added[s].v)
    BY <1>3, <1>6, <1>8, <1>9, NearAt
  <2>2. wire.words[p[s] + 1] # Data(Noise)
    BY <1>12, <1>13, NoiseIsNoChecksum
  <2>3. wire.words[p[s] + 1] = Data(added[s].v)
    BY <2>1, <2>2
  <2>4. added[s].v = computed
    BY <1>12, <2>3, NoiseIsNoChecksum
  <2>5. QED
    BY <2>1, <2>3, <2>4
<1>15. added[s].n = 4 /\ added[s].v = <<"crc", 0, CoveredTo(msg, p[s], 8)>>
  <2>1. Written(msg, added[s], p[s])
    BY <1>8, <1>9 DEF Placed
  <2>2. QED
    BY <1>8, <1>11, <2>1 DEF Written
<1>16. CrcCovers(reader, wire) = CoveredTo(msg, p[s], 8)
  <2> DEFINE x == CrcCovers(reader, wire)
             y == CoveredTo(msg, p[s], 8)
  <2>1. <<"crc", 0, x>> = <<"crc", 0, y>>
    BY <1>14, <1>15 DEF computed
  <2> HIDE DEF x, y
  <2>2. x = y
    BY <2>1
  <2>3. QED
    BY <2>2 DEF x, y
<1>17. IsSeq(msg.words) /\ Len(wire.words) = Len(msg.words) /\ Len(msg.words) \in Nat
       /\ Len(added) \in Nat
  BY <1>3, <1>6, SeqFacts DEF BuilderInv, Composed, Near
<1>18. /\ wire.class = msg.class /\ wire.tid = msg.tid
       /\ wire.length = 4 * (p[s] - 1) + 8
       /\ SubSeq(wire.words, 1, Len(msg.words) - 2) = SubSeq(msg.words, 1, p[s] - 1)
  BY <1>8, <1>16, <1>17 DEF CrcCovers, Covered, CoveredTo
<1>19. /\ p[s] \in 1 .. Len(msg.words)
       /\ p[s + 1] = p[s] + 1 + WordsFor(added[s].n)
       /\ s < Len(added) => p[s + 1] <= Len(msg.words)
  BY <1>3, <1>8, <1>9, Positions
<1>20. Len(msg.words) = p[s] + 1
  <2> DEFINE pos == p[s]
             z   == Len(msg.words)
  <2>1. 4 * z = 4 * (pos - 1) + 8 /\ pos \in 1 .. z /\ z \in Nat
    BY <1>8, <1>17, <1>18, <1>19
  <2> HIDE DEF pos, z
  <2>2. z = pos + 1
    BY <2>1
  <2>3. QED
    BY <2>2 DEF pos, z
<1>21. s = Len(added)
  <2>1. p[s + 1] = p[s] + 2
    <3>1. WordsFor(added[s].n) = 1
      BY <1>15, Lengths
    <3>2. QED
      BY <1>17, <1>19, <3>1
  <2>2. ~(s < Len(added))
    BY <1>17, <1>19, <1>20, <2>1
  <2>3. QED
    BY <1>9, <1>17, <2>2
<1>22. \A x \in 1 .. Len(msg.words) : wire.words[x] = msg.words[x]
  <2> SUFFICES ASSUME NEW x \in 1 .. Len(msg.words)
               PROVE  wire.words[x] = msg.words[x]
    OBVIOUS
  <2>1. p[s] \in Nat /\ p[s] >= 1 /\ Len(msg.words) - 2 = p[s] - 1
    BY <1>17, <1>19, <1>20
  <2>2. CASE x <= p[s] - 1
    <3>1. /\ x \in 1 .. p[s] - 1 /\ p[s] - 1 \in Nat
          /\ p[s] - 1 <= Len(msg.words) /\ p[s] - 1 <= Len(wire.words)
      BY <1>17, <1>20, <2>1, <2>2
    <3>2. SubSeq(wire.words, 1, p[s] - 1) = SubSeq(msg.words, 1, p[s] - 1)
      BY <1>18, <2>1
    <3>3. QED
      BY <1>3, <1>17, <3>1, <3>2, SamePrefix
  <2>3. CASE x = p[s]
    BY <1>11, <2>3
  <2>4. CASE x = p[s] + 1
    BY <1>14, <2>4
  <2>5. QED
    BY <1>20, <2>1, <2>2, <2>3, <2>4
<1>23. wire.zeroBits
  BY <1>3 DEF HeaderSeen, GoodHeader
<1>24. wire = Sent
  BY <1>3, <1>6, <1>8, <1>18, <1>22, <1>23, NothingDamaged
<1>25. QED
  BY <1>8, <1>9, <1>21, <1>24

(* A fingerprint that checks in a datagram the builder wrote is the last   *)
(* attribute of an undamaged message                                       *)
(* (CStunMessageReader::IsFingerprintAttributeValid)                       *)
THEOREM FingerprintTells == ExchangeSpec => []FingerprintProtects
<1>1. ASSUME ExchangeInv
      PROVE  FingerprintProtects
  BY <1>1, FingerprintHolds DEF FingerprintProtects
<1>2. QED
  BY <1>1, ExchangeAlways, PTL

-----------------------------------------------------------------------------
(* A message on 4-byte boundaries and within the limits is accepted        *)
LEMMA ReadableIsRead ==
    ASSUME ExchangeInv, Intact, Readable, reader.size = wire.size
    PROVE  /\ reader.state = "BodyValidated"
           /\ \E p : Found(p) /\ \A i \in 1 .. Len(added) :
                        /\ reader.attributes[i].t = added[i].t
                        /\ ValueOf(reader, wire, i) = added[i].v
           /\ Near(wire) /\ wire.words = msg.words /\ wire.tid = msg.tid
           /\ wire.class = msg.class
<1>1. transport # "none" /\ stage = "Built" /\ wire = Sent
  BY DEF Intact
<1>2. BuilderInv /\ IsReader(reader) /\ IsWire(wire) /\ Seen(reader, wire)
  BY DEF ExchangeInv
<1>3. Near(wire)
  BY <1>1, <1>2, SentIsNear
<1>4. /\ wire.zeroBits = TRUE /\ wire.class = msg.class /\ wire.tid = msg.tid
      /\ wire.length = msg.length /\ wire.words = msg.words
      /\ wire.size = STUN_HEADER_SIZE + BodySize(msg)
  BY <1>1 DEF Sent
<1>5. IsSeq(msg.words) /\ Len(msg.words) \in Nat /\ Len(added) \in Nat
  BY <1>2, SeqFacts DEF BuilderInv, Composed
<1>6. msg.lacks = 0 /\ msg.length = BodySize(msg)
  <2>1. ~HasRagged(msg, added)
    BY <1>2, SeqFacts DEF Readable, Ragged, HasRagged, Legacy, fLegacyMode, BuilderInv, Composed
  <2>2. QED
    BY <1>1, <1>2, <2>1 DEF BuilderInv, Composed
<1>7. wire.length = 4 * Len(msg.words) /\ wire.length \in Nat
  BY <1>4, <1>5, <1>6 DEF BodySize
<1>8. GoodHeader(wire, reader.fAllowLegacyFormat)
  <2>1. wire.length % 4 = 0
    <3>1. \A k \in Nat : (4 * k) % 4 = 0
      OBVIOUS
    <3>2. QED
      BY <1>5, <1>7, <3>1
  <2>2. wire.length <= MAX_STUN_MESSAGE_SIZE
    BY <1>4, <1>6 DEF Readable
  <2>3. reader.fAllowLegacyFormat \/ wire.tid.first = STUN_COOKIE
    BY <1>4 DEF Readable, fLegacyMode
  <2>4. QED
    BY <1>4, <2>1, <2>2, <2>3 DEF GoodHeader
<1>9. reader.size = Whole(wire) /\ reader.size >= STUN_HEADER_SIZE
  BY <1>4, <1>6, <1>7 DEF Whole, STUN_HEADER_SIZE
<1>10. BodyOf(wire) = msg.words
  BY <1>4, <1>5, <1>7, FourTimes, PrefixAll DEF BodyOf
<1>11. WellFormed(msg.words)
  <2>1. PICK p : Placed(p)
    BY <1>2 DEF BuilderInv, Composed, Placed
  <2>2. Chain(msg.words, p, Len(added))
    <3>1. Len(added) \in 0 .. MAX_NUM_ATTRIBUTES
      BY <1>5, ReaderAssumption DEF Readable
    <3>2. p \in [1 .. Len(added) + 1 -> Nat] /\ p[1] = 1 /\ p[Len(added) + 1] = Len(msg.words) + 1
      BY <2>1 DEF Placed, Layout
    <3>3. ASSUME NEW i \in 1 .. Len(added)
          PROVE  /\ p[i] \in 1 .. Len(msg.words)
                 /\ msg.words[p[i]].n <= MAX_STUN_ATTRIBUTE_SIZE
                 /\ p[i + 1] = p[i] + 1 + WordsFor(msg.words[p[i]].n)
      <4>1. /\ p[i] \in 1 .. Len(msg.words) /\ added[i].n \in 1 .. 20
            /\ p[i + 1] = p[i] + 1 + WordsFor(added[i].n)
        BY <1>2, <2>1, Positions
      <4>2. msg.words[p[i]].n = added[i].n
        BY <1>2, <1>3, <1>4, <2>1, NearAt
      <4>3. added[i].n <= MAX_STUN_ATTRIBUTE_SIZE
        <5>1. MAX_STUN_ATTRIBUTE_SIZE \in Nat /\ MAX_STUN_ATTRIBUTE_SIZE >= 20
          BY ReaderAssumption DEF HMAC_SIZE
        <5> DEFINE n == added[i].n
        <5>2. n \in 1 .. 20
          BY <4>1
        <5> HIDE DEF n
        <5>3. n <= MAX_STUN_ATTRIBUTE_SIZE
          BY <5>1, <5>2
        <5>4. QED
          BY <5>3 DEF n
      <4>4. msg.words[p[i]].n <= MAX_STUN_ATTRIBUTE_SIZE
        BY <4>2, <4>3
      <4>5. p[i + 1] = p[i] + 1 + WordsFor(msg.words[p[i]].n)
        BY <4>1, <4>2
      <4>6. QED
        BY <4>1, <4>4, <4>5
    <3>4. QED
      BY <3>1, <3>2, <3>3 DEF Chain
  <2>3. IsBody(msg.words)
    BY <1>2, <1>4 DEF IsWire
  <2>4. QED
    BY <2>2, <2>3, WellFormedIsChain
<1>12. reader.state = "BodyValidated"
  <2>1. Whole(wire) \in Nat
    BY <1>7 DEF Whole, STUN_HEADER_SIZE
  <2>2. ~(reader.size < STUN_HEADER_SIZE)
    BY <1>9, <2>1 DEF STUN_HEADER_SIZE
  <2>3. ~(reader.size < Whole(wire)) /\ ~(reader.size > Whole(wire))
    BY <1>9, <2>1
  <2>4. QED
    BY <1>2, <1>8, <1>10, <1>11, <2>2, <2>3 DEF Seen
<1>13. PICK p : Found(p)
  BY <1>1, <1>3, <1>12, FoundInTable
<1>14. ASSUME NEW i \in 1 .. Len(added)
       PROVE  /\ reader.attributes[i].t = added[i].t
              /\ ValueOf(reader, wire, i) = added[i].v
  <2>1. Placed(p) /\ reader.attributes[i].t = wire.words[p[i]].t /\ reader.attributes[i].at = p[i]
    BY <1>13 DEF Found
  <2>2. msg.words[p[i]] = Word(added[i].t, added[i].n, <<>>)
    BY <2>1 DEF Placed, Layout
  <2>3. msg.words[p[i] + 1] = Data(added[i].v)
    BY <1>2, <1>3, <2>1, NearAt
  <2>4. msg.words[p[i]].t = added[i].t /\ msg.words[p[i] + 1].v = added[i].v
    BY <2>2, <2>3, NoiseIsNoChecksum DEF Word
  <2>5. QED
    BY <1>4, <2>1, <2>4 DEF ValueOf
<1>15. QED
  BY <1>3, <1>4, <1>12, <1>13, <1>14

(* What a reader finds for a type is what the builder added last of it     *)
LEMMA LooksUp ==
    ASSUME BuilderInv, NEW p, Found(p),
           \A i \in 1 .. Len(added) : reader.attributes[i].t = added[i].t, NEW t
    PROVE  /\ Lookup(reader, t) \in 0 .. Len(added)
           /\ Lookup(reader, t) = 0 => \A i \in 1 .. Len(added) : added[i].t # t
           /\ Lookup(reader, t) # 0 => added[Lookup(reader, t)].t = t
           /\ \A i \in 1 .. Len(added) :
                 /\ added[i].t = t
                 /\ \A j \in 1 .. Len(added) : j > i => added[j].t # t
                 => Lookup(reader, t) = i
<1>1. Len(added) \in Nat /\ DOMAIN reader.attributes = 1 .. Len(added)
  BY SeqFacts DEF BuilderInv, Composed, Found
<1> DEFINE l == LastOf(reader.attributes, t)
<1>2. /\ l \in 0 .. Len(added)
      /\ l = 0 => \A j \in 1 .. Len(added) : reader.attributes[j].t # t
      /\ l # 0 => /\ reader.attributes[l].t = t
                  /\ \A j \in 1 .. Len(added) : reader.attributes[j].t = t => j <= l
  BY <1>1, LastOfFinds
<1>3. Lookup(reader, t) = l
  BY DEF Lookup
<1> HIDE DEF l
<1>4. l # 0 => l \in 1 .. Len(added)
  BY <1>1, <1>2
<1>5. ASSUME NEW i \in 1 .. Len(added), added[i].t = t,
             \A j \in 1 .. Len(added) : j > i => added[j].t # t
      PROVE  l = i
  <2>1. l # 0
    BY <1>2, <1>5
  <2>2. l \in 1 .. Len(added) /\ added[l].t = t /\ i <= l
    BY <1>2, <1>4, <1>5, <2>1
  <2>3. ~(l > i)
    BY <1>5, <2>2
  <2>4. QED
    BY <1>1, <2>2, <2>3
<1>6. QED
  BY <1>2, <1>3, <1>4, <1>5

LEMMA FoundAt ==
    ASSUME NEW p, Found(p), NEW i \in 1 .. Len(added)
    PROVE  /\ reader.attributes[i].n = added[i].n /\ reader.attributes[i].at = p[i]
           /\ Written(msg, added[i], p[i])
BY DEF Found, Placed

(* The address of the sender comes out of the mixture                      *)
LEMMA XorReadsBack ==
    ASSUME BuilderInv, NEW p, Found(p), reader.tid = msg.tid,
           \A i \in 1 .. Len(added) : /\ reader.attributes[i].t = added[i].t
                                      /\ ValueOf(reader, wire, i) = added[i].v,
           NEW i \in 1 .. Len(added),
           added[i].t \in {"XorMappedAddress", "XorMappedAddressOptional"},
           \A j \in 1 .. Len(added) : j > i => added[j].t # added[i].t
    PROVE  GetXorMappedAddress(reader, wire) = PlainAddress(added[i].v[2])
<1>1. Written(msg, added[i], p[i])
  BY FoundAt
<1>2. PICK x \in Addrs : /\ added[i].v = ApplyStunXorMap(PlainAddress(x), msg.tid)
                         /\ added[i].n = IF x.family = 4 THEN 8 ELSE 20
  BY <1>1 DEF Written
<1>3. added[i].v = <<"addr", x, XorKey(x, msg.tid)>>
  BY <1>2, XorOnce
<1>4. added[i].v[1] = "addr" /\ added[i].v[2] = x /\ added[i].v # <<>>
  BY <1>3
<1>5. Lookup(reader, added[i].t) = i
  BY LooksUp
<1>6. Len(added) \in Nat /\ i # 0
  BY SeqFacts DEF BuilderInv, Composed
<1>7. GetAddressHelper(reader, wire, added[i].t) = added[i].v
  <2>1. ValueOf(reader, wire, i) = added[i].v /\ reader.attributes[i].n = added[i].n
    BY FoundAt
  <2>2. added[i].n >= 8 /\ added[i].n >= (IF x.family = 4 THEN 8 ELSE 20)
    BY <1>2
  <2>3. QED
    BY <1>4, <1>5, <1>6, <2>1, <2>2 DEF GetAddressHelper
<1>8. OneOf(reader, wire, "XorMappedAddress", "XorMappedAddressOptional") = added[i].v
  <2>1. CASE added[i].t = "XorMappedAddress"
    BY <1>4, <1>7, <2>1 DEF OneOf
  <2>2. CASE added[i].t = "XorMappedAddressOptional"
    <3>1. Legacy(msg)
      BY <1>1, <2>2 DEF Written
    <3>2. \A j \in 1 .. Len(added) : added[j].t # "XorMappedAddress"
      <4> SUFFICES ASSUME NEW j \in 1 .. Len(added), added[j].t = "XorMappedAddress"
                   PROVE  FALSE
        OBVIOUS
      <4>1. Written(msg, added[j], p[j])
        BY FoundAt
      <4>2. QED
        BY <3>1, <4>1 DEF Written
    <3>3. Lookup(reader, "XorMappedAddress") = 0
      <4>1. /\ Lookup(reader, "XorMappedAddress") \in 0 .. Len(added)
            /\ Lookup(reader, "XorMappedAddress") # 0 =>
                  added[Lookup(reader, "XorMappedAddress")].t = "XorMappedAddress"
        BY LooksUp
      <4>2. QED
        BY <1>6, <3>2, <4>1
    <3>4. GetAddressHelper(reader, wire, "XorMappedAddress") = <<>>
      BY <3>3 DEF GetAddressHelper
    <3>5. QED
      BY <1>7, <2>2, <3>4 DEF OneOf
  <2>3. QED
    BY <2>1, <2>2
<1>9. GetXorMappedAddress(reader, wire) = ApplyStunXorMap(added[i].v, msg.tid)
  BY <1>4, <1>8 DEF GetXorMappedAddress
<1>10. QED
  BY <1>2, <1>4, <1>9, XorTwice

(* The sizes the two fixed-size values come in                             *)
LEMMA FixedSizesRead ==
    ASSUME BuilderInv, NEW p, Found(p),
           \A i \in 1 .. Len(added) : reader.attributes[i].t = added[i].t
    PROVE  /\ GetResponsePort(reader) <=>
                 ~fLegacyMode /\ \E i \in 1 .. Len(added) : added[i].t = "ResponsePort"
           /\ GetChangeRequest(reader) <=> \E i \in 1 .. Len(added) : added[i].t = "ChangeRequest"
<1>1. Len(added) \in Nat
  BY SeqFacts DEF BuilderInv, Composed
<1>2. ASSUME NEW t
      PROVE  /\ Lookup(reader, t) \in 0 .. Len(added)
             /\ Lookup(reader, t) # 0 <=> \E i \in 1 .. Len(added) : added[i].t = t
             /\ Lookup(reader, t) # 0 =>
                   /\ Lookup(reader, t) \in 1 .. Len(added)
                   /\ added[Lookup(reader, t)].t = t
                   /\ reader.attributes[Lookup(reader, t)].n = added[Lookup(reader, t)].n
                   /\ Written(msg, added[Lookup(reader, t)], p[Lookup(reader, t)])
  <2> DEFINE l == Lookup(reader, t)
  <2>1. /\ l \in 0 .. Len(added)
        /\ l = 0 => \A i \in 1 .. Len(added) : added[i].t # t
        /\ l # 0 => added[l].t = t
    BY LooksUp
  <2> HIDE DEF l
  <2>2. l # 0 => l \in 1 .. Len(added)
    BY <1>1, <2>1
  <2>3. l # 0 => reader.attributes[l].n = added[l].n /\ Written(msg, added[l], p[l])
    BY <2>2, FoundAt
  <2>4. l # 0 <=> \E i \in 1 .. Len(added) : added[i].t = t
    BY <2>1, <2>2
  <2>5. QED
    BY <2>1, <2>2, <2>3, <2>4 DEF l
<1>3. GetResponsePort(reader) <=>
         ~fLegacyMode /\ \E i \in 1 .. Len(added) : added[i].t = "ResponsePort"
  <2> DEFINE l == Lookup(reader, "ResponsePort")
  <2>1. l # 0 => (reader.attributes[l].n = 2 <=> ~fLegacyMode)
    BY <1>2 DEF Written, Legacy, fLegacyMode
  <2>2. l # 0 <=> \E i \in 1 .. Len(added) : added[i].t = "ResponsePort"
    BY <1>2
  <2>3. GetResponsePort(reader) <=> l # 0 /\ reader.attributes[l].n = 2
    BY DEF GetResponsePort
  <2> HIDE DEF l
  <2>4. QED
    BY <2>1, <2>2, <2>3
<1>4. GetChangeRequest(reader) <=> \E i \in 1 .. Len(added) : added[i].t = "ChangeRequest"
  <2> DEFINE l == Lookup(reader, "ChangeRequest")
  <2>1. l # 0 => reader.attributes[l].n = 4
    BY <1>2 DEF Written
  <2>2. l # 0 <=> \E i \in 1 .. Len(added) : added[i].t = "ChangeRequest"
    BY <1>2
  <2>3. GetChangeRequest(reader) <=> l # 0 /\ reader.attributes[l].n = 4
    BY DEF GetChangeRequest
  <2> HIDE DEF l
  <2>4. QED
    BY <2>1, <2>2, <2>3
<1>5. QED
  BY <1>3, <1>4

(* A message that ends off the boundary is refused                         *)
LEMMA RaggedIsRefused ==
    ASSUME ExchangeInv, Intact, Ragged, reader.size = wire.size
    PROVE  reader.state = "ParseError"
<1>1. transport # "none" /\ stage = "Built" /\ wire = Sent
  BY DEF Intact
<1>2. BuilderInv /\ IsReader(reader) /\ IsWire(wire) /\ Seen(reader, wire)
  BY DEF ExchangeInv
<1>3. IsSeq(msg.words) /\ Len(msg.words) \in Nat /\ DOMAIN added = 1 .. Len(added)
  BY <1>2, SeqFacts DEF BuilderInv, Composed
<1>4. msg.lacks = 2
  <2>1. HasRagged(msg, added)
    BY <1>3 DEF Ragged, HasRagged, Legacy, fLegacyMode
  <2>2. QED
    BY <1>2, <2>1 DEF BuilderInv, Composed
<1>5. /\ wire.length = 4 * Len(msg.words) - 2
      /\ wire.size = STUN_HEADER_SIZE + wire.length /\ wire.length \in Nat
  BY <1>1, <1>2, <1>4 DEF Sent, BuilderInv, BodySize, IsWire
<1>6. wire.length % 4 # 0
  <2> DEFINE k == Len(msg.words)
  <2>1. k \in Nat /\ wire.length = 4 * k - 2 /\ 4 * k - 2 \in Nat
    BY <1>3, <1>5
  <2> HIDE DEF k
  <2>2. k >= 1
    BY <2>1
  <2>3. 4 * k - 2 = 4 * (k - 1) + 2
    BY <2>1
  <2>4. \A j \in Nat : (4 * j + 2) % 4 = 2
    OBVIOUS
  <2>5. QED
    BY <2>1, <2>2, <2>3, <2>4
<1>7. ~GoodHeader(wire, reader.fAllowLegacyFormat)
  BY <1>6 DEF GoodHeader
<1>8. reader.size \in Nat /\ ~(reader.size < STUN_HEADER_SIZE)
  BY <1>5 DEF STUN_HEADER_SIZE
<1>9. QED
  BY <1>2, <1>7, <1>8 DEF Seen, HeaderSeen

LEMMA ReadsBack ==
    ASSUME ExchangeInv
    PROVE  ReadsBackWhatWasBuilt
<1> SUFFICES ASSUME Intact, Readable, reader.size = wire.size
             PROVE  /\ reader.state = "BodyValidated"
                    /\ reader.class = msg.class /\ reader.tid = msg.tid
                    /\ reader.fMessageIsLegacyFormat = fLegacyMode
                    /\ Len(reader.attributes) = Len(added)
                    /\ \A i \in DOMAIN added :
                          /\ reader.attributes[i].t = added[i].t
                          /\ reader.attributes[i].n = added[i].n
                          /\ ValueOf(reader, wire, i) = added[i].v
                    /\ GetResponsePort(reader) <=>
                          ~fLegacyMode /\ \E i \in DOMAIN added : added[i].t = "ResponsePort"
                    /\ GetChangeRequest(reader) <=>
                          \E i \in DOMAIN added : added[i].t = "ChangeRequest"
                    /\ \A i \in DOMAIN added :
                          /\ added[i].t \in {"XorMappedAddress", "XorMappedAddressOptional"}
                          /\ \A j \in DOMAIN added : j > i => added[j].t # added[i].t
                          => GetXorMappedAddress(reader, wire) = PlainAddress(added[i].v[2])
  BY RaggedIsRefused DEF ReadsBackWhatWasBuilt
<1>1. BuilderInv /\ DOMAIN added = 1 .. Len(added)
  BY SeqFacts DEF ExchangeInv, BuilderInv, Composed
<1>2. reader.state = "BodyValidated" /\ wire.tid = msg.tid /\ wire.class = msg.class
  BY ReadableIsRead
<1>3. PICK p : Found(p) /\ \A i \in 1 .. Len(added) : /\ reader.attributes[i].t = added[i].t
                                                      /\ ValueOf(reader, wire, i) = added[i].v
  BY ReadableIsRead
<1>4. /\ reader.class = msg.class /\ reader.tid = msg.tid
      /\ reader.fMessageIsLegacyFormat = fLegacyMode
  <2>1. HeaderSeen(reader, wire)
    BY <1>3 DEF Found
  <2>2. reader.class = msg.class /\ reader.tid = msg.tid
    BY <1>2, <2>1 DEF HeaderSeen
  <2>3. reader.fMessageIsLegacyFormat = (msg.tid.first # STUN_COOKIE)
    BY <1>2, <2>1, Zenon DEF HeaderSeen
  <2>4. QED
    BY <2>2, <2>3, Zenon DEF fLegacyMode
<1>5. Len(reader.attributes) = Len(added)
  BY <1>3 DEF Found
<1>6. \A i \in 1 .. Len(added) : reader.attributes[i].n = added[i].n
  BY <1>3, FoundAt
<1>7. /\ GetResponsePort(reader) <=>
            ~fLegacyMode /\ \E i \in 1 .. Len(added) : added[i].t = "ResponsePort"
      /\ GetChangeRequest(reader) <=> \E i \in 1 .. Len(added) : added[i].t = "ChangeRequest"
  BY <1>1, <1>3, FixedSizesRead
<1>8. \A i \in 1 .. Len(added) :
         /\ added[i].t \in {"XorMappedAddress", "XorMappedAddressOptional"}
         /\ \A j \in 1 .. Len(added) : j > i => added[j].t # added[i].t
         => GetXorMappedAddress(reader, wire) = PlainAddress(added[i].v[2])
  BY <1>1, <1>3, <1>4, XorReadsBack
<1>9. QED
  BY <1>1, <1>2, <1>3, <1>4, <1>5, <1>6, <1>7, <1>8

(* Every message the builder can write, of any length and with any         *)
(* attributes, that is within the limits comes out of the reader as it     *)
(* went in, unless it has a list of unknown attributes the builder did not *)
(* fill up, and then it is refused (CStunMessageBuilder,                   *)
(* CStunMessageReader::ReadHeader, ReadBody)                               *)
THEOREM BuiltIsReadBack == ExchangeSpec => []ReadsBackWhatWasBuilt
BY ReadsBack, ExchangeAlways, PTL


-----------------------------------------------------------------------------
(* What the reader hashes is what the builder hashed, with the length of   *)
(* the header as it was then                                               *)
LEMMA HashesTheSame ==
    ASSUME Near(wire), wire.words = msg.words, wire.tid = msg.tid, wire.class = msg.class,
           NEW at, NEW signed, signed = 4 * (at - 1) + 24
    PROVE  Covered([wire EXCEPT !.length = signed], SubSeq(wire.words, 1, at - 1))
              = CoveredTo(msg, at, 24)
<1> DEFINE e == [wire EXCEPT !.length = signed]
<1>1. e.class = wire.class /\ e.tid = wire.tid /\ e.length = signed
  BY DEF Near
<1> HIDE DEF e
<1>2. QED
  BY <1>1 DEF Covered, CoveredTo, e

(* The length worked out by the reader of a message signed at i            *)
LEMMA SignedLength ==
    ASSUME BuilderInv, NEW p, Found(p), NEW i \in 1 .. Len(added),
           added[i].t = "MessageIntegrity",
           \/ i = Len(added)
           \/ i = Len(added) - 1 /\ added[Len(added)].t = "Fingerprint",
           reader.indexMessageIntegrity = i
    PROVE  LengthSigned(reader, wire) = 4 * (p[i] - 1) + 24 /\ p[i] + 5 <= Len(msg.words)
<1>1. Len(added) \in Nat /\ Len(msg.words) \in Nat
  BY SeqFacts DEF BuilderInv, Composed
<1>2. Placed(p) /\ wire.length = 4 * Len(msg.words) /\ Len(reader.attributes) = Len(added)
  BY DEF Found
<1>3. added[i].n = 20
  BY <1>2 DEF Placed, Written
<1>4. /\ p[i] \in 1 .. Len(msg.words) /\ p[i + 1] = p[i] + 1 + WordsFor(20)
      /\ p[i + 1] <= Len(msg.words) + 1
  BY <1>2, <1>3, Positions
<1>5. p[i] \in Nat /\ p[i + 1] = p[i] + 6
  <2>0. WordsFor(20) = 5
    BY Lengths
  <2>1. p[i] \in Nat /\ p[i + 1] = p[i] + 1 + 5
    BY <1>1, <1>4, <2>0
  <2> DEFINE a == p[i]
             b == p[i + 1]
  <2>2. a \in Nat /\ b = a + 1 + 5
    BY <2>1
  <2> HIDE DEF a, b
  <2>3. b = a + 6
    BY <2>2
  <2>4. QED
    BY <2>1, <2>3 DEF a, b
<1>6. p[Len(added) + 1] = Len(msg.words) + 1
  BY <1>2 DEF Placed, Layout
<1> DEFINE n  == Len(added)
           pi == p[i]
           z  == Len(msg.words)
<1>7. CASE i = Len(added)
  <2>1. pi + 6 = z + 1 /\ pi \in Nat
    BY <1>4, <1>5, <1>6, <1>7
  <2>2. LengthSigned(reader, wire) = 4 * z
    BY <1>1, <1>2, <1>7 DEF LengthSigned
  <2> HIDE DEF n, pi, z
  <2>3. 4 * z = 4 * (pi - 1) + 24 /\ pi + 5 <= z
    BY <1>1, <2>1 DEF z
  <2>4. QED
    BY <2>2, <2>3 DEF pi, z
<1>8. CASE i = Len(added) - 1 /\ added[Len(added)].t = "Fingerprint"
  <2>1. n \in 1 .. n /\ i + 1 = n
    BY <1>1, <1>8
  <2>2. added[n].n = 4
    BY <1>2, <1>8, <2>1 DEF Placed, Written
  <2>3. p[n + 1] = p[n] + 1 + 1
    <3>1. p[n + 1] = p[n] + 1 + WordsFor(4)
      BY <1>2, <2>1, <2>2, Positions
    <3>2. QED
      BY <3>1, Lengths
  <2>4. pi + 8 = z + 1 /\ pi \in Nat
    <3> DEFINE b == p[n]
    <3>1. b = pi + 6 /\ z + 1 = b + 1 + 1 /\ pi \in Nat
      BY <1>5, <1>6, <2>1, <2>3
    <3> HIDE DEF b, pi, z
    <3>2. QED
      BY <1>1, <3>1 DEF z
  <2>5. LengthSigned(reader, wire) = 4 * z - 8
    BY <1>1, <1>2, <1>8 DEF LengthSigned
  <2> HIDE DEF n, pi, z
  <2>6. 4 * z - 8 = 4 * (pi - 1) + 24 /\ pi + 5 <= z
    <3>1. z = pi + 7 /\ pi \in Nat
      <4>1. z \in Nat
        BY <1>1 DEF z
      <4>2. QED
        BY <2>4, <4>1
    <3>2. \A a \in Nat : 4 * (a + 7) - 8 = 4 * (a - 1) + 24 /\ a + 5 <= a + 7
      OBVIOUS
    <3>3. QED
      BY <3>1, <3>2
  <2>7. QED
    BY <2>5, <2>6 DEF pi, z
<1>9. QED
  BY <1>7, <1>8

LEMMA SignedIsValid ==
    ASSUME ExchangeInv, Intact, Readable, reader.size = wire.size,
           NEW i \in 1 .. Len(added),
           added[i].t = "MessageIntegrity",
           \/ i = Len(added)
           \/ i = Len(added) - 1 /\ added[Len(added)].t = "Fingerprint"
    PROVE  ValidateMessageIntegrity(reader, wire, added[i].v[2])
<1>1. BuilderInv
  BY DEF ExchangeInv
<1>2. Len(added) \in Nat /\ Len(msg.words) \in Nat /\ IsSeq(msg.words) /\ i # 0
  BY <1>1, SeqFacts DEF BuilderInv, Composed
<1>3. /\ reader.state = "BodyValidated"
      /\ Near(wire) /\ wire.words = msg.words /\ wire.tid = msg.tid /\ wire.class = msg.class
  BY ReadableIsRead
<1>4. PICK p : Found(p) /\ \A j \in 1 .. Len(added) : /\ reader.attributes[j].t = added[j].t
                                                      /\ ValueOf(reader, wire, j) = added[j].v
  BY ReadableIsRead
<1>5. Lookup(reader, "MessageIntegrity") = i
  <2>1. ASSUME NEW j \in 1 .. Len(added), j > i
        PROVE  added[j].t # "MessageIntegrity"
    <3>1. j = Len(added) /\ added[Len(added)].t = "Fingerprint"
      BY <1>2, <2>1
    <3>2. QED
      BY <3>1
  <2>2. QED
    BY <1>1, <1>4, <2>1, LooksUp
<1>6. reader.indexMessageIntegrity = i
  BY <1>4, <1>5 DEF Found, Lookup
<1>7. NothingElseFollows(reader)
  <2>1. Len(reader.attributes) = Len(added)
    BY <1>4 DEF Found
  <2>2. CASE i = Len(added)
    BY <1>6, <2>1, <2>2 DEF NothingElseFollows
  <2>3. CASE i = Len(added) - 1 /\ added[Len(added)].t = "Fingerprint"
    <3>1. Len(added) \in 1 .. Len(added) /\ \A j \in 1 .. Len(added) : ~(j > Len(added))
      BY <1>2
    <3>2. Lookup(reader, "Fingerprint") = Len(added)
      BY <1>1, <1>4, <2>3, <3>1, LooksUp
    <3>3. reader.indexFingerprint = Len(added)
      BY <1>4, <3>2 DEF Found, Lookup
    <3>4. QED
      BY <1>6, <2>1, <2>3, <3>3 DEF NothingElseFollows
  <2>4. QED
    BY <2>2, <2>3
<1>8. reader.attributes[i].n = 20 /\ reader.attributes[i].at = p[i] /\ added[i].n = 20
  <2>1. Written(msg, added[i], p[i]) /\ reader.attributes[i].n = added[i].n
    BY <1>4, FoundAt
  <2>2. QED
    BY <1>4, <2>1, FoundAt DEF Written
<1>9. reader.attributes # <<>>
  <2>1. i \in DOMAIN reader.attributes
    BY <1>4 DEF Found
  <2>2. QED
    BY <2>1
<1>10. LengthSigned(reader, wire) = 4 * (p[i] - 1) + 24 /\ p[i] + 5 <= Len(msg.words)
  BY <1>1, <1>4, <1>6, SignedLength
<1> DEFINE key      == added[i].v[2]
           computed == <<"hmac", key, Covered([wire EXCEPT !.length = LengthSigned(reader, wire)],
                                              SubSeq(wire.words, 1, p[i] - 1))>>
<1>11. computed = added[i].v
  <2>1. msg.lacks = 0 /\ Written(msg, added[i], p[i])
    BY <1>4, FoundAt DEF Found
  <2>2. PICK k \in Keys : added[i].v = <<"hmac", k, CoveredTo(msg, p[i], 24)>>
    BY <2>1 DEF Written
  <2>3. Covered([wire EXCEPT !.length = LengthSigned(reader, wire)],
                SubSeq(wire.words, 1, p[i] - 1)) = CoveredTo(msg, p[i], 24)
    BY <1>3, <1>10, HashesTheSame
  <2>4. QED
    BY <2>2, <2>3
<1> HIDE DEF computed
<1>12. SubSeq(wire.words, p[i] + 1, p[i] + HMAC_SIZE \div 4) = Value(computed, HMAC_SIZE \div 4)
  <2>1. \A j \in 1 .. 5 : msg.words[p[i] + j] = Data(IF j = 1 THEN computed ELSE <<"more">>)
    <3>1. Placed(p) /\ WordsFor(added[i].n) = 5
      BY <1>4, <1>8, Lengths DEF Found
    <3>2. \A j \in 1 .. WordsFor(added[i].n) :
             msg.words[p[i] + j] = Data(IF j = 1 THEN added[i].v ELSE <<"more">>)
      BY <3>1 DEF Placed, Layout
    <3>3. QED
      BY <1>11, <3>1, <3>2
  <2>2. p[i] \in Nat
    <3>1. Placed(p)
      BY <1>4 DEF Found
    <3>2. p[i] \in 1 .. Len(msg.words)
      BY <1>1, <3>1, Positions
    <3>3. QED
      BY <1>2, <3>2
  <2> DEFINE a == p[i]
  <2>3. a \in Nat /\ a + 5 <= Len(msg.words)
        /\ \A j \in 1 .. 5 : msg.words[a + j] = Data(IF j = 1 THEN computed ELSE <<"more">>)
    BY <1>10, <2>1, <2>2
  <2> HIDE DEF a
  <2>4. SubSeq(msg.words, a + 1, a + HMAC_SIZE \div 4) = Value(computed, HMAC_SIZE \div 4)
    <3>1. SubSeq(msg.words, a + 1, a + HMAC_SIZE \div 4) = Value(computed, HMAC_SIZE \div 4) <=>
             \A j \in 1 .. 5 : msg.words[a + j] = Data(IF j = 1 THEN computed ELSE <<"more">>)
      <4>1. IsSeq(msg.words) /\ a \in Nat /\ a + 5 <= Len(msg.words)
        BY <1>2, <2>3
      <4> DEFINE words == msg.words
      <4> HIDE DEF words
      <4>2. IsSeq(words) /\ a \in Nat /\ a + 5 <= Len(words)
        BY <4>1 DEF words
      <4>3. SubSeq(words, a + 1, a + HMAC_SIZE \div 4) = Value(computed, HMAC_SIZE \div 4) <=>
               \A j \in 1 .. 5 : words[a + j] = Data(IF j = 1 THEN computed ELSE <<"more">>)
        BY <4>2, ValueWords
      <4>4. QED
        BY <4>3 DEF words
    <3>2. QED
      BY <2>3, <3>1
  <2>5. QED
    BY <1>3, <2>4 DEF a
<1>13. QED
  <2>1. computed = <<"hmac", key, Covered([wire EXCEPT !.length = LengthSigned(reader, wire)],
                                          SubSeq(wire.words, 1, p[i] - 1))>>
    BY DEF computed
  <2> HIDE DEF key
  <2>2. ValidateMessageIntegrity(reader, wire, key)
    BY <1>2, <1>3, <1>5, <1>6, <1>7, <1>8, <1>9, <1>12, <2>1
       DEF ValidateMessageIntegrity, HMAC_SIZE
  <2>3. QED
    BY <2>2 DEF key

(* A message the builder signed last, or last but for a fingerprint, of    *)
(* any length and with any key, verifies with that key: the length that    *)
(* AddMessageIntegrity put into the header before it hashed is the one     *)
(* ValidateMessageIntegrity puts back                                      *)
THEOREM SignedVerify == ExchangeSpec => []SignedMessagesVerify
<1>1. ASSUME ExchangeInv
      PROVE  SignedMessagesVerify
  <2> SUFFICES ASSUME Intact, Readable, reader.size = wire.size,
                      NEW i \in {Len(added) - 1, Len(added)} \cap DOMAIN added,
                      added[i].t = "MessageIntegrity",
                      i = Len(added) \/ added[Len(added)].t = "Fingerprint"
               PROVE  ValidateMessageIntegrity(reader, wire, added[i].v[2])
    BY DEF SignedMessagesVerify
  <2>1. DOMAIN added = 1 .. Len(added)
    BY <1>1, SeqFacts DEF ExchangeInv, BuilderInv, Composed
  <2>2. i \in 1 .. Len(added)
    BY <2>1
  <2>3. \/ i = Len(added)
        \/ i = Len(added) - 1 /\ added[Len(added)].t = "Fingerprint"
    OBVIOUS
  <2>4. QED
    BY <1>1, <2>2, <2>3, SignedIsValid
<1>2. QED
  BY <1>1, ExchangeAlways, PTL
=============================================================================
