-------------------------- MODULE DataStream_proofs --------------------------
(***************************************************************************)
(* What CDataStream guarantees for every set of bytes, strings, sizes and  *)
(* buffers: it stays inside its buffers, hands out only bytes that were    *)
(* written, keeps the caller's buffer while it is large enough, and is a   *)
(* sequence of bytes with a position, as ByteStream says.                  *)
(***************************************************************************)
EXTENDS DataStream, TLAPS, SequenceTheorems

(* The inductive invariant is the three invariants of the runs together:   *)
(* the bytes stay in bounds because the buffers are well formed, and the   *)
(* buffer the stream grows away from is the caller's only if it was lent.  *)
StreamInv == StreamTypeOK /\ OnlyWrittenBytes /\ CallersBufferCurrent

(* What is assumed of the constants                                        *)
LEMMA Constants ==
    ASSUME StreamAssumption
    PROVE  /\ Junk \notin Byte
           /\ NULL \notin Objects
           /\ MaxAllocation \in Nat
           /\ SizeModulus \in Nat \ {0}
           /\ \A n \in Sizes : n \in Nat \ {0}
           /\ \A d \in Strings : d \in Seq(Byte)
           /\ \A o \in Offsets : o \in Int
           /\ \A p \in Pokes : p[1] \in Nat \ {0} /\ p[2] \in Byte
<1>1. /\ Junk \notin Byte
      /\ NULL \notin Objects
      /\ MaxAllocation \in Nat
      /\ SizeModulus \in Nat \ {0}
  BY DEF StreamAssumption
<1>2. /\ \A n \in Sizes : n \in Nat \ {0}
      /\ \A d \in Strings : d \in Seq(Byte)
      /\ \A o \in Offsets : o \in Int
  BY DEF StreamAssumption
<1>3. \A p \in Pokes : p[1] \in Nat \ {0} /\ p[2] \in Byte
  BY DEF StreamAssumption
<1>4. QED
  BY <1>1, <1>2, <1>3

-----------------------------------------------------------------------------
(* Buffers                                                                 *)

(* What it means to be a buffer, without the union                         *)
LEMMA BufferMembers ==
    ASSUME NEW b
    PROVE  b \in Buffer <=>
              /\ b = [allocated |-> b.allocated, size |-> b.size, data |-> b.data]
              /\ b.allocated \in 0 .. MaxAllocation
              /\ b.size \in 0 .. b.allocated
              /\ b.data \in [1 .. b.allocated -> Byte \cup {Junk}]
<1>1. ASSUME b \in Buffer
      PROVE  /\ b = [allocated |-> b.allocated, size |-> b.size, data |-> b.data]
             /\ b.allocated \in 0 .. MaxAllocation
             /\ b.size \in 0 .. b.allocated
             /\ b.data \in [1 .. b.allocated -> Byte \cup {Junk}]
  <2>1. PICK n \in 0 .. MaxAllocation : b \in BufferOf(n)
    BY <1>1 DEF Buffer
  <2>2. b.allocated = n
    BY <2>1 DEF BufferOf
  <2>3. QED
    BY <2>1, <2>2 DEF BufferOf
<1>2. ASSUME b = [allocated |-> b.allocated, size |-> b.size, data |-> b.data],
             b.allocated \in 0 .. MaxAllocation,
             b.size \in 0 .. b.allocated,
             b.data \in [1 .. b.allocated -> Byte \cup {Junk}]
      PROVE  b \in Buffer
  <2>1. b \in BufferOf(b.allocated)
    BY <1>2 DEF BufferOf
  <2>2. QED
    BY <1>2, <2>1 DEF Buffer
<1>3. QED
  BY <1>1, <1>2

(* A new buffer of n bytes                                                 *)
LEMMA NewBufferOK ==
    ASSUME NEW n \in 0 .. MaxAllocation
    PROVE  NewBuffer(n) \in Buffer
BY BufferMembers DEF NewBuffer

(* memcpy inside a buffer changes nothing but the bytes at its target      *)
LEMMA CopiedOK ==
    ASSUME NEW b \in Buffer, NEW p \in Nat, NEW d \in Seq(Byte), StreamAssumption
    PROVE  /\ Copied(b, p, d) \in Buffer
           /\ Copied(b, p, d).size = b.size
           /\ Copied(b, p, d).allocated = b.allocated
           /\ \A i \in 1 .. b.allocated :
                 Copied(b, p, d).data[i] =
                    IF p < i /\ i <= p + Len(d) THEN d[i - p] ELSE b.data[i]
<1>1. /\ b = [allocated |-> b.allocated, size |-> b.size, data |-> b.data]
      /\ b.allocated \in 0 .. MaxAllocation
      /\ b.size \in 0 .. b.allocated
      /\ b.data \in [1 .. b.allocated -> Byte \cup {Junk}]
  BY BufferMembers
<1> DEFINE c == Copied(b, p, d)
           f == [i \in 1 .. b.allocated |->
                    IF p < i /\ i <= p + Len(d) THEN d[i - p] ELSE b.data[i]]
<1>2. c = [allocated |-> b.allocated, size |-> b.size, data |-> f]
  <2>1. DOMAIN b.data = 1 .. b.allocated
    BY <1>1
  <2>2. c = [b EXCEPT !.data = f]
    BY <2>1 DEF Copied
  <2>3. QED
    BY <1>1, <2>2
<1>3. \A i \in 1 .. b.allocated : p < i /\ i <= p + Len(d) => d[i - p] \in Byte
  BY <1>1
<1>4. f \in [1 .. b.allocated -> Byte \cup {Junk}]
  BY <1>1, <1>3
<1>5. c \in Buffer
  BY <1>1, <1>2, <1>4, BufferMembers
<1>6. QED
  BY <1>2, <1>5

(* SetSize within what is allocated                                        *)
LEMMA SetSizeOK ==
    ASSUME NEW b \in Buffer, NEW n \in 0 .. b.allocated
    PROVE  /\ SetSize(b, n) \in Buffer
           /\ SetSize(b, n).size = n
           /\ SetSize(b, n).allocated = b.allocated
           /\ SetSize(b, n).data = b.data
<1>1. /\ b = [allocated |-> b.allocated, size |-> b.size, data |-> b.data]
      /\ b.allocated \in 0 .. MaxAllocation
      /\ b.data \in [1 .. b.allocated -> Byte \cup {Junk}]
  BY BufferMembers
<1>2. SetSize(b, n) = [allocated |-> b.allocated, size |-> n, data |-> b.data]
  BY <1>1 DEF SetSize
<1>3. QED
  BY <1>1, <1>2, BufferMembers

(* A write into a buffer that has room for it                              *)
LEMMA StoredOK ==
    ASSUME NEW b \in Buffer, NEW d \in Seq(Byte), StreamAssumption,
           pos \in 0 .. b.size, pos + Len(d) <= b.allocated
    PROVE  /\ Stored(b, d) \in Buffer
           /\ Stored(b, d).allocated = b.allocated
           /\ Stored(b, d).size = IF pos + Len(d) > b.size THEN pos + Len(d) ELSE b.size
           /\ \A i \in 1 .. b.allocated :
                 Stored(b, d).data[i] =
                    IF pos < i /\ i <= pos + Len(d) THEN d[i - pos] ELSE b.data[i]
           /\ Filled(b) => Filled(Stored(b, d))
<1> DEFINE c == Copied(b, pos, d)
<1>1. b.size \in Nat /\ b.allocated \in Nat /\ b.size <= b.allocated /\ pos \in Nat
  BY BufferMembers, Constants
<1>2. Len(d) \in Nat /\ \A i \in 1 .. Len(d) : d[i] \in Byte
  OBVIOUS
<1>3. /\ c \in Buffer
      /\ c.size = b.size
      /\ c.allocated = b.allocated
      /\ \A i \in 1 .. b.allocated :
            c.data[i] = IF pos < i /\ i <= pos + Len(d) THEN d[i - pos] ELSE b.data[i]
  BY <1>1, CopiedOK
<1> HIDE DEF c
<1>4. ASSUME pos + Len(d) > b.size
      PROVE  /\ Stored(b, d) \in Buffer
             /\ Stored(b, d).allocated = b.allocated
             /\ Stored(b, d).size = pos + Len(d)
             /\ Stored(b, d).data = c.data
  <2>1. Stored(b, d) = SetSize(c, pos + Len(d))
    BY <1>4 DEF Stored, c
  <2>2. pos + Len(d) \in 0 .. c.allocated
    BY <1>1, <1>2, <1>3
  <2>3. QED
    BY <1>3, <2>1, <2>2, SetSizeOK
<1>5. ASSUME ~(pos + Len(d) > b.size)
      PROVE  Stored(b, d) = c
  BY <1>5 DEF Stored, c
<1>6. /\ Stored(b, d) \in Buffer
      /\ Stored(b, d).allocated = b.allocated
      /\ Stored(b, d).size = IF pos + Len(d) > b.size THEN pos + Len(d) ELSE b.size
      /\ Stored(b, d).data = c.data
  BY <1>3, <1>4, <1>5
<1>7. ASSUME Filled(b), NEW i \in 1 .. Stored(b, d).size
      PROVE  Stored(b, d).data[i] # Junk
  <2>1. i \in 1 .. b.allocated
    BY <1>1, <1>2, <1>6
  <2>2. CASE pos < i /\ i <= pos + Len(d)
    <3>1. i - pos \in 1 .. Len(d)
      BY <1>1, <1>2, <2>1, <2>2
    <3>2. c.data[i] = d[i - pos] /\ d[i - pos] \in Byte
      BY <1>2, <1>3, <2>1, <2>2, <3>1
    <3>3. QED
      BY <1>6, <3>2, Constants
  <2>3. CASE ~(pos < i /\ i <= pos + Len(d))
    <3>1. i \in 1 .. b.size
      BY <1>1, <1>2, <1>6, <1>7, <2>1, <2>3
    <3>2. c.data[i] = b.data[i]
      BY <1>3, <2>1, <2>3
    <3>3. QED
      BY <1>6, <1>7, <3>1, <3>2 DEF Filled
  <2>4. QED
    BY <2>2, <2>3
<1>8. QED
  BY <1>3, <1>6, <1>7 DEF Filled

-----------------------------------------------------------------------------
(* The stream's own buffer                                                 *)

(* Its sizes, whether or not there is one                                  *)
LEMMA SizesOK ==
    ASSUME StreamTypeOK, StreamAssumption
    PROVE  /\ GetAllocatedSize \in 0 .. MaxAllocation
           /\ GetSize \in 0 .. GetAllocatedSize
           /\ pos \in 0 .. GetSize
           /\ spBuffer # NULL =>
                 /\ spBuffer \in Objects
                 /\ heap[spBuffer] \in Buffer
                 /\ GetAllocatedSize = heap[spBuffer].allocated
                 /\ GetSize = heap[spBuffer].size
<1>1. CASE spBuffer = NULL
  BY <1>1, Constants DEF GetAllocatedSize, GetSize, StreamTypeOK
<1>2. CASE spBuffer # NULL
  <2>1. spBuffer \in Objects /\ heap[spBuffer] \in Buffer
    BY <1>2 DEF StreamTypeOK
  <2>2. /\ heap[spBuffer].allocated \in 0 .. MaxAllocation
        /\ heap[spBuffer].size \in 0 .. heap[spBuffer].allocated
    BY <2>1, BufferMembers
  <2>3. QED
    BY <1>2, <2>1, <2>2 DEF GetAllocatedSize, GetSize, StreamTypeOK
<1>3. QED
  BY <1>1, <1>2

(* When there is one                                                       *)
LEMMA OwnBuffer ==
    ASSUME StreamTypeOK, StreamAssumption, spBuffer # NULL
    PROVE  /\ heap[spBuffer] \in Buffer
           /\ GetAllocatedSize = heap[spBuffer].allocated
           /\ GetAllocatedSize \in Nat
<1>1. MaxAllocation \in Nat
  BY Constants
<1>2. GetAllocatedSize \in 0 .. MaxAllocation
  BY SizesOK
<1>3. GetAllocatedSize \in Nat
  BY <1>1, <1>2
<1>4. heap[spBuffer] \in Buffer /\ GetAllocatedSize = heap[spBuffer].allocated
  BY SizesOK
<1>5. QED
  BY <1>3, <1>4

(* The buffer with room for n bytes holds the bytes the old one held       *)
LEMMA RoomyOK ==
    ASSUME StreamTypeOK, OnlyWrittenBytes, StreamAssumption, NEW n \in Nat,
           NewAllocation(n) <= MaxAllocation \/ Enough(n),
           spBuffer # NULL \/ ~Enough(n)
    PROVE  /\ Roomy(n) \in Buffer
           /\ Roomy(n).size = GetSize
           /\ n <= Roomy(n).allocated
           /\ Roomy(n).allocated \in Nat
           /\ \A i \in 1 .. GetSize : Roomy(n).data[i] = heap[spBuffer].data[i]
           /\ Filled(Roomy(n))
<1>1. /\ GetAllocatedSize \in 0 .. MaxAllocation
      /\ GetSize \in 0 .. GetAllocatedSize
      /\ spBuffer # NULL =>
            /\ spBuffer \in Objects
            /\ heap[spBuffer] \in Buffer
            /\ GetAllocatedSize = heap[spBuffer].allocated
            /\ GetSize = heap[spBuffer].size
  BY SizesOK
<1>2. MaxAllocation \in Nat
  BY Constants
<1>3. ASSUME Enough(n)
      PROVE  /\ spBuffer # NULL /\ Roomy(n) = heap[spBuffer]
             /\ n <= Roomy(n).allocated /\ Roomy(n).allocated \in Nat
             /\ Filled(Roomy(n))
  <2>1. spBuffer # NULL /\ Roomy(n) = heap[spBuffer]
    BY <1>3 DEF Roomy
  <2>2. Filled(Roomy(n))
    BY <2>1 DEF OnlyWrittenBytes
  <2>3. GetAllocatedSize \in Nat /\ n <= GetAllocatedSize
    BY <1>1, <1>2, <1>3 DEF Enough
  <2>4. Roomy(n).allocated = GetAllocatedSize
    BY <1>1, <2>1
  <2>5. QED
    BY <2>1, <2>2, <2>3, <2>4
<1>4. ASSUME ~Enough(n)
      PROVE  /\ Roomy(n) \in Buffer
             /\ Roomy(n).size = GetSize
             /\ n <= Roomy(n).allocated
             /\ Roomy(n).allocated \in Nat
             /\ \A i \in 1 .. GetSize : Roomy(n).data[i] = heap[spBuffer].data[i]
             /\ Filled(Roomy(n))
  <2> DEFINE m == NewAllocation(n)
             f == [i \in 1 .. m |-> IF i <= GetSize THEN heap[spBuffer].data[i] ELSE Junk]
  <2>1. m \in 0 .. MaxAllocation /\ n <= m /\ GetSize \in 0 .. m
    BY <1>1, <1>2, <1>4 DEF NewAllocation, Enough
  <2> HIDE DEF m
  <2>2. Roomy(n) = [allocated |-> m, size |-> GetSize, data |-> f]
    BY <1>4 DEF Roomy, Larger, NewBuffer, m
  <2>3. \A i \in 1 .. GetSize : spBuffer # NULL /\ i \in 1 .. heap[spBuffer].allocated
    <3>1. ASSUME NEW i \in 1 .. GetSize
          PROVE  spBuffer # NULL
      BY DEF GetSize
    <3>2. ASSUME NEW i \in 1 .. GetSize
          PROVE  i \in 1 .. GetAllocatedSize
      BY <1>1, <1>2
    <3>3. QED
      BY <1>1, <3>1, <3>2
  <2>4. \A i \in 1 .. GetSize : heap[spBuffer].data[i] \in Byte \cup {Junk}
    BY <1>1, <2>3, BufferMembers
  <2>5. f \in [1 .. m -> Byte \cup {Junk}]
    BY <1>1, <2>1, <2>4
  <2>6. \A i \in 1 .. GetSize : f[i] = heap[spBuffer].data[i]
    BY <1>1, <2>1
  <2>7. Roomy(n) \in Buffer
    BY <2>1, <2>2, <2>5, BufferMembers
  <2>8. \A i \in 1 .. GetSize : heap[spBuffer].data[i] # Junk
    BY <1>1, <2>3 DEF OnlyWrittenBytes, Filled
  <2>9. QED
    BY <1>1, <2>1, <2>2, <2>6, <2>7, <2>8 DEF Filled
<1>5. QED
  BY <1>1, <1>3, <1>4

(* Growing keeps the heap in order, leaves `buffer' with the stream, and   *)
(* leaves the caller's buffer exactly when it is too small                 *)
LEMMA GrownOK ==
    ASSUME StreamInv, StreamAssumption, NEW n \in Nat, NEW buffer, Grown(n, buffer),
           (spBuffer # NULL \/ ~Enough(n)) => buffer \in Buffer
    PROVE  /\ heap' \in [Objects -> Buffer]
           /\ spBuffer' \in Objects \cup {NULL}
           /\ spBuffer' = NULL <=> ~(spBuffer # NULL \/ ~Enough(n))
           /\ spBuffer' # NULL => heap'[spBuffer'] = buffer
           /\ lent' \in {"no", "fits", "outgrown"}
           /\ lent' # "no" => (spBuffer' = spCaller <=> lent' = "fits") /\ spCaller # NULL
<1>1. /\ heap \in [Objects -> Buffer]
      /\ spCaller \in Objects \cup {NULL} /\ spBuffer \in Objects \cup {NULL}
      /\ lent \in {"no", "fits", "outgrown"}
      /\ lent # "no" => (spBuffer = spCaller <=> lent = "fits") /\ spCaller # NULL
      /\ NULL \notin Objects
  BY Constants DEF StreamInv, StreamTypeOK, CallersBufferCurrent
<1>2. /\ \/ Enough(n) /\ spBuffer' = spBuffer
         \/ ~Enough(n) /\ spBuffer' \in Objects \ {spBuffer, spCaller}
      /\ heap' = IF spBuffer' = NULL THEN heap ELSE Held(NULL, spCaller, spBuffer', buffer)
      /\ lent' = IF lent = "fits" /\ n > heap[spCaller].allocated THEN "outgrown" ELSE lent
  BY DEF Grown
<1>3. /\ spBuffer' \in Objects \cup {NULL}
      /\ spBuffer' = NULL <=> ~(spBuffer # NULL \/ ~Enough(n))
  BY <1>1, <1>2
<1>4. ASSUME spBuffer' # NULL
      PROVE  heap' \in [Objects -> Buffer] /\ heap'[spBuffer'] = buffer
  <2>1. 0 \in 0 .. MaxAllocation
    BY Constants
  <2>2. Freed \in Buffer
    BY <2>1, NewBufferOK DEF Freed
  <2>3. buffer \in Buffer
    BY <1>3, <1>4
  <2>4. heap' = [x \in Objects |-> IF x = spBuffer' THEN buffer
                                  ELSE IF x \in {NULL, spCaller} THEN heap[x] ELSE Freed]
    BY <1>2, <1>4 DEF Held
  <2>5. QED
    BY <1>1, <1>3, <1>4, <2>2, <2>3, <2>4
<1>5. lent = "fits" => (Enough(n) <=> ~(n > heap[spCaller].allocated))
  <2>1. ASSUME lent = "fits"
        PROVE  GetAllocatedSize = heap[spCaller].allocated /\ GetAllocatedSize \in Nat
    <3>1. spBuffer # NULL
      BY <1>1, <2>1
    <3>2. StreamTypeOK
      BY DEF StreamInv
    <3>3. GetAllocatedSize = heap[spBuffer].allocated /\ GetAllocatedSize \in Nat
      BY <3>1, <3>2, OwnBuffer
    <3>4. QED
      BY <1>1, <2>1, <3>1, <3>3
  <2>2. QED
    BY <2>1 DEF Enough
<1>6. /\ lent' \in {"no", "fits", "outgrown"}
      /\ lent' # "no" => (spBuffer' = spCaller <=> lent' = "fits") /\ spCaller # NULL
  <2>1. CASE lent = "no"
    BY <1>2, <2>1
  <2>2. CASE lent = "fits"
    BY <1>1, <1>2, <1>5, <2>2
  <2>3. CASE lent = "outgrown"
    BY <1>1, <1>2, <2>3
  <2>4. QED
    BY <1>1, <2>1, <2>2, <2>3
<1>7. QED
  BY <1>1, <1>2, <1>3, <1>4, <1>6

-----------------------------------------------------------------------------
(* The invariant                                                           *)

LEMMA StreamInitInv == StreamAssumption /\ DataStreamInit => StreamInv
<1> SUFFICES ASSUME StreamAssumption, DataStreamInit
             PROVE  StreamInv
  OBVIOUS
<1>1. 0 \in 0 .. MaxAllocation
  BY Constants
<1>2. Freed \in Buffer
  BY <1>1, NewBufferOK DEF Freed
<1>3. StreamTypeOK
  <2>1. heap \in [Objects -> Buffer]
    BY <1>2 DEF DataStreamInit
  <2>2. pos \in 0 .. GetSize
    BY DEF DataStreamInit, GetSize
  <2>3. QED
    BY <2>1, <2>2 DEF DataStreamInit, StreamTypeOK
<1>4. OnlyWrittenBytes /\ CallersBufferCurrent
  BY DEF DataStreamInit, OnlyWrittenBytes, CallersBufferCurrent
<1>5. QED
  BY <1>3, <1>4 DEF StreamInv

(* The parts of the invariant, one by one                                  *)
LEMMA Parts ==
    ASSUME StreamInv, StreamAssumption
    PROVE  /\ heap \in [Objects -> Buffer]
           /\ spCaller \in Objects \cup {NULL} /\ spBuffer \in Objects \cup {NULL}
           /\ pos \in 0 .. GetSize
           /\ fNoGrow \in BOOLEAN
           /\ lent \in {"no", "fits", "outgrown"}
           /\ spBuffer # NULL => Filled(heap[spBuffer])
           /\ lent # "no" => (spBuffer = spCaller <=> lent = "fits") /\ spCaller # NULL
           /\ NULL \notin Objects
           /\ Freed \in Buffer
<1>1. 0 \in 0 .. MaxAllocation
  BY Constants
<1>2. Freed \in Buffer
  BY <1>1, NewBufferOK DEF Freed
<1>3. QED
  BY <1>2, Constants DEF StreamInv, StreamTypeOK, OnlyWrittenBytes, CallersBufferCurrent

(* A step that reads no bytes keeps the invariant when the heap, the       *)
(* pointers and the position stay in order                                 *)
LEMMA Restored ==
    ASSUME heap' \in [Objects -> Buffer],
           spCaller' \in Objects \cup {NULL}, spBuffer' \in Objects \cup {NULL},
           pos' \in 0 .. GetSize',
           fNoGrow' \in BOOLEAN, lent' \in {"no", "fits", "outgrown"},
           spBuffer' # NULL => Filled(heap'[spBuffer']),
           bytesRead' = <<>>,
           lent' # "no" => (spBuffer' = spCaller' <=> lent' = "fits") /\ spCaller' # NULL
    PROVE  StreamInv'
<1>1. StreamTypeOK'
  BY DEF StreamTypeOK
<1>2. OnlyWrittenBytes'
  BY DEF OnlyWrittenBytes, Filled
<1>3. CallersBufferCurrent'
  BY DEF CallersBufferCurrent
<1>4. QED
  BY <1>1, <1>2, <1>3 DEF StreamInv

(* The caller's steps                                                      *)
LEMMA CallerStep ==
    ASSUME StreamInv, StreamAssumption,
           \/ \E n \in Sizes : CallerAllocates(n)
           \/ \E d \in Strings : CallerReceives(d)
           \/ \E p \in Pokes : CallerPokes(p[1], p[2])
           \/ GetBuffer
    PROVE  StreamInv'
<1> USE Parts
<1>1. ASSUME NEW n \in Sizes, CallerAllocates(n)
      PROVE  StreamInv'
  <2>1. PICK o \in Objects \ {spBuffer, spCaller} :
           heap' = Held(spBuffer, o, o, NewBuffer(n)) /\ spCaller' = o
    BY <1>1 DEF CallerAllocates
  <2>2. /\ n \in 0 .. MaxAllocation
        /\ lent' = "no" /\ bytesRead' = <<>>
        /\ spBuffer' = spBuffer /\ pos' = pos /\ fNoGrow' = fNoGrow
    BY <1>1, Constants DEF CallerAllocates, NothingAsked
  <2>3. NewBuffer(n) \in Buffer
    BY <2>2, NewBufferOK
  <2>4. heap' \in [Objects -> Buffer] /\ (spBuffer # NULL => heap'[spBuffer] = heap[spBuffer])
    BY <2>1, <2>3 DEF Held
  <2>5. pos' \in 0 .. GetSize'
    BY <2>2, <2>4 DEF GetSize
  <2>6. spBuffer' # NULL => Filled(heap'[spBuffer'])
    BY <2>2, <2>4
  <2>7. QED
    BY <2>1, <2>2, <2>4, <2>5, <2>6, Restored
<1>2. ASSUME NEW d \in Strings, CallerReceives(d)
      PROVE  StreamInv'
  <2>1. /\ spCaller # NULL /\ spCaller # spBuffer
        /\ Len(d) <= heap[spCaller].allocated
        /\ heap' = [heap EXCEPT ![spCaller] = SetSize(Copied(@, 0, d), Len(d))]
        /\ lent' = "no" /\ bytesRead' = <<>>
        /\ spCaller' = spCaller /\ spBuffer' = spBuffer /\ pos' = pos /\ fNoGrow' = fNoGrow
    BY <1>2 DEF CallerReceives, NothingAsked
  <2>2. d \in Seq(Byte) /\ Len(d) \in Nat
    BY Constants
  <2> DEFINE b == heap[spCaller]
  <2>3. b \in Buffer
    BY <2>1
  <2> HIDE DEF b
  <2>4. Copied(b, 0, d) \in Buffer /\ Len(d) \in 0 .. Copied(b, 0, d).allocated
    <3>1. Copied(b, 0, d) \in Buffer /\ Copied(b, 0, d).allocated = b.allocated
      BY <2>2, <2>3, CopiedOK, 0 \in Nat
    <3>2. b.allocated \in Nat
      BY <2>3, BufferMembers, Constants
    <3>3. QED
      BY <2>1, <2>2, <3>1, <3>2 DEF b
  <2>5. SetSize(Copied(b, 0, d), Len(d)) \in Buffer
    BY <2>4, SetSizeOK
  <2>6. heap' \in [Objects -> Buffer] /\ (spBuffer # NULL => heap'[spBuffer] = heap[spBuffer])
    BY <2>1, <2>5 DEF b
  <2>7. pos' \in 0 .. GetSize'
    BY <2>1, <2>6 DEF GetSize
  <2>8. spBuffer' # NULL => Filled(heap'[spBuffer'])
    BY <2>1, <2>6
  <2>9. QED
    BY <2>1, <2>6, <2>7, <2>8, Restored
<1>3. ASSUME NEW p \in Pokes, CallerPokes(p[1], p[2])
      PROVE  StreamInv'
  <2> DEFINE b == heap[spBuffer]
             k == p[1] - 1
             d == <<p[2]>>
             c == Copied(b, k, d)
  <2>1. /\ spBuffer # NULL /\ spCaller = spBuffer
        /\ p[1] \in 1 .. b.size
        /\ heap' = [heap EXCEPT ![spBuffer] = c]
        /\ lent' = lent /\ bytesRead' = <<>>
        /\ spCaller' = spCaller /\ spBuffer' = spBuffer /\ pos' = pos /\ fNoGrow' = fNoGrow
    BY <1>3 DEF CallerPokes, NothingAsked
  <2>2. p[1] - 1 \in Nat /\ p[1] \in Nat /\ p[2] \in Byte /\ p[2] # Junk
    <3>1. p[1] \in Nat \ {0} /\ p[2] \in Byte
      BY Constants
    <3>2. p[2] # Junk
      BY <3>1, Constants
    <3>3. QED
      BY <3>1, <3>2
  <2>3. b \in Buffer /\ b.size \in 0 .. b.allocated /\ b.allocated \in Nat
    BY <2>1, BufferMembers, Constants
  <2>4. /\ c \in Buffer
        /\ c.size = b.size
        /\ \A i \in 1 .. b.allocated :
              c.data[i] = IF k < i /\ i <= k + Len(d) THEN d[i - k] ELSE b.data[i]
    <3>1. k \in Nat /\ d \in Seq(Byte)
      BY <2>2
    <3> HIDE DEF k, d, b
    <3>2. QED
      BY <2>3, <3>1, CopiedOK
  <2> HIDE DEF c
  <2>5. \A i \in 1 .. b.size : c.data[i] = IF i = p[1] THEN p[2] ELSE b.data[i]
    <3>1. Len(d) = 1 /\ d[1] = p[2]
      OBVIOUS
    <3>2. TAKE i \in 1 .. b.size
    <3>3. i \in 1 .. b.allocated /\ i \in Nat
      BY <2>3
    <3>4. c.data[i] = IF k < i /\ i <= k + Len(d) THEN d[i - k] ELSE b.data[i]
      BY <2>4, <3>3
    <3>5. k < i /\ i <= k + 1 <=> i = p[1]
      BY <2>2, <3>3
    <3>6. QED
      BY <2>2, <3>1, <3>4, <3>5
  <2>6. Filled(c)
    BY <2>1, <2>2, <2>4, <2>5 DEF Filled
  <2>7. heap' \in [Objects -> Buffer] /\ heap'[spBuffer] = c
    BY <2>1, <2>4
  <2>8. pos' \in 0 .. GetSize'
    BY <2>1, <2>4, <2>7 DEF GetSize
  <2>9. QED
    BY <2>1, <2>6, <2>7, <2>8, Restored
<1>4. ASSUME GetBuffer
      PROVE  StreamInv'
  <2>1. /\ spCaller' = spBuffer
        /\ heap' = [x \in Objects |-> IF x = spBuffer THEN heap[x] ELSE Freed]
        /\ lent' = IF spBuffer = NULL THEN "no" ELSE "fits"
        /\ spBuffer' = spBuffer /\ pos' = pos /\ fNoGrow' = fNoGrow /\ bytesRead' = <<>>
    BY <1>4 DEF GetBuffer, NothingAsked
  <2>2. heap' \in [Objects -> Buffer] /\ (spBuffer # NULL => heap'[spBuffer] = heap[spBuffer])
    BY <2>1
  <2>3. pos' \in 0 .. GetSize'
    BY <2>1, <2>2 DEF GetSize
  <2>4. QED
    BY <2>1, <2>2, <2>3, Restored
<1>5. QED
  BY <1>1, <1>2, <1>3, <1>4

(* What a write that is not refused leaves: the bytes it wrote and, around *)
(* them, those that were there before, in this buffer or in a larger one   *)
LEMMA WriteOK ==
    ASSUME StreamInv, StreamAssumption, NEW d \in Seq(Byte), d # <<>>,
           Grown(pos + Len(d), Stored(Roomy(pos + Len(d)), d))
    PROVE  /\ heap' \in [Objects -> Buffer]
           /\ spBuffer' \in Objects
           /\ lent' \in {"no", "fits", "outgrown"}
           /\ lent' # "no" => (spBuffer' = spCaller <=> lent' = "fits") /\ spCaller # NULL
           /\ Filled(heap'[spBuffer'])
           /\ heap'[spBuffer'].size = IF pos + Len(d) > GetSize THEN pos + Len(d) ELSE GetSize
           /\ \A i \in 1 .. heap'[spBuffer'].size :
                 heap'[spBuffer'].data[i] =
                    IF pos < i /\ i <= pos + Len(d) THEN d[i - pos] ELSE heap[spBuffer].data[i]
<1> DEFINE n == pos + Len(d)
           b == Roomy(n)
<1>1. /\ GetAllocatedSize \in Nat /\ GetSize \in Nat /\ GetSize <= GetAllocatedSize
      /\ pos \in 0 .. GetSize
  BY SizesOK, Constants DEF StreamInv
<1>2. Len(d) \in Nat \ {0} /\ n \in Nat \ {0}
  BY <1>1
<1>3. spBuffer # NULL \/ ~Enough(n)
  <2>1. ASSUME spBuffer = NULL
        PROVE  ~Enough(n)
    BY <1>2, <2>1 DEF Enough, GetAllocatedSize
  <2>2. QED
    BY <2>1
<1>4. NewAllocation(n) <= MaxAllocation \/ Enough(n)
  BY DEF Grown
<1>5. /\ b \in Buffer /\ b.size = GetSize /\ n <= b.allocated /\ b.allocated \in Nat
      /\ \A i \in 1 .. GetSize : b.data[i] = heap[spBuffer].data[i]
      /\ Filled(b)
  BY <1>2, <1>3, <1>4, RoomyOK DEF StreamInv
<1>6. b.size \in Nat /\ b.size <= b.allocated
  BY <1>5, BufferMembers
<1> HIDE DEF b
<1>7. /\ Stored(b, d) \in Buffer
      /\ Stored(b, d).allocated = b.allocated
      /\ Stored(b, d).size = IF n > b.size THEN n ELSE b.size
      /\ \A i \in 1 .. b.allocated :
            Stored(b, d).data[i] =
               IF pos < i /\ i <= n THEN d[i - pos] ELSE b.data[i]
      /\ Filled(Stored(b, d))
  BY <1>1, <1>5, StoredOK
<1>8. Grown(n, Stored(b, d))
  BY DEF b
<1>9. /\ heap' \in [Objects -> Buffer]
      /\ spBuffer' \in Objects \cup {NULL}
      /\ spBuffer' # NULL
      /\ heap'[spBuffer'] = Stored(b, d)
      /\ lent' \in {"no", "fits", "outgrown"}
      /\ lent' # "no" => (spBuffer' = spCaller <=> lent' = "fits") /\ spCaller # NULL
  BY <1>2, <1>3, <1>7, <1>8, GrownOK
<1>10. ASSUME NEW i \in 1 .. Stored(b, d).size
       PROVE  Stored(b, d).data[i] =
                 IF pos < i /\ i <= n THEN d[i - pos] ELSE heap[spBuffer].data[i]
  <2>1. i \in 1 .. b.allocated
    BY <1>2, <1>5, <1>6, <1>7
  <2>2. CASE pos < i /\ i <= n
    BY <1>7, <2>1, <2>2
  <2>3. CASE ~(pos < i /\ i <= n)
    <3>1. i \in 1 .. GetSize
      BY <1>1, <1>2, <1>5, <1>7, <2>3
    <3>2. QED
      BY <1>5, <1>7, <2>1, <2>3, <3>1
  <2>4. QED
    BY <2>2, <2>3
<1>11. QED
  BY <1>5, <1>7, <1>9, <1>10

(* Making room leaves every byte where it was                              *)
LEMMA HintOK ==
    ASSUME StreamInv, StreamAssumption, NEW n \in Nat, Grown(n, Roomy(n))
    PROVE  /\ heap' \in [Objects -> Buffer]
           /\ spBuffer' \in Objects \cup {NULL}
           /\ lent' \in {"no", "fits", "outgrown"}
           /\ lent' # "no" => (spBuffer' = spCaller <=> lent' = "fits") /\ spCaller # NULL
           /\ spBuffer' = NULL => spBuffer = NULL
           /\ spBuffer' # NULL =>
                 /\ Filled(heap'[spBuffer'])
                 /\ heap'[spBuffer'].size = GetSize
                 /\ \A i \in 1 .. GetSize : heap'[spBuffer'].data[i] = heap[spBuffer].data[i]
<1>1. NewAllocation(n) <= MaxAllocation \/ Enough(n)
  BY DEF Grown
<1>2. (spBuffer # NULL \/ ~Enough(n)) =>
         /\ Roomy(n) \in Buffer /\ Roomy(n).size = GetSize /\ Filled(Roomy(n))
         /\ \A i \in 1 .. GetSize : Roomy(n).data[i] = heap[spBuffer].data[i]
  BY <1>1, RoomyOK DEF StreamInv
<1>3. /\ heap' \in [Objects -> Buffer]
      /\ spBuffer' \in Objects \cup {NULL}
      /\ spBuffer' = NULL <=> ~(spBuffer # NULL \/ ~Enough(n))
      /\ spBuffer' # NULL => heap'[spBuffer'] = Roomy(n)
      /\ lent' \in {"no", "fits", "outgrown"}
      /\ lent' # "no" => (spBuffer' = spCaller <=> lent' = "fits") /\ spCaller # NULL
  BY <1>2, GrownOK
<1>4. QED
  BY <1>2, <1>3

(* An operation that is refused                                            *)
LEMMA RefuseStep ==
    ASSUME StreamInv, StreamAssumption, NEW operation, NEW code, Refuse(operation, code)
    PROVE  StreamInv'
<1>1. /\ heap' = heap /\ spCaller' = spCaller /\ spBuffer' = spBuffer
      /\ pos' = pos /\ fNoGrow' = fNoGrow /\ lent' = lent /\ bytesRead' = <<>>
  BY DEF Refuse
<1>2. pos' \in 0 .. GetSize'
  BY <1>1, Parts DEF GetSize
<1>3. QED
  BY <1>1, <1>2, Parts, Restored

(* The stream's steps                                                      *)
LEMMA StreamStep ==
    ASSUME StreamInv, StreamAssumption,
           \/ \E f \in BOOLEAN : StreamAttach(f) \/ SetNoGrow(f)
           \/ StreamReset
           \/ \E n \in Sizes : SetSizeHint(n)
           \/ \E d \in Strings : StreamWrite(d)
    PROVE  StreamInv'
<1> USE Parts
<1>1. ASSUME NEW f \in BOOLEAN, StreamAttach(f)
      PROVE  StreamInv'
  <2> DEFINE b == IF f THEN SetSize(heap[spCaller], 0) ELSE heap[spCaller]
  <2>1. /\ spCaller # NULL
        /\ f \/ Filled(heap[spCaller])
        /\ heap' = Held(NULL, NULL, spCaller, b)
        /\ lent' = "fits" /\ bytesRead' = <<>>
        /\ spCaller' = spCaller /\ spBuffer' = spCaller /\ pos' = 0 /\ fNoGrow' = FALSE
    BY <1>1 DEF StreamAttach, NothingAsked
  <2>2. heap[spCaller] \in Buffer /\ 0 \in 0 .. heap[spCaller].allocated
    BY <2>1, BufferMembers, Constants
  <2>3. b \in Buffer /\ Filled(b) /\ b.size \in Nat
    <3>1. CASE f
      <4>1. b = SetSize(heap[spCaller], 0)
        BY <3>1
      <4>2. SetSize(heap[spCaller], 0) \in Buffer /\ SetSize(heap[spCaller], 0).size = 0
        BY <2>2, SetSizeOK
      <4>3. Filled(SetSize(heap[spCaller], 0))
        BY <4>2 DEF Filled
      <4> HIDE DEF b
      <4>4. b \in Buffer /\ b.size = 0
        BY <4>1, <4>2
      <4>5. Filled(b)
        BY <4>1, <4>3
      <4>6. QED
        BY <4>4, <4>5
    <3>2. CASE ~f
      BY <2>1, <2>2, <3>2, BufferMembers, Constants
    <3>3. QED
      BY <3>1, <3>2
  <2> HIDE DEF b
  <2>4. heap' = [x \in Objects |-> IF x = spCaller THEN b
                                  ELSE IF x \in {NULL, NULL} THEN heap[x] ELSE Freed]
    BY <2>1 DEF Held
  <2>5. heap' \in [Objects -> Buffer] /\ heap'[spBuffer'] = b
    BY <2>1, <2>3, <2>4
  <2>6. pos' \in 0 .. GetSize'
    <3>1. GetSize' = b.size
      BY <2>1, <2>5 DEF GetSize
    <3>2. QED
      BY <2>1, <2>3, <3>1
  <2>7. QED
    BY <2>1, <2>3, <2>5, <2>6, Restored
<1>2. ASSUME NEW f \in BOOLEAN, SetNoGrow(f)
      PROVE  StreamInv'
  <2>1. /\ heap' = heap /\ spCaller' = spCaller /\ spBuffer' = spBuffer
        /\ pos' = pos /\ fNoGrow' = f /\ lent' = lent /\ bytesRead' = <<>>
    BY <1>2 DEF SetNoGrow, NothingAsked
  <2>2. pos' \in 0 .. GetSize'
    BY <2>1 DEF GetSize
  <2>3. QED
    BY <2>1, <2>2, Restored
<1>3. ASSUME StreamReset
      PROVE  StreamInv'
  <2>1. /\ heap' = [x \in Objects |-> IF x = spCaller THEN heap[x] ELSE Freed]
        /\ spCaller' = spCaller /\ spBuffer' = NULL
        /\ pos' = 0 /\ fNoGrow' = FALSE /\ lent' = "no" /\ bytesRead' = <<>>
    BY <1>3 DEF StreamReset, NothingAsked
  <2>2. heap' \in [Objects -> Buffer]
    BY <2>1
  <2>3. pos' \in 0 .. GetSize'
    BY <2>1 DEF GetSize
  <2>4. QED
    BY <2>1, <2>2, <2>3, Restored
<1>4. ASSUME NEW n \in Sizes, SetSizeHint(n)
      PROVE  StreamInv'
  <2>1. ASSUME Refuse("Grow", "E_FAIL")
        PROVE  StreamInv'
    BY <2>1, RefuseStep
  <2>2. ASSUME Grown(n, Roomy(n)), bytesRead' = <<>>,
               spCaller' = spCaller, pos' = pos, fNoGrow' = fNoGrow
        PROVE  StreamInv'
    <3>1. n \in Nat
      BY Constants
    <3>2. /\ heap' \in [Objects -> Buffer]
          /\ spBuffer' \in Objects \cup {NULL}
          /\ lent' \in {"no", "fits", "outgrown"}
          /\ lent' # "no" => (spBuffer' = spCaller <=> lent' = "fits") /\ spCaller # NULL
          /\ spBuffer' = NULL => spBuffer = NULL
          /\ spBuffer' # NULL => Filled(heap'[spBuffer']) /\ heap'[spBuffer'].size = GetSize
      BY <2>2, <3>1, HintOK
    <3>3. GetSize' = GetSize
      BY <3>2 DEF GetSize
    <3>4. QED
      BY <2>2, <3>2, <3>3, Restored
  <2>3. QED
    BY <1>4, <2>1, <2>2 DEF SetSizeHint
<1>5. ASSUME NEW d \in Strings, StreamWrite(d)
      PROVE  StreamInv'
  <2>1. ASSUME Refuse("Write", "E_FAIL")
        PROVE  StreamInv'
    BY <2>1, RefuseStep
  <2>2. ASSUME d # <<>>, Grown(pos + Len(d), Stored(Roomy(pos + Len(d)), d)), bytesRead' = <<>>,
               spCaller' = spCaller, pos' = pos + Len(d), fNoGrow' = fNoGrow
        PROVE  StreamInv'
    <3>1. d \in Seq(Byte) /\ Len(d) \in Nat
      BY Constants
    <3>2. /\ heap' \in [Objects -> Buffer]
          /\ spBuffer' \in Objects
          /\ lent' \in {"no", "fits", "outgrown"}
          /\ lent' # "no" => (spBuffer' = spCaller <=> lent' = "fits") /\ spCaller # NULL
          /\ Filled(heap'[spBuffer'])
          /\ heap'[spBuffer'].size = IF pos + Len(d) > GetSize THEN pos + Len(d) ELSE GetSize
      BY <2>2, <3>1, WriteOK
    <3>3. GetSize \in Nat /\ pos \in Nat
      BY SizesOK, Constants DEF StreamInv
    <3> DEFINE n == Len(d)
    <3>4. pos' \in 0 .. GetSize'
      <4>1. GetSize' = heap'[spBuffer'].size
        BY <3>2 DEF GetSize
      <4>2. /\ n \in Nat /\ pos' = pos + n
            /\ GetSize' = IF pos + n > GetSize THEN pos + n ELSE GetSize
        BY <2>2, <3>1, <3>2, <4>1
      <4> HIDE DEF n
      <4>3. QED
        BY <3>3, <4>2
    <3>5. QED
      BY <2>2, <3>2, <3>4, Restored
  <2>3. QED
    BY <1>5, <2>1, <2>2 DEF StreamWrite
<1>6. QED
  BY <1>1, <1>2, <1>3, <1>4, <1>5

(* Reading and seeking move nothing but the position                       *)
LEMMA PositionStep ==
    ASSUME StreamInv, StreamAssumption,
           \/ \E n \in Sizes : StreamRead(n)
           \/ \E n \in Sizes \cup {0} : SeekDirect(n)
           \/ \E o \in Offsets : SeekRelative(o)
    PROVE  StreamInv'
<1> USE Parts
<1>1. GetSize \in Nat /\ pos \in Nat /\ pos <= GetSize
  BY SizesOK, Constants DEF StreamInv
<1>2. ASSUME heap' = heap, spCaller' = spCaller, spBuffer' = spBuffer, fNoGrow' = fNoGrow,
             lent' = lent, pos' \in 0 .. GetSize
      PROVE  StreamTypeOK' /\ CallersBufferCurrent' /\ (spBuffer' # NULL => Filled(heap'[spBuffer']))
  BY <1>2 DEF StreamTypeOK, GetSize, CallersBufferCurrent
<1>3. ASSUME NEW n \in Sizes, StreamRead(n)
      PROVE  StreamInv'
  <2>1. CASE Refuse("Read", "E_INVALIDARG")
    BY <2>1, RefuseStep
  <2>2. CASE /\ pos + n <= GetSize
             /\ bytesRead' = [i \in 1 .. n |-> heap[spBuffer].data[pos + i]]
             /\ pos' = pos + n
             /\ UNCHANGED <<heap, spCaller, spBuffer, fNoGrow, lent>>
    <3>1. n \in Nat
      BY Constants
    <3>2. pos' \in 0 .. GetSize
      BY <1>1, <2>2, <3>1
    <3>3. \A i \in DOMAIN bytesRead' : bytesRead'[i] # Junk
      <4>1. SUFFICES ASSUME NEW i \in 1 .. n
                     PROVE  heap[spBuffer].data[pos + i] # Junk
        BY <2>2
      <4>2. pos + i \in 1 .. GetSize /\ spBuffer # NULL
        BY <1>1, <2>2, <3>1 DEF GetSize
      <4>3. QED
        BY <4>2 DEF Filled, GetSize
    <3>4. StreamTypeOK' /\ CallersBufferCurrent' /\ (spBuffer' # NULL => Filled(heap'[spBuffer']))
      BY <1>2, <2>2, <3>2
    <3>5. OnlyWrittenBytes'
      BY <3>3, <3>4 DEF OnlyWrittenBytes, Filled
    <3>6. QED
      BY <3>4, <3>5 DEF StreamInv
  <2>3. QED
    BY <1>3, <2>1, <2>2 DEF StreamRead
<1>4. ASSUME NEW p \in Int, SeekDirect(p), 0 <= p
      PROVE  StreamInv'
  <2>1. CASE Refuse("Seek", "E_FAIL")
    BY <2>1, RefuseStep
  <2>2. CASE /\ p <= GetSize /\ pos' = p /\ bytesRead' = <<>>
             /\ UNCHANGED <<heap, spCaller, spBuffer, fNoGrow, lent>>
    <3>1. pos' \in 0 .. GetSize
      BY <1>1, <1>4, <2>2
    <3>2. StreamTypeOK' /\ CallersBufferCurrent' /\ (spBuffer' # NULL => Filled(heap'[spBuffer']))
      BY <1>2, <2>2, <3>1
    <3>3. OnlyWrittenBytes'
      BY <2>2, <3>2 DEF OnlyWrittenBytes, Filled
    <3>4. QED
      BY <3>2, <3>3 DEF StreamInv
  <2>3. QED
    BY <1>4, <2>1, <2>2 DEF SeekDirect
<1>5. ASSUME NEW o \in Offsets, SeekRelative(o)
      PROVE  StreamInv'
  <2>1. o \in Int /\ SizeModulus \in Nat \ {0}
    BY Constants
  <2>2. (pos + o) % SizeModulus \in Int /\ 0 <= (pos + o) % SizeModulus
    BY <1>1, <2>1
  <2>3. QED
    BY <1>4, <1>5, <2>2 DEF SeekRelative
<1>6. ASSUME NEW n \in Sizes \cup {0}, SeekDirect(n)
      PROVE  StreamInv'
  <2>1. n \in Int /\ 0 <= n
    BY Constants
  <2>2. QED
    BY <1>4, <1>6, <2>1
<1>7. QED
  BY <1>3, <1>5, <1>6

LEMMA StreamNextInv ==
    ASSUME StreamInv, StreamAssumption, [DataStreamNext]_dataStreamVars
    PROVE  StreamInv'
<1>1. CASE DataStreamNext
  BY <1>1, CallerStep, StreamStep, PositionStep DEF DataStreamNext
<1>2. CASE UNCHANGED dataStreamVars
  BY <1>2 DEF dataStreamVars, StreamInv, StreamTypeOK, GetSize, OnlyWrittenBytes, Filled,
              CallersBufferCurrent
<1>3. QED
  BY <1>1, <1>2

(* Every reachable state of the stream satisfies the invariant             *)
LEMMA StreamInvariant == DataStreamSpec => []StreamInv
<1>1. DataStreamInit => StreamInv
  BY StreamInitInv, StreamAssumption
<1>2. StreamInv /\ [DataStreamNext]_dataStreamVars => StreamInv'
  BY StreamNextInv, StreamAssumption
<1>3. QED
  BY <1>1, <1>2, PTL DEF DataStreamSpec

(* No buffer is used beyond what it has allocated, although SetSize would  *)
(* let it, whatever is written and wherever (CDataStream, CBuffer).        *)
THEOREM StreamStaysInBounds == DataStreamSpec => []StreamTypeOK
<1>1. StreamInv => StreamTypeOK
  BY DEF StreamInv
<1>2. QED
  BY <1>1, StreamInvariant, PTL

(* Nothing is read, sent or hashed that nobody has written, however often  *)
(* the stream grows into new memory (Grow, CBuffer::InitWithAllocation).   *)
THEOREM StreamReadsOnlyWritten == DataStreamSpec => []OnlyWrittenBytes
<1>1. StreamInv => OnlyWrittenBytes
  BY DEF StreamInv
<1>2. QED
  BY <1>1, StreamInvariant, PTL

(* The buffer a caller attached holds the message exactly as long as what  *)
(* the stream was asked to hold fits in it (messagehandler.cpp:195-196).   *)
THEOREM CallersBufferStaysCurrent == DataStreamSpec => []CallersBufferCurrent
<1>1. StreamInv => CallersBufferCurrent
  BY DEF StreamInv
<1>2. QED
  BY <1>1, StreamInvariant, PTL

-----------------------------------------------------------------------------
(* The promise                                                             *)

(* The bytes of the stream as a sequence                                   *)
LEMMA ContentOK ==
    ASSUME StreamInv, StreamAssumption
    PROVE  /\ Content \in Seq(Byte)
           /\ Len(Content) = GetSize
           /\ DOMAIN Content = 1 .. GetSize
           /\ GetSize \in Nat
           /\ pos \in 0 .. GetSize
<1>1. StreamTypeOK /\ MaxAllocation \in Nat
  BY Constants DEF StreamInv
<1>2. /\ GetSize \in Nat
      /\ pos \in 0 .. GetSize
  BY <1>1, SizesOK
<1>3. ASSUME NEW i \in 1 .. GetSize
      PROVE  heap[spBuffer].data[i] \in Byte
  <2>1. spBuffer # NULL
    BY DEF GetSize
  <2>2. heap[spBuffer] \in Buffer /\ GetSize = heap[spBuffer].size
    BY <1>1, <2>1, SizesOK
  <2>3. /\ heap[spBuffer].allocated \in Nat
        /\ heap[spBuffer].size <= heap[spBuffer].allocated
        /\ heap[spBuffer].data \in [1 .. heap[spBuffer].allocated -> Byte \cup {Junk}]
    BY <1>1, <2>2, BufferMembers
  <2>4. heap[spBuffer].data[i] \in Byte \cup {Junk}
    BY <1>2, <2>2, <2>3
  <2>5. heap[spBuffer].data[i] # Junk
    BY <2>1, <2>2 DEF StreamInv, OnlyWrittenBytes, Filled
  <2>6. QED
    BY <2>4, <2>5
<1>4. Content \in [1 .. GetSize -> Byte]
  BY <1>3 DEF Content
<1>5. Content \in Seq(Byte)
  BY <1>2, <1>4, SeqDef
<1>6. DOMAIN Content = 1 .. GetSize
  BY <1>4
<1>7. Len(Content) = GetSize
  BY <1>2, <1>5, <1>6, LenProperties
<1>8. QED
  BY <1>2, <1>5, <1>6, <1>7

(* A stream that stays with the same bytes                                 *)
LEMMA SameContent ==
    ASSUME GetSize' = GetSize,
           \A i \in 1 .. GetSize : heap'[spBuffer'].data[i] = heap[spBuffer].data[i]
    PROVE  Content' = Content
BY DEF Content

(* The stream always holds bytes, after a step too                         *)
LEMMA ContentBytes == StreamInv => Content \in Seq(Byte)
BY ContentOK, StreamAssumption

LEMMA ContentBytesNext == StreamInv' => (Content \in Seq(Byte))'
BY ContentBytes, PTL

(* What the caller does with buffers the stream does not use, what it      *)
(* writes in place, and what it attaches                                   *)
LEMMA CallerPromise ==
    ASSUME StreamInv, StreamInv', StreamAssumption,
           \/ \E n \in Sizes : CallerAllocates(n)
           \/ \E d \in Strings : CallerReceives(d)
           \/ \E p \in Pokes : CallerPokes(p[1], p[2])
           \/ \E f \in BOOLEAN : StreamAttach(f) \/ SetNoGrow(f)
           \/ StreamReset \/ GetBuffer
    PROVE  Abstract!Next
<1>1. (Content \in Seq(Byte))'
  BY ContentBytesNext
<1>2. heap \in [Objects -> Buffer] /\ (spBuffer # NULL => spBuffer \in Objects)
  BY DEF StreamInv, StreamTypeOK
<1>3. ASSUME heap'[spBuffer] = heap[spBuffer] \/ spBuffer = NULL, spBuffer' = spBuffer
      PROVE  Content' = Content
  <2>1. GetSize' = GetSize
    BY <1>3 DEF GetSize
  <2>2. \A i \in 1 .. GetSize : heap'[spBuffer'].data[i] = heap[spBuffer].data[i]
    BY <1>3 DEF GetSize
  <2>3. QED
    BY <2>1, <2>2, SameContent
<1>4. ASSUME Content' = Content, pos' = pos, fNoGrow' = fNoGrow, NothingAsked
      PROVE  Abstract!Next
  BY <1>4 DEF Abstract!Next, Abstract!Elsewhere, Abstract!NothingAsked, NothingAsked
<1>5. ASSUME NEW n \in Sizes, CallerAllocates(n)
      PROVE  Abstract!Next
  <2>1. heap'[spBuffer] = heap[spBuffer] \/ spBuffer = NULL
    BY <1>2, <1>5 DEF CallerAllocates, Held
  <2>2. QED
    BY <1>3, <1>4, <1>5, <2>1 DEF CallerAllocates
<1>6. ASSUME NEW d \in Strings, CallerReceives(d)
      PROVE  Abstract!Next
  <2>1. heap'[spBuffer] = heap[spBuffer] \/ spBuffer = NULL
    BY <1>2, <1>6 DEF CallerReceives
  <2>2. QED
    BY <1>3, <1>4, <1>6, <2>1 DEF CallerReceives
<1>7. ASSUME GetBuffer
      PROVE  Abstract!Next
  <2>1. heap'[spBuffer] = heap[spBuffer] \/ spBuffer = NULL
    BY <1>2, <1>7 DEF GetBuffer
  <2>2. QED
    BY <1>3, <1>4, <1>7, <2>1 DEF GetBuffer
<1>8. ASSUME NEW f \in BOOLEAN, SetNoGrow(f)
      PROVE  Abstract!Next
  <2>1. Content' = Content
    BY <1>3, <1>8 DEF SetNoGrow
  <2>2. QED
    BY <1>8, <2>1 DEF SetNoGrow, NothingAsked, Abstract!Next, Abstract!SetNoGrow,
                      Abstract!NothingAsked
<1>9. ASSUME NEW f \in BOOLEAN, StreamAttach(f)
      PROVE  Abstract!Next
  BY <1>1, <1>9 DEF StreamAttach, NothingAsked, Abstract!Next, Abstract!Attach,
                    Abstract!NothingAsked
<1>10. ASSUME StreamReset
       PROVE  Abstract!Next
  BY <1>1, <1>10 DEF StreamReset, NothingAsked, Abstract!Next, Abstract!Attach,
                     Abstract!NothingAsked
<1>11. ASSUME NEW p \in Pokes, CallerPokes(p[1], p[2])
       PROVE  Abstract!Next
  <2> DEFINE b == heap[spBuffer]
             k == p[1] - 1
             d == <<p[2]>>
             c == Copied(b, k, d)
  <2>1. /\ spBuffer # NULL
        /\ p[1] \in 1 .. b.size
        /\ heap' = [heap EXCEPT ![spBuffer] = c]
        /\ spBuffer' = spBuffer /\ pos' = pos /\ fNoGrow' = fNoGrow /\ NothingAsked
    BY <1>11 DEF CallerPokes
  <2>2. p[1] \in Nat \ {0} /\ p[2] \in Byte
    BY Constants
  <2>3. b \in Buffer /\ b.size \in Nat /\ b.allocated \in Nat /\ b.size <= b.allocated
    BY <1>2, <2>1, BufferMembers, Constants
  <2>4. k \in Nat /\ d \in Seq(Byte) /\ Len(d) = 1 /\ d[1] = p[2]
    BY <2>2
  <2>5. /\ c.size = b.size
        /\ \A i \in 1 .. b.allocated :
              c.data[i] = IF k < i /\ i <= k + Len(d) THEN d[i - k] ELSE b.data[i]
    <3> HIDE DEF b, k, d
    <3>1. QED
      BY <2>3, <2>4, CopiedOK
  <2> HIDE DEF c
  <2>6. heap'[spBuffer'] = c
    BY <1>2, <2>1
  <2>7. GetSize' = b.size /\ GetSize = b.size
    BY <2>1, <2>5, <2>6 DEF GetSize
  <2>8. \A i \in 1 .. b.size : c.data[i] = IF i = p[1] THEN p[2] ELSE b.data[i]
    <3>1. TAKE i \in 1 .. b.size
    <3>2. i \in 1 .. b.allocated /\ i \in Nat
      BY <2>3
    <3>3. c.data[i] = IF k < i /\ i <= k + Len(d) THEN d[i - k] ELSE b.data[i]
      BY <2>5, <3>2
    <3>4. k < i /\ i <= k + 1 <=> i = p[1]
      BY <2>2, <3>2
    <3>5. QED
      BY <2>2, <2>4, <3>3, <3>4
  <2>9. Content' = [Content EXCEPT ![p[1]] = p[2]] /\ p[1] \in DOMAIN Content
    BY <2>1, <2>6, <2>7, <2>8 DEF Content
  <2>10. QED
    BY <2>1, <2>2, <2>9 DEF Abstract!Next, Abstract!Poke, Abstract!NothingAsked, NothingAsked
<1>12. QED
  BY <1>5, <1>6, <1>7, <1>8, <1>9, <1>10, <1>11

(* Making room, with or without success                                    *)
LEMMA HintPromise ==
    ASSUME StreamInv, StreamAssumption, NEW n \in Sizes, SetSizeHint(n)
    PROVE  Abstract!Next
<1>1. ASSUME Refuse("Grow", "E_FAIL"), fNoGrow
      PROVE  Abstract!Next
  <2>1. Content' = Content
    BY <1>1 DEF Refuse, Content, GetSize
  <2>2. QED
    BY <1>1, <2>1 DEF Refuse, Abstract!Next, Abstract!Refused
<1>2. ASSUME Grown(n, Roomy(n)), result' = <<"Grow", "S_OK">>, bytesRead' = <<>>,
             spCaller' = spCaller, pos' = pos, fNoGrow' = fNoGrow
      PROVE  Abstract!Next
  <2>1. n \in Nat
    BY Constants
  <2>2. /\ spBuffer' = NULL => spBuffer = NULL
        /\ spBuffer' # NULL =>
              /\ heap'[spBuffer'].size = GetSize
              /\ \A i \in 1 .. GetSize : heap'[spBuffer'].data[i] = heap[spBuffer].data[i]
    BY <1>2, <2>1, HintOK
  <2>3. GetSize' = GetSize
    BY <2>2 DEF GetSize
  <2>4. \A i \in 1 .. GetSize : heap'[spBuffer'].data[i] = heap[spBuffer].data[i]
    BY <2>2 DEF GetSize
  <2>5. Content' = Content
    BY <2>3, <2>4, SameContent
  <2>6. QED
    BY <1>2, <2>5 DEF Abstract!Next, Abstract!Reserve
<1>3. QED
  BY <1>1, <1>2 DEF SetSizeHint

(* A write lands at the position, whichever buffer it ends in              *)
LEMMA WritePromise ==
    ASSUME StreamInv, StreamAssumption, NEW d \in Strings, StreamWrite(d)
    PROVE  Abstract!Next
<1>1. ASSUME Refuse("Write", "E_FAIL"), d = <<>> \/ fNoGrow
      PROVE  Abstract!Next
  <2>1. Content' = Content
    BY <1>1 DEF Refuse, Content, GetSize
  <2>2. QED
    BY <1>1, <2>1 DEF Refuse, Abstract!Next, Abstract!Refused
<1>2. ASSUME d # <<>>, Grown(pos + Len(d), Stored(Roomy(pos + Len(d)), d)),
             result' = <<"Write", "S_OK">>, bytesRead' = <<>>,
             spCaller' = spCaller, pos' = pos + Len(d), fNoGrow' = fNoGrow
      PROVE  Abstract!Next
  <2>1. d \in Seq(Byte)
    BY Constants
  <2>2. Len(d) \in Nat \ {0}
    BY <1>2, <2>1, EmptySeq
  <2> DEFINE n == pos + Len(d)
             m == IF n > GetSize THEN n ELSE GetSize
  <2>3. /\ spBuffer' \in Objects
        /\ heap'[spBuffer'].size = m
        /\ \A i \in 1 .. heap'[spBuffer'].size :
              heap'[spBuffer'].data[i] =
                 IF pos < i /\ i <= n THEN d[i - pos] ELSE heap[spBuffer].data[i]
    BY <1>2, <2>1, WriteOK
  <2>4. GetSize \in Nat /\ pos \in 0 .. GetSize /\ Len(Content) = GetSize
    BY ContentOK
  <2>5. GetSize' = m
    BY <2>3, Constants DEF GetSize
  <2>6. Content' = [i \in 1 .. m |->
                      IF pos < i /\ i <= n THEN d[i - pos] ELSE heap[spBuffer].data[i]]
    BY <2>3, <2>5 DEF Content
  <2>7. Abstract!Overwritten(Content, pos, d) =
           [i \in 1 .. m |-> IF pos < i /\ i <= n THEN d[i - pos] ELSE Content[i]]
    BY <2>4 DEF Abstract!Overwritten
  <2>8. ASSUME NEW i \in 1 .. m, ~(pos < i /\ i <= n)
        PROVE  Content[i] = heap[spBuffer].data[i]
    <3>1. i \in 1 .. GetSize
      BY <2>2, <2>4, <2>8
    <3>2. QED
      BY <3>1 DEF Content
  <2>9. Content' = Abstract!Overwritten(Content, pos, d)
    BY <2>6, <2>7, <2>8
  <2>10. QED
    BY <1>2, <2>2, <2>9 DEF Abstract!Next, Abstract!Write
<1>3. QED
  BY <1>1, <1>2 DEF StreamWrite

(* Reading and seeking                                                     *)
LEMMA PositionPromise ==
    ASSUME StreamInv, StreamAssumption,
           \/ \E n \in Sizes : StreamRead(n)
           \/ \E n \in Sizes \cup {0} : SeekDirect(n)
           \/ \E o \in Offsets : SeekRelative(o)
    PROVE  Abstract!Next
<1>1. GetSize \in Nat /\ pos \in 0 .. GetSize /\ Len(Content) = GetSize
  BY ContentOK
<1>2. ASSUME heap' = heap, spBuffer' = spBuffer
      PROVE  Content' = Content
  BY <1>2 DEF Content, GetSize
<1>3. ASSUME NEW n \in Sizes, StreamRead(n)
      PROVE  Abstract!Next
  <2>1. n \in Nat
    BY Constants
  <2>2. ASSUME pos + n > GetSize, Refuse("Read", "E_INVALIDARG")
        PROVE  Abstract!Next
    <3>1. \E k \in Sizes : pos + k > Len(Content)
      BY <1>1, <2>2
    <3>2. Content' = Content
      BY <1>2, <2>2 DEF Refuse
    <3>3. QED
      BY <2>2, <3>1, <3>2 DEF Refuse, Abstract!Next, Abstract!Refused
  <2>3. ASSUME pos + n <= GetSize,
               bytesRead' = [i \in 1 .. n |-> heap[spBuffer].data[pos + i]],
               pos' = pos + n, result' = <<"Read", "S_OK">>,
               UNCHANGED <<heap, spCaller, spBuffer, fNoGrow, lent>>
        PROVE  Abstract!Next
    <3>1. Content' = Content
      BY <1>2, <2>3
    <3>2. \A i \in 1 .. n : Content[pos + i] = heap[spBuffer].data[pos + i]
      <4>1. \A i \in 1 .. n : pos + i \in 1 .. GetSize
        BY <1>1, <2>1, <2>3
      <4>2. QED
        BY <4>1 DEF Content
    <3>3. bytesRead' = Abstract!Behind(Content, pos, n)
      BY <2>3, <3>2 DEF Abstract!Behind
    <3>4. QED
      BY <1>1, <2>3, <3>1, <3>3 DEF Abstract!Next, Abstract!Read
  <2>4. QED
    BY <1>3, <2>2, <2>3 DEF StreamRead
<1>4. ASSUME NEW p \in Int, 0 <= p, SeekDirect(p)
      PROVE  Abstract!Next
  <2>1. ASSUME Refuse("Seek", "E_FAIL")
        PROVE  Abstract!Next
    <3>1. Content' = Content
      BY <1>2, <2>1 DEF Refuse
    <3>2. QED
      BY <2>1, <3>1 DEF Refuse, Abstract!Next, Abstract!Refused
  <2>2. ASSUME p <= GetSize, pos' = p, result' = <<"Seek", "S_OK">>, bytesRead' = <<>>,
               UNCHANGED <<heap, spCaller, spBuffer, fNoGrow, lent>>
        PROVE  Abstract!Next
    <3>1. Content' = Content
      BY <1>2, <2>2
    <3>2. pos' \in 0 .. Len(Content)
      BY <1>1, <1>4, <2>2
    <3>3. QED
      BY <2>2, <3>1, <3>2 DEF Abstract!Next, Abstract!Seek
  <2>3. QED
    BY <1>4, <2>1, <2>2 DEF SeekDirect
<1>5. ASSUME NEW o \in Offsets, SeekRelative(o)
      PROVE  Abstract!Next
  <2>1. o \in Int /\ SizeModulus \in Nat \ {0} /\ pos \in Int
    BY <1>1, Constants
  <2>2. (pos + o) % SizeModulus \in Int /\ 0 <= (pos + o) % SizeModulus
    BY <2>1
  <2>3. QED
    BY <1>4, <1>5, <2>2 DEF SeekRelative
<1>6. ASSUME NEW n \in Sizes \cup {0}, SeekDirect(n)
      PROVE  Abstract!Next
  <2>1. n \in Int /\ 0 <= n
    BY Constants
  <2>2. QED
    BY <1>4, <1>6, <2>1
<1>7. QED
  BY <1>3, <1>5, <1>6

(* A CDataStream is a sequence of bytes with a position: it keeps every    *)
(* byte at its place however often Grow moves it to another buffer, and    *)
(* refuses only what it should (datastream.cpp 61-247).                    *)
THEOREM StreamImplementsByteStream == DataStreamSpec => ImplementsByteStream
<1>1. DataStreamInit => Abstract!Init
  <2>1. SUFFICES ASSUME DataStreamInit
                 PROVE  Content = <<>>
    BY DEF DataStreamInit, Abstract!Init
  <2>2. Content \in Seq(Byte) /\ Len(Content) = 0
    <3>1. StreamInv
      BY <2>1, StreamInitInv, StreamAssumption
    <3>2. GetSize = 0
      BY <2>1 DEF DataStreamInit, GetSize
    <3>3. QED
      BY <3>1, <3>2, ContentOK, StreamAssumption
  <2>3. QED
    BY <2>2, EmptySeq
<1>2. StreamInv /\ StreamInv' /\ [DataStreamNext]_dataStreamVars
        => [Abstract!Next]_(Abstract!streamVars)
  <2>1. SUFFICES ASSUME StreamInv, StreamInv', [DataStreamNext]_dataStreamVars
                 PROVE  [Abstract!Next]_(Abstract!streamVars)
    OBVIOUS
  <2>2. CASE DataStreamNext
    <3>1. Abstract!Next
      BY <2>1, <2>2, CallerPromise, HintPromise, WritePromise, PositionPromise,
         StreamAssumption DEF DataStreamNext
    <3>2. QED
      BY <3>1
  <2>3. CASE UNCHANGED dataStreamVars
    BY <2>3 DEF dataStreamVars, Abstract!streamVars, Content, GetSize
  <2>4. QED
    BY <2>1, <2>2, <2>3
<1>3. QED
  BY <1>1, <1>2, StreamInvariant, PTL DEF DataStreamSpec, ImplementsByteStream, Abstract!Spec
=============================================================================
