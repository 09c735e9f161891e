----------------------------- MODULE DataStream -----------------------------
(***************************************************************************)
(* CDataStream over a reference counted CBuffer: how every STUN message is *)
(* written and parsed.  The caller may hold the same buffer: a request     *)
(* handler and the client's tests attach the buffer the message is to end  *)
(* in, and MESSAGE-INTEGRITY is written through a pointer into it.  When   *)
(* the stream has to grow it moves to a new buffer and leaves the caller   *)
(* with the old one.                                                       *)
(***************************************************************************)
EXTENDS Integers, Sequences

CONSTANTS
    Byte,
    Junk,           \* a byte of new memory that nobody has written
    Objects,        \* the CBuffer objects
    NULL,
    Strings,        \* the byte strings callers write
    Sizes,          \* the sizes callers ask for
    Offsets,        \* the offsets callers seek by
    Pokes,          \* what callers write in place: <<position, byte>>
    SizeModulus,    \* where size_t wraps around
    MaxAllocation   \* bound of the model

ASSUME StreamAssumption ==
    /\ Junk \notin Byte
    /\ NULL \notin Objects
    /\ \A o, x \in Objects : Objects \ {o, x} # {}
    /\ Strings \subseteq Seq(Byte)
    /\ Sizes \subseteq Nat \ {0}
    /\ Offsets \subseteq Int
    /\ Pokes \subseteq (Nat \ {0}) \X Byte
    /\ MaxAllocation \in Nat
    /\ SizeModulus \in Nat /\ SizeModulus > MaxAllocation

VARIABLES
    heap,           \* the CBuffers somebody holds
    spCaller,       \* the caller's pointer to one
    spBuffer,       \* the stream's
    pos,            \* _pos
    fNoGrow,
    result,         \* the last operation on the stream and what it returned
    bytesRead,            \* the bytes it read
    lent            \* history: has the stream been given the caller's buffer, and
                    \* did all it was asked to hold since fit in there?

dataStreamVars == <<heap, spCaller, spBuffer, pos, fNoGrow, result, bytesRead, lent>>

-----------------------------------------------------------------------------
(* CBuffer(n), of size n as well; GetData()[i - 1] is data[i]              *)
NewBuffer(n) == [allocated |-> n, size |-> n, data |-> [i \in 1 .. n |-> Junk]]

Freed == NewBuffer(0)

(* CBuffer::SetSize compares with what is allocated, but takes the outcome *)
(* for an HRESULT, and 0 and 1 both succeed: it accepts any size.  A write *)
(* that passes the 1 on counts as S_OK here.                               *)
SetSize(buffer, n) == [buffer EXCEPT !.size = n]

(* memcpy to position p                                                    *)
Copied(buffer, p, d) ==
    [buffer EXCEPT !.data =
        [i \in DOMAIN @ |-> IF p < i /\ i <= p + Len(d) THEN d[i - p] ELSE @[i]]]

(* A buffer lives as long as the stream or the caller holds it             *)
Held(stream, caller, o, buffer) ==
    [x \in Objects |-> IF x = o THEN buffer
                       ELSE IF x \in {stream, caller} THEN heap[x] ELSE Freed]

GetAllocatedSize == IF spBuffer = NULL THEN 0 ELSE heap[spBuffer].allocated
GetSize          == IF spBuffer = NULL THEN 0 ELSE heap[spBuffer].size

-----------------------------------------------------------------------------
DataStreamInit ==
    /\ heap = [o \in Objects |-> Freed]
    /\ spCaller = NULL /\ spBuffer = NULL
    /\ pos = 0
    /\ fNoGrow = FALSE
    /\ result = <<"None", "S_OK">>
    /\ bytesRead = <<>>
    /\ lent = "no"

NothingAsked == result' = <<"None", "S_OK">> /\ bytesRead' = <<>>

(* The caller: a new buffer, and what recv() puts into it; a stream that   *)
(* was attached to it is gone by then                                      *)
CallerAllocates(n) ==
    /\ n <= MaxAllocation
    /\ \E o \in Objects \ {spBuffer, spCaller} :
          /\ heap' = Held(spBuffer, o, o, NewBuffer(n))
          /\ spCaller' = o
    /\ lent' = "no"
    /\ NothingAsked
    /\ UNCHANGED <<spBuffer, pos, fNoGrow>>

CallerReceives(d) ==
    /\ spCaller # NULL /\ spCaller # spBuffer
    /\ Len(d) <= heap[spCaller].allocated
    /\ heap' = [heap EXCEPT ![spCaller] = SetSize(Copied(@, 0, d), Len(d))]
    /\ lent' = "no"
    /\ NothingAsked
    /\ UNCHANGED <<spCaller, spBuffer, pos, fNoGrow>>

Filled(buffer) == \A i \in 1 .. buffer.size : buffer.data[i] # Junk

(* Assumed: a buffer attached to be read was filled before                 *)
StreamAttach(fForWriting) ==
    /\ spCaller # NULL
    /\ fForWriting \/ Filled(heap[spCaller])
    /\ spBuffer' = spCaller
    /\ heap' = Held(NULL, NULL, spCaller,
                    IF fForWriting THEN SetSize(heap[spCaller], 0) ELSE heap[spCaller])
    /\ pos' = 0 /\ fNoGrow' = FALSE
    /\ lent' = "fits"
    /\ NothingAsked
    /\ UNCHANGED spCaller

StreamReset ==
    /\ spBuffer' = NULL
    /\ heap' = [x \in Objects |-> IF x = spCaller THEN heap[x] ELSE Freed]
    /\ pos' = 0 /\ fNoGrow' = FALSE
    /\ lent' = "no"
    /\ NothingAsked
    /\ UNCHANGED spCaller

SetNoGrow(f) ==
    /\ fNoGrow' = f
    /\ NothingAsked
    /\ UNCHANGED <<heap, spCaller, spBuffer, pos, lent>>

(* The caller holds whatever the stream holds now                          *)
GetBuffer ==
    /\ spCaller' = spBuffer
    /\ heap' = [x \in Objects |-> IF x = spBuffer THEN heap[x] ELSE Freed]
    /\ lent' = IF spBuffer = NULL THEN "no" ELSE "fits"
    /\ NothingAsked
    /\ UNCHANGED <<spBuffer, pos, fNoGrow>>

(* The HMAC goes through a pointer the caller got from GetBuffer           *)
CallerPokes(i, b) ==
    /\ spCaller # NULL /\ spCaller = spBuffer
    /\ i \in 1 .. heap[spCaller].size
    /\ heap' = [heap EXCEPT ![spCaller] = Copied(@, i - 1, <<b>>)]
    /\ NothingAsked
    /\ UNCHANGED <<spCaller, spBuffer, pos, fNoGrow, lent>>

-----------------------------------------------------------------------------
(* Mutant: a buffer that is filled to the last byte is replaced            *)
EnoughAndOneMore(n) == n < GetAllocatedSize

Enough(n) == n <= GetAllocatedSize

(* Mutant: twice the size is taken to be enough for anything               *)
Doubled(n) == GetAllocatedSize * 2

NewAllocation(n) == IF n > GetAllocatedSize * 2 THEN n ELSE GetAllocatedSize * 2

(* Mutant: a new buffer keeps the size it was made with                    *)
LargerOfFullSize(n) ==
    [NewBuffer(NewAllocation(n)) EXCEPT !.data =
        [i \in 1 .. NewAllocation(n) |->
            IF i <= GetSize THEN heap[spBuffer].data[i] ELSE Junk]]

(* The buffer Grow moves to, with the same size and the same bytes         *)
Larger(n) ==
    [NewBuffer(NewAllocation(n)) EXCEPT
        !.size = GetSize,
        !.data = [i \in 1 .. NewAllocation(n) |->
                    IF i <= GetSize THEN heap[spBuffer].data[i] ELSE Junk]]

(* The buffer that has room for n bytes                                    *)
Roomy(n) == IF Enough(n) THEN heap[spBuffer] ELSE Larger(n)

(* Grow(n) for an operation that leaves `buffer' in the buffer with room   *)
Grown(n, buffer) ==
    /\ \/ Enough(n) /\ spBuffer' = spBuffer
       \/ ~Enough(n) /\ ~fNoGrow /\ spBuffer' \in Objects \ {spBuffer, spCaller}
    /\ NewAllocation(n) <= MaxAllocation \/ Enough(n)
    /\ heap' = IF spBuffer' = NULL THEN heap ELSE Held(NULL, spCaller, spBuffer', buffer)
    /\ lent' = IF lent = "fits" /\ n > heap[spCaller].allocated THEN "outgrown" ELSE lent

Refuse(operation, code) ==
    /\ result' = <<operation, code>> /\ bytesRead' = <<>>
    /\ UNCHANGED <<heap, spCaller, spBuffer, pos, fNoGrow, lent>>

SetSizeHint(n) ==
    \/ /\ Grown(n, Roomy(n))
       /\ result' = <<"Grow", "S_OK">> /\ bytesRead' = <<>>
       /\ UNCHANGED <<spCaller, pos, fNoGrow>>
    \/ /\ ~Enough(n) /\ fNoGrow
       /\ Refuse("Grow", "E_FAIL")

(* Mutant: a write in the middle cuts off what was behind it               *)
StoredAsEnd(buffer, d) == SetSize(Copied(buffer, pos, d), pos + Len(d))

(* Writing in the middle leaves the size                                   *)
Stored(buffer, d) ==
    IF pos + Len(d) > buffer.size THEN SetSize(Copied(buffer, pos, d), pos + Len(d))
    ELSE Copied(buffer, pos, d)

StreamWrite(d) ==
    \/ /\ d # <<>>
       /\ Grown(pos + Len(d), Stored(Roomy(pos + Len(d)), d))
       /\ pos' = pos + Len(d)
       /\ result' = <<"Write", "S_OK">> /\ bytesRead' = <<>>
       /\ UNCHANGED <<spCaller, fNoGrow>>
    \/ /\ d = <<>> \/ (~Enough(pos + Len(d)) /\ fNoGrow)
       /\ Refuse("Write", "E_FAIL")

StreamRead(n) ==
    \/ /\ pos + n <= GetSize
       /\ bytesRead' = [i \in 1 .. n |-> heap[spBuffer].data[pos + i]]
       /\ pos' = pos + n
       /\ result' = <<"Read", "S_OK">>
       /\ UNCHANGED <<heap, spCaller, spBuffer, fNoGrow, lent>>
    \/ /\ pos + n > GetSize
       /\ Refuse("Read", "E_INVALIDARG")

SeekDirect(p) ==
    \/ /\ p <= GetSize
       /\ pos' = p
       /\ result' = <<"Seek", "S_OK">> /\ bytesRead' = <<>>
       /\ UNCHANGED <<heap, spCaller, spBuffer, fNoGrow, lent>>
    \/ /\ p > GetSize
       /\ Refuse("Seek", "E_FAIL")

(* The sum is a size_t: what is before the beginning wraps around          *)
SeekRelative(offset) == SeekDirect((pos + offset) % SizeModulus)

DataStreamNext ==
    \/ \E n \in Sizes : CallerAllocates(n) \/ SetSizeHint(n) \/ StreamRead(n)
    \/ \E n \in Sizes \cup {0} : SeekDirect(n)
    \/ \E d \in Strings : CallerReceives(d) \/ StreamWrite(d)
    \/ \E f \in BOOLEAN : StreamAttach(f) \/ SetNoGrow(f)
    \/ \E o \in Offsets : SeekRelative(o)
    \/ \E p \in Pokes : CallerPokes(p[1], p[2])
    \/ StreamReset \/ GetBuffer

DataStreamSpec == DataStreamInit /\ [][DataStreamNext]_dataStreamVars

-----------------------------------------------------------------------------
BufferOf(n) == [allocated : {n}, size : 0 .. n, data : [1 .. n -> Byte \cup {Junk}]]

Buffer == UNION {BufferOf(n) : n \in 0 .. MaxAllocation}

(* No buffer is used beyond what it has allocated, although SetSize would  *)
(* let it, and the position stays inside the bytes.  A null pointer is     *)
(* never followed: without a buffer the size and the position are zero.    *)
StreamTypeOK ==
    /\ heap \in [Objects -> Buffer]
    /\ spCaller \in Objects \cup {NULL}
    /\ spBuffer \in Objects \cup {NULL}
    /\ pos \in 0 .. GetSize
    /\ fNoGrow \in BOOLEAN
    /\ lent \in {"no", "fits", "outgrown"}

(* Nothing is read, sent or hashed that nobody has written: every byte of  *)
(* a stream comes from a write, although a new CBuffer counts all of its   *)
(* uninitialized memory as its size (CBuffer::InitWithAllocation, Grow).   *)
OnlyWrittenBytes ==
    /\ spBuffer # NULL => Filled(heap[spBuffer])
    /\ \A i \in DOMAIN bytesRead : bytesRead[i] # Junk

(* The buffer a caller attached is the one that holds the message, as long *)
(* as everything the stream was asked to hold, hints included, fits in it; *)
(* it is left behind as soon as something does not.  The request handler   *)
(* asserts it (messagehandler.cpp:195-196) and the clients' tests, which   *)
(* never ask the builder for its buffer, rely on it.                       *)
CallersBufferCurrent ==
    lent # "no" => (spBuffer = spCaller <=> lent = "fits") /\ spCaller # NULL

Content == [i \in 1 .. GetSize |-> heap[spBuffer].data[i]]

Abstract == INSTANCE ByteStream
                WITH content <- Content, position <- pos, fixed <- fNoGrow

(* The stream keeps the bytes it was given, at their places, however often *)
(* it moves to another buffer, and refuses only what it should.            *)
ImplementsByteStream == Abstract!Spec
=============================================================================
