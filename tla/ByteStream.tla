----------------------------- MODULE ByteStream -----------------------------
(***************************************************************************)
(* What a CDataStream promises: a sequence of bytes with a position that   *)
(* never leaves it.  Where the bytes are kept, and whether the stream had  *)
(* to move them to a larger place, cannot be told from here.               *)
(***************************************************************************)
EXTENDS Naturals, Sequences

CONSTANTS
    Byte,
    Strings,       \* the byte strings callers write
    Sizes          \* how many bytes callers read

VARIABLES
    content,       \* the bytes
    position,      \* how many of them are before the position
    fixed,         \* may the stream refuse for lack of room?
    result,        \* the last operation and what it returned
    bytesRead            \* the bytes it read

streamVars == <<content, position, fixed, result, bytesRead>>

-----------------------------------------------------------------------------
(* s with the bytes d written over it from position p on                   *)
Overwritten(s, p, d) ==
    [i \in 1 .. IF p + Len(d) > Len(s) THEN p + Len(d) ELSE Len(s) |->
        IF p < i /\ i <= p + Len(d) THEN d[i - p] ELSE s[i]]

(* The n bytes of s behind position p                                      *)
Behind(s, p, n) == [i \in 1 .. n |-> s[p + i]]

Init ==
    /\ content = <<>>
    /\ position = 0
    /\ fixed = FALSE
    /\ result = <<"None", "S_OK">>
    /\ bytesRead = <<>>

NothingAsked == result' = <<"None", "S_OK">> /\ bytesRead' = <<>>

(* Other bytes: none, those of a buffer the caller gives, or none yet      *)
Attach ==
    /\ content' \in Seq(Byte)
    /\ position' = 0
    /\ fixed' = FALSE
    /\ NothingAsked

Write(d) ==
    /\ Len(d) > 0
    /\ content' = Overwritten(content, position, d)
    /\ position' = position + Len(d)
    /\ result' = <<"Write", "S_OK">> /\ bytesRead' = <<>>
    /\ UNCHANGED fixed

Read(n) ==
    /\ position + n <= Len(content)
    /\ bytesRead' = Behind(content, position, n)
    /\ position' = position + n
    /\ result' = <<"Read", "S_OK">>
    /\ UNCHANGED <<content, fixed>>

Seek ==
    /\ position' \in 0 .. Len(content)
    /\ result' = <<"Seek", "S_OK">> /\ bytesRead' = <<>>
    /\ UNCHANGED <<content, fixed>>

(* Room for more is made, the bytes stay                                   *)
Reserve ==
    /\ result' = <<"Grow", "S_OK">> /\ bytesRead' = <<>>
    /\ UNCHANGED <<content, position, fixed>>

(* An operation that is refused changes nothing.  Only an empty write, or  *)
(* one to a stream that may not grow, is refused, and only a read beyond   *)
(* the end                                                                 *)
Refused ==
    /\ \/ result' = <<"Write", "E_FAIL">> /\ (fixed \/ <<>> \in Strings)
       \/ result' = <<"Grow", "E_FAIL">> /\ fixed
       \/ result' = <<"Read", "E_INVALIDARG">>
             /\ \E n \in Sizes : position + n > Len(content)
       \/ result' = <<"Seek", "E_FAIL">>
    /\ bytesRead' = <<>>
    /\ UNCHANGED <<content, position, fixed>>

SetNoGrow ==
    /\ fixed' \in BOOLEAN
    /\ NothingAsked
    /\ UNCHANGED <<content, position>>

(* A caller that shares the bytes writes one of them in place              *)
Poke ==
    /\ \E i \in DOMAIN content, b \in Byte : content' = [content EXCEPT ![i] = b]
    /\ NothingAsked
    /\ UNCHANGED <<position, fixed>>

(* The caller is busy with other buffers                                   *)
Elsewhere == NothingAsked /\ UNCHANGED <<content, position, fixed>>

Next ==
    \/ Attach
    \/ \E d \in Strings : Write(d)
    \/ \E n \in Sizes : Read(n)
    \/ Seek \/ Reserve \/ Refused \/ SetNoGrow \/ Poke \/ Elsewhere

Spec == Init /\ [][Next]_streamVars
=============================================================================
