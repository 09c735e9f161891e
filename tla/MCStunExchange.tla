-------------------------- MODULE MCStunExchange --------------------------
(***************************************************************************)
(* Messages of up to three attributes, which is also all the reader's      *)
(* table holds, with limits just above what they need, and foreign         *)
(* datagrams of up to six words at and beyond those limits, some of them   *)
(* with a fingerprint that checks.                                         *)
(***************************************************************************)
EXTENDS StunExchange

MCTids  == {[first |-> 1, rest |-> 1], [first |-> 2, rest |-> 1]}
MCAddrs == {[family |-> 4, ip |-> "a"], [family |-> 6, ip |-> "b"]}

ForeignWords == {Word("Nonce", n, Noise) : n \in {0, 1, 8, MAX_STUN_ATTRIBUTE_SIZE + 1}}

ForeignBodies ==
    UNION {[1 .. k -> ForeignWords] : k \in 0 .. 3}
        \cup {[i \in 1 .. k |-> Word("Nonce", 0, Noise)] : k \in 4 .. 6}

ForeignWire(zero, length, words, size) ==
    [zeroBits |-> zero, class |-> "Request", tid |-> [first |-> 1, rest |-> 1],
     length |-> length, words |-> words, size |-> size]

One == <<Word("Nonce", 0, Noise)>>

(* Complete messages with a fingerprint, over the words before it as it    *)
(* should be or over none, at the end or with an attribute behind it       *)
Fingerprinted(words, covered, behind) ==
    LET length == 4 * (Len(words) + 2 + Len(behind))
        w      == ForeignWire(TRUE, length, words, STUN_HEADER_SIZE + length)
    IN  [w EXCEPT !.words = words \o <<Word("Fingerprint", 4, Noise),
                                       Data(<<"crc", 0, Covered(w, covered)>>)>> \o behind]

MCForeignWires ==
    {Fingerprinted(words, covered, behind) : words, covered, behind \in {<<>>, One}}
    \cup
    {ForeignWire(TRUE, 4 * Len(words) + more, words, STUN_HEADER_SIZE + 4 * Len(words)) :
        words \in ForeignBodies, more \in {0, 2, 4, MAX_STUN_MESSAGE_SIZE + 4}}
    \cup
    {ForeignWire(TRUE, 0, words, STUN_HEADER_SIZE + 4 * Len(words)) : words \in ForeignBodies}
    \cup
    {ForeignWire(FALSE, 0, <<>>, STUN_HEADER_SIZE), ForeignWire(TRUE, 4, <<>>, 10)}
=============================================================================
