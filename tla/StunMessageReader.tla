------------------------- MODULE StunMessageReader -------------------------
(***************************************************************************)
(* CStunMessageReader: the incremental parser of one STUN message.  Bytes  *)
(* are fed in chunks; once the header and the body are complete they are   *)
(* validated, and the attributes can be looked up and authenticated.       *)
(*                                                                         *)
(* A reader is a record, and w is what comes in: its header fields, its    *)
(* words and its size in bytes.  The reader has seen the first r.size      *)
(* bytes of w.                                                             *)
(***************************************************************************)
EXTENDS StunMessageBuilder

CONSTANTS
    MAX_NUM_ATTRIBUTES,
    MAX_STUN_ATTRIBUTE_SIZE,
    MAX_STUN_MESSAGE_SIZE

ASSUME ReaderAssumption ==
    /\ {MAX_NUM_ATTRIBUTES, MAX_STUN_ATTRIBUTE_SIZE, MAX_STUN_MESSAGE_SIZE} \subseteq Nat
    /\ MAX_STUN_ATTRIBUTE_SIZE >= HMAC_SIZE

ReaderParseState == {"HeaderNotRead", "HeaderValidated", "BodyValidated", "ParseError"}

(* A reader as Reset leaves it.  The positions of the two attributes that  *)
(* authenticate a message count from 1, 0 when absent (-1 in the code).    *)
Reset(fAllowLegacyFormat) ==
    [state |-> "HeaderNotRead", size |-> 0, fAllowLegacyFormat |-> fAllowLegacyFormat,
     fMessageIsLegacyFormat |-> FALSE, class |-> "Invalid",
     tid |-> [first |-> 0, rest |-> 0], length |-> 0,
     attributes |-> <<>>, indexFingerprint |-> 0, indexMessageIntegrity |-> 0]

-----------------------------------------------------------------------------
(* Mutant: the body is asked for without what has been read of it          *)
NeededFromStart(r) ==
    CASE r.state = "HeaderNotRead"   -> STUN_HEADER_SIZE - r.size
      [] r.state = "HeaderValidated" -> r.length + STUN_HEADER_SIZE
      [] OTHER                       -> 0

(* What the caller may still read without taking bytes of what follows     *)
HowManyBytesNeeded(r) ==
    CASE r.state = "HeaderNotRead"   -> STUN_HEADER_SIZE - r.size
      [] r.state = "HeaderValidated" -> r.length + STUN_HEADER_SIZE - r.size
      [] OTHER                       -> 0

ReadHeader(r, w) ==
    LET legacy == w.tid.first # STUN_COOKIE
        valid  == w.zeroBits /\ w.length % 4 = 0 /\ (r.fAllowLegacyFormat \/ ~legacy)
        read   == [r EXCEPT !.fMessageIsLegacyFormat = legacy,
                            !.length = w.length, !.tid = w.tid]
    IN  CASE ~valid ->
               [r EXCEPT !.fMessageIsLegacyFormat = legacy, !.state = "ParseError"]
          [] valid /\ w.length > MAX_STUN_MESSAGE_SIZE ->
               [read EXCEPT !.state = "ParseError"]
          [] OTHER ->
               [read EXCEPT !.class = w.class,
                            !.state = IF w.length = 0 THEN "BodyValidated"
                                      ELSE "HeaderValidated"]

Body(r, w) == SubSeq(w.words, 1, r.length \div 4)

(* Mutant: the padding of a value is not skipped                           *)
HeaderAtUnpadded(body) ==
    LET at[k \in 0 .. MAX_NUM_ATTRIBUTES] ==
            IF k = 0 THEN 1
            ELSE LET p == at[k - 1]
                 IN  IF p > Len(body) THEN p ELSE p + 1 + body[p].n \div 4
    IN  at

(* Where the loop of ReadBody finds its k-th attribute header, counting    *)
(* from 0: each length sends it past the value and its padding             *)
HeaderAt(body) ==
    LET at[k \in 0 .. MAX_NUM_ATTRIBUTES] ==
            IF k = 0 THEN 1
            ELSE LET p == at[k - 1]
                 IN  IF p > Len(body) THEN p ELSE p + 1 + WordsFor(body[p].n)
    IN  at

LastOf(attributes, t) ==
    LET is == {i \in DOMAIN attributes : attributes[i].t = t}
    IN  IF is = {} THEN 0 ELSE CHOOSE i \in is : \A j \in is : j <= i

AcceptableLength(n) == n <= MAX_STUN_ATTRIBUTE_SIZE

(* The loop inserts an attribute once its length is acceptable and the     *)
(* table has room, then seeks past it, which fails beyond the end          *)
ReadBody(r, w) ==
    LET body       == Body(r, w)
        at         == HeaderAt(body)
        Fits(k)    == at[k - 1] <= Len(body) /\ AcceptableLength(body[at[k - 1]].n)
        Passed(k)  == Fits(k) /\ at[k] <= Len(body) + 1
        inserted   == {k \in 1 .. MAX_NUM_ATTRIBUTES :
                          Fits(k) /\ \A j \in 1 .. k - 1 : Passed(j)}
        attributes == [k \in inserted |->
                          [t |-> body[at[k - 1]].t, n |-> body[at[k - 1]].n, at |-> at[k - 1]]]
        count      == Len(attributes)
        consumed   == (\A k \in inserted : Passed(k)) /\ at[count] = Len(body) + 1
    IN  [r EXCEPT !.attributes = attributes,
                  !.indexFingerprint = LastOf(attributes, "Fingerprint"),
                  !.indexMessageIntegrity = LastOf(attributes, "MessageIntegrity"),
                  !.state = IF consumed THEN "BodyValidated" ELSE "ParseError"]

(* Mutant: bytes beyond a complete message are overlooked                  *)
CheckBodyAtLeast(r, w) ==
    IF r.state = "HeaderValidated" /\ r.size >= r.length + STUN_HEADER_SIZE
    THEN ReadBody(r, w) ELSE r

(* Is the message all there, or more than that?                            *)
CheckBody(r, w) ==
    LET whole == r.length + STUN_HEADER_SIZE
    IN  IF r.state = "HeaderValidated" /\ r.size = whole THEN ReadBody(r, w)
        ELSE IF r.state \in {"HeaderValidated", "BodyValidated"} /\ r.size > whole
             THEN [r EXCEPT !.state = "ParseError"]
        ELSE r

AddBytes(r, w, n) ==
    LET grown == [r EXCEPT !.size = @ + n]
    IN  IF r.state = "ParseError" \/ n = 0 THEN r
        ELSE CheckBody(IF r.state = "HeaderNotRead" /\ grown.size >= STUN_HEADER_SIZE
                       THEN ReadHeader(grown, w) ELSE grown, w)

-----------------------------------------------------------------------------
(* The table keeps duplicates and finds the last one inserted              *)
Lookup(r, t) == LastOf(r.attributes, t)

(* The value of attribute i                                                *)
ValueOf(r, w, i) == w.words[r.attributes[i].at + 1].v

(* The bytes the reader computes the CRC of: all but the last eight,       *)
(* assumed to be the fingerprint                                           *)
CrcCovers(r, w) == Covered(w, SubSeq(w.words, 1, Len(Body(r, w)) - 2))

(* Mutant: the checksum of the words alone                                 *)
CrcOfWordsMatches(r, w, v) == v[1] = "crc" /\ v[3].words = CrcCovers(r, w).words

CrcMatches(r, w, v) == v = <<"crc", 0, CrcCovers(r, w)>>

IsFingerprintAttributeValid(r, w) ==
    LET i == Lookup(r, "Fingerprint")
    IN  /\ i # 0
        /\ r.attributes[i].n = 4
        /\ r.state = "BodyValidated"
        /\ CrcMatches(r, w, ValueOf(r, w, i))

(* Mutant: anything may follow                                             *)
AnythingFollows(r) == r.indexMessageIntegrity <= Len(r.attributes)

(* Only a fingerprint may follow                                           *)
NothingElseFollows(r) ==
    LET last == Len(r.attributes)
    IN  \/ r.indexMessageIntegrity = last
        \/ r.indexMessageIntegrity = last - 1 /\ r.indexFingerprint = last

(* Mutant: the length as it was received                                   *)
LengthReceived(r, w) == w.length

(* The eight bytes of a fingerprint were not there when it was signed      *)
LengthSigned(r, w) ==
    IF r.indexMessageIntegrity = Len(r.attributes) - 1 THEN w.length - 8 ELSE w.length

ValidateMessageIntegrity(r, w, key) ==
    LET i        == Lookup(r, "MessageIntegrity")
        at       == r.attributes[i].at
        computed == <<"hmac", key, Covered([w EXCEPT !.length = LengthSigned(r, w)],
                                           SubSeq(w.words, 1, at - 1))>>
    IN  /\ r.state = "BodyValidated"
        /\ r.attributes # <<>>
        /\ r.indexMessageIntegrity # 0
        /\ r.attributes[i].n = HMAC_SIZE
        /\ NothingElseFollows(r)
        /\ SubSeq(w.words, at + 1, at + HMAC_SIZE \div 4) = Value(computed, HMAC_SIZE \div 4)

(* The address in the attribute of type t, or <<>>: too short for its      *)
(* family, or not there                                                    *)
GetAddressHelper(r, w, t) ==
    LET i == Lookup(r, t)
        v == ValueOf(r, w, i)
    IN  IF /\ i # 0
           /\ r.attributes[i].n >= 8
           /\ v[1] = "addr"
           /\ r.attributes[i].n >= (IF v[2].family = 4 THEN 8 ELSE 20)
        THEN v ELSE <<>>

(* First the attribute of RFC 5389, then the one legacy servers send       *)
OneOf(r, w, t, legacy) ==
    LET v == GetAddressHelper(r, w, t)
    IN  IF v # <<>> THEN v ELSE GetAddressHelper(r, w, legacy)

GetMappedAddress(r, w) == GetAddressHelper(r, w, "MappedAddress")
GetOtherAddress(r, w)  == OneOf(r, w, "OtherAddress", "ChangedAddress")

GetXorMappedAddress(r, w) ==
    LET v == OneOf(r, w, "XorMappedAddress", "XorMappedAddressOptional")
    IN  IF v = <<>> THEN <<>> ELSE ApplyStunXorMap(v, r.tid)

(* The two values of a fixed size; an attribute of another size is refused,*)
(* and legacy mode writes the port with its padding counted                *)
GetResponsePort(r)  == LET i == Lookup(r, "ResponsePort")  IN i # 0 /\ r.attributes[i].n = 2
GetChangeRequest(r) == LET i == Lookup(r, "ChangeRequest") IN i # 0 /\ r.attributes[i].n = 4
=============================================================================
