------------------------ MODULE StunMessageBuilder ------------------------
(***************************************************************************)
(* CStunMessageBuilder: a STUN message written attribute by attribute into *)
(* a growing CDataStream.                                                  *)
(*                                                                         *)
(* The stream is kept in words of four bytes.  A word says what the reader *)
(* would find in it if it took the word for an attribute header, a type t  *)
(* and a length n, and the value v it holds.  Checksums are the terms they *)
(* are computed from: two are equal exactly when the key and the bytes     *)
(* they cover are.                                                         *)
(***************************************************************************)
EXTENDS Naturals, Sequences

CONSTANTS
    Tids,          \* transaction ids: [first |-> their first word, rest |-> the others]
    STUN_COOKIE,   \* the first word of the ids of RFC 5389
    Addrs,         \* addresses: [family |-> 4 or 6, ip |-> a host and port]
    Classes,       \* the message classes in use
    Keys,          \* keys of MESSAGE-INTEGRITY
    MaxAttributes  \* bound of the model: attributes added to one message

ASSUME BuilderAssumption ==
    /\ \A t \in Tids : DOMAIN t = {"first", "rest"}
    /\ "Request" \in Classes
    /\ \A a \in Addrs : a.family \in {4, 6}
    /\ MaxAttributes \in Nat

STUN_HEADER_SIZE == 20
HMAC_SIZE        == 20

VARIABLES
    msg,           \* the stream: header fields, words and the bytes the last word lacks
    added,         \* history: the attributes added, with the value each carries
    stage          \* what has been written so far

builderVars == <<msg, added, stage>>

-----------------------------------------------------------------------------
Word(t, n, v) == [t |-> t, n |-> n, v |-> v]
Data(v)       == Word("Data", 0, v)

WordsFor(n) == (n + 3) \div 4          \* n bytes padded to the 4-byte boundary

(* A value v of k words: the first carries it, the others are its bulk     *)
Value(v, k) == [i \in 1 .. k |-> Data(IF i = 1 THEN v ELSE <<"more">>)]

(* What comes after the header, in bytes                                   *)
BodySize(m) == 4 * Len(m.words) - m.lacks

FixLengthField(m) == [m EXCEPT !.length = BodySize(m)]

(* What a checksum covers: the header as it stands and the first words     *)
Covered(m, words) ==
    [class |-> m.class, length |-> m.length, tid |-> m.tid, words |-> words]

(* CSocketAddress::ApplyStunXorMap: the port and an IPv4 address are mixed *)
(* with the first word of the id, an IPv6 address with all of it; applied  *)
(* twice it cancels                                                        *)
XorKey(a, tid) == IF a.family = 4 THEN <<tid.first>> ELSE <<tid.first, tid.rest>>

PlainAddress(a) == <<"addr", a, <<>>>>

ApplyStunXorMap(v, tid) ==
    LET key == XorKey(v[2], tid)
    IN  CASE v[3] = <<>> -> <<"addr", v[2], key>>
          [] v[3] = key  -> PlainAddress(v[2])
          [] OTHER       -> <<"addr", v[2], <<"garbled">>>>

EmptyMessage ==
    [class |-> "Request", tid |-> [first |-> 0, rest |-> 0], length |-> 0,
     words |-> <<>>, lacks |-> 0]

(* The handler writes the answer to a legacy request in legacy mode; the   *)
(* client's own ids start with the cookie                                  *)
fLegacyMode == msg.tid.first # STUN_COOKIE

-----------------------------------------------------------------------------
BuilderInit ==
    /\ msg = EmptyMessage
    /\ added = <<>>
    /\ stage = "Empty"

AddHeader(class) ==
    /\ stage = "Empty"
    /\ msg' = [msg EXCEPT !.class = class]
    /\ stage' = "Header"
    /\ UNCHANGED added

AddTransactionId(tid) ==
    /\ stage = "Header"
    /\ msg' = [msg EXCEPT !.tid = tid]
    /\ stage' = "Attributes"
    /\ UNCHANGED added

(* One attribute: a header with length n, then k words of value            *)
Append1(m, t, n, v, k) == [m EXCEPT !.words = @ \o <<Word(t, n, <<>>)>> \o Value(v, k)]

(* In legacy mode the length in an attribute's header counts its padding   *)
AttributeLength(size) == IF fLegacyMode THEN 4 * WordsFor(size) ELSE size

Adding(t, n, v) ==
    /\ stage = "Attributes"
    /\ Len(added) < MaxAttributes
    /\ added' = Append(added, [t |-> t, n |-> n, v |-> v])
    /\ UNCHANGED stage

AddAttribute(t, size, v) ==
    /\ Adding(t, AttributeLength(size), v)
    /\ msg' = Append1(msg, t, AttributeLength(size), v, WordsFor(size))

AddStringAttribute(t) == AddAttribute(t, 6, <<"string">>)

(* The code as two bytes after two of zeros, and the reason "FAILED"       *)
AddErrorCode == AddAttribute("ErrorCode", 10, <<"error">>)

(* A list of one attribute type, as the handler sends it: legacy mode      *)
(* repeats it to fill the word, otherwise nothing is padded                *)
AddUnknownAttributes ==
    LET n == IF fLegacyMode THEN 4 ELSE 2
    IN  /\ \A i \in DOMAIN added : added[i].t # "UnknownAttributes"
        /\ Adding("UnknownAttributes", n, <<"types">>)
        /\ msg' = [Append1(msg, "UnknownAttributes", n, <<"types">>, 1)
                     EXCEPT !.lacks = 4 - n]

AddMappedAddressImpl(t, v) ==
    LET size == IF v[2].family = 4 THEN 8 ELSE 20
    IN  /\ Adding(t, size, v)
        /\ msg' = Append1(msg, t, size, v, size \div 4)

AddMappedAddress(a) == AddMappedAddressImpl("MappedAddress", PlainAddress(a))

AddXorMappedAddress(a) ==
    AddMappedAddressImpl(IF fLegacyMode THEN "XorMappedAddressOptional"
                         ELSE "XorMappedAddress",
                         ApplyStunXorMap(PlainAddress(a), msg.tid))

AddOtherAddress(a) ==
    AddMappedAddressImpl(IF fLegacyMode THEN "ChangedAddress" ELSE "OtherAddress",
                         PlainAddress(a))

AddResponsePort  == AddAttribute("ResponsePort", 2, <<"port">>)
AddChangeRequest == AddAttribute("ChangeRequest", 4, <<"flags">>)

(* The length field is fixed first, so the code covers a length that       *)
(* already counts the MESSAGE-INTEGRITY attribute itself                   *)
AddMessageIntegrity(key) ==
    LET grown == FixLengthField(Append1(msg, "MessageIntegrity", HMAC_SIZE, <<>>, HMAC_SIZE \div 4))
        code  == <<"hmac", key, Covered(grown, msg.words)>>
    IN  /\ Adding("MessageIntegrity", HMAC_SIZE, code)
        /\ msg' = [Append1(msg, "MessageIntegrity", HMAC_SIZE, code, HMAC_SIZE \div 4)
                     EXCEPT !.length = grown.length]

(* A CRC of everything but the attribute itself, the length counting it    *)
AddFingerprintAttribute ==
    LET grown == FixLengthField(Append1(msg, "Fingerprint", 4, <<>>, 1))
        code  == <<"crc", 0, Covered(grown, msg.words)>>
    IN  /\ Adding("Fingerprint", 4, code)
        /\ msg' = [Append1(msg, "Fingerprint", 4, code, 1) EXCEPT !.length = grown.length]

GetResult ==
    /\ stage = "Attributes"
    /\ msg' = FixLengthField(msg)
    /\ stage' = "Built"
    /\ UNCHANGED added

BuilderNext ==
    \/ \E class \in Classes : AddHeader(class)
    \/ \E tid \in Tids : AddTransactionId(tid)
    \/ \E a \in Addrs : AddMappedAddress(a) \/ AddXorMappedAddress(a) \/ AddOtherAddress(a)
    \/ AddStringAttribute("Nonce")
    \/ AddErrorCode
    \/ AddUnknownAttributes
    \/ AddResponsePort
    \/ AddChangeRequest
    \/ \E key \in Keys : AddMessageIntegrity(key)
    \/ AddFingerprintAttribute
    \/ GetResult
=============================================================================
