---------------------------- MODULE StunExchange ----------------------------
(***************************************************************************)
(* One message from a CStunMessageBuilder to a CStunMessageReader.  It     *)
(* travels as a UDP datagram, handed to AddBytes in one piece, intact or   *)
(* damaged, or over TCP, where TcpClientLoop receives no more than         *)
(* HowManyBytesNeeded says and recv may return less.  Or what arrives was  *)
(* written by some other program.                                          *)
(***************************************************************************)
EXTENDS StunMessageReader

CONSTANTS
    Pieces,        \* what recv may return, unless the rest is shorter
    Following,     \* bytes of later messages waiting behind this one
    ForeignWires   \* datagrams of other programs

(* Whoever wrote them has not the keys.  A fingerprint takes none, and     *)
(* they may carry one, right or wrong                                      *)
ASSUME ForeignAssumption ==
    \A w \in ForeignWires :
        /\ w.length \in Nat /\ w.size \in Nat /\ w.zeroBits \in BOOLEAN
        /\ w.words \in Seq({w.words[i] : i \in DOMAIN w.words})
        /\ w.size <= STUN_HEADER_SIZE + 4 * Len(w.words)
        /\ \A i \in DOMAIN w.words : w.words[i].n \in Nat /\ w.words[i].v[1] # "hmac"
ASSUME TransportAssumption == Pieces \subseteq Nat /\ Following \in Nat

VARIABLES wire, reader, transport

exchangeVars == <<msg, added, stage, wire, reader, transport>>

-----------------------------------------------------------------------------
NoWire ==
    [zeroBits |-> TRUE, class |-> "Request", tid |-> [first |-> 0, rest |-> 0],
     length |-> 0, words |-> <<>>, size |-> 0]

(* The message as the sender hands it to the socket                        *)
Sent ==
    [zeroBits |-> TRUE, class |-> msg.class, tid |-> msg.tid, length |-> msg.length,
     words |-> msg.words, size |-> STUN_HEADER_SIZE + BodySize(msg)]

Noise == <<"noise">>

(* A datagram damaged in one field, one value or the type of one attribute *)
Damaged(w) ==
    {[w EXCEPT !.tid = tid] : tid \in Tids}
        \cup {[w EXCEPT !.class = class] : class \in Classes}
        \cup {[w EXCEPT !.zeroBits = FALSE], [w EXCEPT !.length = @ + 4]}
        \cup {[w EXCEPT !.words[i] = IF @.t = "Data" THEN Data(Noise)
                                     ELSE [@ EXCEPT !.t = "Other"]] : i \in DOMAIN w.words}

ExchangeInit ==
    /\ BuilderInit
    /\ wire = NoWire
    /\ reader \in {Reset(allow) : allow \in BOOLEAN}
    /\ transport = "none"

Build ==
    /\ transport = "none"
    /\ BuilderNext
    /\ UNCHANGED <<wire, reader, transport>>

Send(kind, w) ==
    /\ transport = "none"
    /\ transport' = kind
    /\ wire' = w
    /\ UNCHANGED <<msg, added, stage, reader>>

SendDatagram == stage = "Built" /\ \E w \in {Sent} \cup Damaged(Sent) : Send("udp", w)
SendStream   == stage = "Built" /\ Send("tcp", Sent)
ForeignSends == stage = "Empty" /\ \E w \in ForeignWires : Send("udp", w)

(* UdpClientLoop and the handler's caller: the whole datagram at once      *)
ReceiveDatagram ==
    /\ transport = "udp"
    /\ reader.size = 0
    /\ reader' = AddBytes(reader, wire, wire.size)
    /\ UNCHANGED <<msg, added, stage, wire, transport>>

(* TcpClientLoop: one recv for what the reader still needs                 *)
Recv ==
    LET needed    == HowManyBytesNeeded(reader)
        available == wire.size + Following - reader.size
    IN  /\ transport = "tcp"
        /\ needed > 0
        /\ \E n \in Pieces \cup {needed} :
              /\ n <= needed /\ n <= available
              /\ reader' = AddBytes(reader, wire, n)
        /\ UNCHANGED <<msg, added, stage, wire, transport>>

ExchangeNext ==
    Build \/ SendDatagram \/ SendStream \/ ForeignSends \/ ReceiveDatagram \/ Recv

ExchangeSpec == ExchangeInit /\ [][ExchangeNext]_exchangeVars

-----------------------------------------------------------------------------
(* Words that are attributes end to end: headers at some positions, each   *)
(* sending to the next one and the last to the end                         *)
WellFormed(words) ==
    \E k \in 0 .. MAX_NUM_ATTRIBUTES : \E p \in [1 .. k -> DOMAIN words] :
        LET at(i) == IF i > k THEN Len(words) + 1 ELSE p[i]
        IN  /\ at(1) = 1
            /\ \A i \in 1 .. k :
                  /\ words[p[i]].n <= MAX_STUN_ATTRIBUTE_SIZE
                  /\ at(i + 1) = p[i] + 1 + WordsFor(words[p[i]].n)

(* What the state must be once the first n bytes of w are in, however they *)
(* came                                                                    *)
Verdict(w, n, allow) ==
    LET whole      == STUN_HEADER_SIZE + w.length
        goodHeader == /\ w.zeroBits
                      /\ w.length % 4 = 0
                      /\ w.length <= MAX_STUN_MESSAGE_SIZE
                      /\ allow \/ w.tid.first = STUN_COOKIE
    IN  CASE n < STUN_HEADER_SIZE                        -> "HeaderNotRead"
          [] n >= STUN_HEADER_SIZE /\ ~goodHeader        -> "ParseError"
          [] n >= STUN_HEADER_SIZE /\ goodHeader /\ n < whole -> "HeaderValidated"
          [] goodHeader /\ n > whole                     -> "ParseError"
          [] goodHeader /\ n = whole                     ->
                IF WellFormed(SubSeq(w.words, 1, w.length \div 4))
                THEN "BodyValidated" ELSE "ParseError"

(* The parser's answer depends on the bytes alone, never on how recv cut   *)
(* them up, and accepts exactly the well-formed messages within the limits *)
(* (CStunMessageReader::AddBytes, ReadHeader, ReadBody).                   *)
StateIsFunctionOfBytes ==
    reader.state = Verdict(wire, reader.size, reader.fAllowLegacyFormat)

(* Reading as HowManyBytesNeeded says consumes this message and nothing of *)
(* the one behind it, so the asserts in HowManyBytesNeeded hold            *)
(* (stunreader.cpp:78-83) and a connection stays in step.                  *)
ReadsOneMessage ==
    transport = "tcp" =>
        /\ reader.size <= wire.size
        /\ reader.state = "HeaderNotRead"   => reader.size < STUN_HEADER_SIZE
        /\ reader.state = "HeaderValidated" => reader.size < wire.size
        /\ reader.state = "BodyValidated"   => reader.size = wire.size

-----------------------------------------------------------------------------
Intact == transport # "none" /\ stage = "Built" /\ wire = Sent

(* The builder leaves the list of unknown attributes, which in RFC mode it *)
(* does not fill up, off the 4-byte boundary it keeps everywhere else      *)
Ragged == ~fLegacyMode /\ \E i \in DOMAIN added : added[i].t = "UnknownAttributes"

(* Messages the reader should take: on 4-byte boundaries, within limits    *)
Readable ==
    /\ ~Ragged
    /\ Len(added) <= MAX_NUM_ATTRIBUTES
    /\ BodySize(msg) <= MAX_STUN_MESSAGE_SIZE
    /\ reader.fAllowLegacyFormat \/ ~fLegacyMode

(* CStunMessageReader reads back what CStunMessageBuilder wrote, in either *)
(* mode: every attribute in order with its length and value, the XOR       *)
(* address is the one the sender gave, and fixed-size values come out,     *)
(* but for a port written in legacy mode.  The one message it refuses is   *)
(* that with a ragged list (stunbuilder.cpp:293), against the rule of both *)
(* files (stunbuilder.cpp:169, stunreader.cpp:214).                        *)
ReadsBackWhatWasBuilt ==
    /\ Intact /\ Ragged /\ reader.size = wire.size => reader.state = "ParseError"
    /\ Intact /\ Readable /\ reader.size = wire.size =>
        /\ reader.state = "BodyValidated"
        /\ reader.class = msg.class /\ reader.tid = msg.tid
        /\ reader.fMessageIsLegacyFormat = fLegacyMode
        /\ Len(reader.attributes) = Len(added)
        /\ \A i \in DOMAIN added :
              /\ reader.attributes[i].t = added[i].t
              /\ reader.attributes[i].n = added[i].n
              /\ ValueOf(reader, wire, i) = added[i].v
        /\ GetResponsePort(reader) <=>
              ~fLegacyMode /\ \E i \in DOMAIN added : added[i].t = "ResponsePort"
        /\ GetChangeRequest(reader) <=> \E i \in DOMAIN added : added[i].t = "ChangeRequest"
        /\ \A i \in DOMAIN added :
              /\ added[i].t \in {"XorMappedAddress", "XorMappedAddressOptional"}
              /\ \A j \in DOMAIN added : j > i => added[j].t # added[i].t
              => GetXorMappedAddress(reader, wire) = PlainAddress(added[i].v[2])

(* A message signed last, or last but for a fingerprint, verifies with the *)
(* key that signed it: the length the builder covers, before the           *)
(* fingerprint was there, is the length the reader works out.              *)
SignedMessagesVerify ==
    LET n == Len(added)
    IN  Intact /\ Readable /\ reader.size = wire.size =>
            \A i \in {n - 1, n} \cap DOMAIN added :
                /\ added[i].t = "MessageIntegrity"
                /\ i = n \/ added[n].t = "Fingerprint"
                => ValidateMessageIntegrity(reader, wire, added[i].v[2])

(* When MESSAGE-INTEGRITY verifies, the holder of the key signed this id   *)
(* and class, and every attribute the reader can look up, save the         *)
(* fingerprint behind the signature, as the builder wrote it.              *)
IntegrityCoversMessage ==
    \A key \in Keys :
        ValidateMessageIntegrity(reader, wire, key) =>
            /\ stage = "Built"
            /\ reader.tid = msg.tid /\ reader.class = msg.class
            /\ \E s \in DOMAIN added :
                  /\ added[s].t = "MessageIntegrity" /\ added[s].v[2] = key
                  /\ \A i \in DOMAIN reader.attributes :
                        \/ i <= s /\ reader.attributes[i].t = added[i].t
                                  /\ ValueOf(reader, wire, i) = added[i].v
                        \/ i = s + 1 /\ reader.attributes[i].t = "Fingerprint"

(* The fingerprint of a built message must be the last attribute, else it  *)
(* does not check (stunreader.cpp:104-105); when it does, nothing was      *)
(* damaged on the way.  It takes no key: of who wrote a message, or of     *)
(* another program's, it says nothing.                                     *)
FingerprintProtects ==
    stage = "Built" /\ IsFingerprintAttributeValid(reader, wire) =>
        /\ wire = Sent
        /\ reader.attributes[Len(reader.attributes)].t = "Fingerprint"
=============================================================================
