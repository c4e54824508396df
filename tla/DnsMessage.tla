----------------------------- MODULE DnsMessage -----------------------------
(***************************************************************************)
(* The DNS message codec of resolver.rs and what dns_proxy.rs makes of a   *)
(* message.  A message on the wire is a sequence of bytes, a name a        *)
(* sequence of character codes with its dots, and offsets count from zero  *)
(* as in the code.  Bad is what a decoder returns for an error.            *)
(***************************************************************************)
EXTENDS Integers, Sequences, FiniteSets, SequencesExt

CONSTANT Bad

Dot == 46
TYPE_A == 1
TYPE_AAAA == 28
TYPE_OPT == 41
FLAG_RD == 256
FLAG_QR == 32768
FLAG_TC == 512
EDNS0_SUBNET == 8
DEFAULT_UDP_SIZE == 1232

At(buf, pos) == buf[pos + 1]
Bytes(buf, pos, n) == SubSeq(buf, pos + 1, pos + n)
U16(n) == <<n \div 256, n % 256>>
be16(buf, pos) == IF pos + 2 > Len(buf) THEN Bad ELSE 256 * At(buf, pos) + At(buf, pos + 1)

\* A 32-bit number as two halves: no TTL of the model needs the upper one.
U32(n) == <<0, 0>> \o U16(n)
be32(buf, pos) == IF pos + 4 > Len(buf) THEN Bad ELSE be16(buf, pos + 2)

fqdn(name) == IF name # <<>> /\ Last(name) = Dot THEN name ELSE Append(name, Dot)

RECURSIVE Split(_)
Split(name) == LET dot == SelectInSeq(name, LAMBDA ch : ch = Dot)
               IN IF dot = 0 THEN <<name>> ELSE <<SubSeq(name, 1, dot - 1)>> \o Split(SubSeq(name, dot + 1, Len(name)))
Labels(name) == SelectSeq(Split(name), LAMBDA l : l # <<>>)

encode_name(name) ==
    IF \E i \in DOMAIN Labels(name) : Len(Labels(name)[i]) > 63 THEN Bad
    ELSE FoldLeft(LAMBDA out, l : out \o <<Len(l)>> \o l, <<>>, Labels(name)) \o <<0>>

\* One step of decode_name at pos; end is the offset behind the name in the
\* original stream once it is known, and steps are limited by a budget.
RECURSIVE NameAt(_, _, _, _, _)
NameAt(buf, pos, name, end, budget) ==
    IF budget = 0 \/ pos >= Len(buf) THEN Bad
    ELSE LET len == At(buf, pos) IN
      CASE len = 0 -> [name |-> IF name = <<>> THEN <<Dot>> ELSE name,
                       end |-> IF end = 0 THEN pos + 1 ELSE end]
        [] len \in 1 .. 63 ->
             IF pos + 1 + len > Len(buf) THEN Bad
             ELSE NameAt(buf, pos + 1 + len, Append(name \o Bytes(buf, pos + 1, len), Dot), end, budget - 1)
        [] len >= 192 ->
             IF pos + 2 > Len(buf) THEN Bad
             ELSE LET ptr == 256 * (len - 192) + At(buf, pos + 1)
                  IN IF ptr >= Len(buf) THEN Bad
                     ELSE NameAt(buf, ptr, name, IF end = 0 THEN pos + 2 ELSE end, budget - 1)
        [] OTHER -> Bad

\* mutant: a second pointer moves the end of the name again.
RECURSIVE NameRejumps(_, _, _, _, _)
NameRejumps(buf, pos, name, end, budget) ==
    IF budget = 0 \/ pos >= Len(buf) THEN Bad
    ELSE LET len == At(buf, pos) IN
      IF len = 0 THEN [name |-> IF name = <<>> THEN <<Dot>> ELSE name, end |-> IF end = 0 THEN pos + 1 ELSE end]
      ELSE IF len < 64
      THEN IF pos + 1 + len > Len(buf) THEN Bad
           ELSE NameRejumps(buf, pos + 1 + len, Append(name \o Bytes(buf, pos + 1, len), Dot), end, budget - 1)
      ELSE IF len < 192 \/ pos + 2 > Len(buf) \/ At(buf, pos + 1) >= Len(buf) THEN Bad
      ELSE NameRejumps(buf, At(buf, pos + 1), name, pos + 2, budget - 1)
decode_name_rejumps(buf, start) == NameRejumps(buf, start, <<>>, 0, Len(buf) + 1)

decode_name(buf, start) == NameAt(buf, start, <<>>, 0, Len(buf) + 1)

-----------------------------------------------------------------------------
(* Messages.                                                               *)

Question(name, qtype) == [name |-> fqdn(name), qtype |-> qtype, qclass |-> 1]
query(id, name, qtype) ==
    [id |-> id, flags |-> FLAG_RD, questions |-> <<Question(name, qtype)>>, answers |-> <<>>,
     authorities |-> <<>>, additionals |-> <<>>]

EncodeRr(rr) == encode_name(rr.name) \o U16(rr.rtype) \o U16(rr.rclass) \o U32(rr.ttl)
                \o U16(Len(rr.rdata)) \o rr.rdata
EncodeSection(rrs) == FoldLeft(LAMBDA out, rr : out \o EncodeRr(rr), <<>>, rrs)

\* Message::encode, which fails when a name does.
Records(m) == m.answers \o m.authorities \o m.additionals
encode(m) ==
    IF \E r \in Range(m.questions) \cup Range(Records(m)) : encode_name(r.name) = Bad
    THEN Bad
    ELSE U16(m.id) \o U16(m.flags) \o U16(Len(m.questions)) \o U16(Len(m.answers))
         \o U16(Len(m.authorities)) \o U16(Len(m.additionals))
         \o FoldLeft(LAMBDA out, q : out \o encode_name(q.name) \o U16(q.qtype) \o U16(q.qclass), <<>>, m.questions)
         \o EncodeSection(Records(m))

\* The readers carry the offset, what they have read of a section, and the
\* sections before it; Bad stays Bad.
QuestionAt(buf, got, n) ==
    IF n = Bad THEN Bad
    ELSE IF n.end + 4 > Len(buf) THEN Bad
    ELSE [got EXCEPT !.pos = n.end + 4,
                     !.all = Append(@, [name |-> n.name, qtype |-> be16(buf, n.end), qclass |-> be16(buf, n.end + 2)])]
DecodeQuestion(buf, got) == IF got = Bad THEN Bad ELSE QuestionAt(buf, got, decode_name(buf, got.pos))

RrAt(buf, got, n) ==
    IF n = Bad THEN Bad
    ELSE IF n.end + 10 > Len(buf) THEN Bad
    ELSE IF n.end + 10 + be16(buf, n.end + 8) > Len(buf) THEN Bad
    ELSE [got EXCEPT !.pos = n.end + 10 + be16(buf, n.end + 8),
                     !.all = Append(@, [name |-> n.name, rtype |-> be16(buf, n.end), rclass |-> be16(buf, n.end + 2),
                                        ttl |-> be32(buf, n.end + 4),
                                        rdata |-> Bytes(buf, n.end + 10, be16(buf, n.end + 8))])]
DecodeRr(buf, got) == IF got = Bad THEN Bad ELSE RrAt(buf, got, decode_name(buf, got.pos))

DecodeQuestions(buf, count, from) ==
    FoldLeft(LAMBDA got, i : DecodeQuestion(buf, got), from, [i \in 1 .. count |-> i])
DecodeSection(buf, count, from) ==
    FoldLeft(LAMBDA got, i : DecodeRr(buf, got), from, [i \in 1 .. count |-> i])
Restart(got) == IF got = Bad THEN Bad ELSE [pos |-> got.pos, all |-> <<>>, read |-> Append(got.read, got.all)]

\* Message::decode: the sections one after the other, each from where the one
\* before it ends.
Sections(buf) ==
    DecodeSection(buf, be16(buf, 10), Restart(
        DecodeSection(buf, be16(buf, 8), Restart(
            DecodeSection(buf, be16(buf, 6), Restart(
                DecodeQuestions(buf, be16(buf, 4), [pos |-> 12, all |-> <<>>, read |-> <<>>])))))))
Decoded(buf, got) ==
    IF got = Bad THEN Bad
    ELSE [id |-> be16(buf, 0), flags |-> be16(buf, 2), questions |-> got.read[1], answers |-> got.read[2],
          authorities |-> got.read[3], additionals |-> got.all]
decode(buf) == IF Len(buf) < 12 THEN Bad ELSE Decoded(buf, Sections(buf))

-----------------------------------------------------------------------------
(* What is made of a message.                                              *)

Opts(m) == SelectSeq(m.additionals, LAMBDA rr : rr.rtype = TYPE_OPT)
NoSize == 0 - 1
edns0_udp_size(m) == IF Opts(m) = <<>> THEN NoSize ELSE Opts(m)[1].rclass
remove_opt(m) == [m EXCEPT !.additionals = SelectSeq(@, LAMBDA rr : rr.rtype # TYPE_OPT)]
Addresses(rrs) == SelectSeq(rrs, LAMBDA rr : \/ rr.rtype = TYPE_A /\ Len(rr.rdata) = 4
                                             \/ rr.rtype = TYPE_AAAA /\ Len(rr.rdata) = 16)
answer_ips(m) == [i \in 1 .. Len(Addresses(m.answers)) |-> Addresses(m.answers)[i].rdata]

edns0_subnet_opt(ip, udp_size) ==
    LET option == U16(IF Len(ip) = 4 THEN 1 ELSE 2) \o <<8 * Len(ip), 0>> \o ip
    IN [name |-> <<Dot>>, rtype |-> TYPE_OPT, rclass |-> udp_size, ttl |-> 0,
        rdata |-> U16(EDNS0_SUBNET) \o U16(Len(option)) \o option]

RECURSIVE SubnetAt(_, _)
SubnetAt(rdata, pos) ==
    IF pos + 4 > Len(rdata) THEN Bad
    ELSE LET len == be16(rdata, pos + 2) IN
         IF pos + 4 + len > Len(rdata) THEN Bad
         ELSE IF be16(rdata, pos) = EDNS0_SUBNET /\ len >= 4
         THEN [family |-> be16(rdata, pos + 4), netmask |-> At(rdata, pos + 6), addr |-> Bytes(rdata, pos + 8, len - 4)]
         ELSE SubnetAt(rdata, pos + 4 + len)
parse_edns0_subnet(rr) == IF rr.rtype # TYPE_OPT THEN Bad ELSE SubnetAt(rr.rdata, 0)

\* The query exchange sends when it has a source address to announce.
Outbound(mq, ip) ==
    LET size == IF edns0_udp_size(mq) = NoSize THEN DEFAULT_UDP_SIZE ELSE edns0_udp_size(mq)
    IN encode([remove_opt(mq) EXCEPT !.additionals = Append(@, edns0_subnet_opt(ip, size))])

set_msg_id(buf, id) == IF Len(buf) >= 2 THEN U16(id) \o SubSeq(buf, 3, Len(buf)) ELSE buf

\* The empty answer that sends a UDP client to TCP.
Truncated(mq) ==
    IF mq = Bad THEN Bad
    ELSE encode([mq EXCEPT !.flags = FLAG_QR + FLAG_TC + (IF (mq.flags \div FLAG_RD) % 2 = 1 THEN FLAG_RD ELSE 0),
                           !.answers = <<>>, !.authorities = <<>>, !.additionals = <<>>])
truncated_response(buf) == Truncated(decode(buf))

-----------------------------------------------------------------------------
(* The parameter of a DoH request, and the address of a name server.       *)

Hex(ch) == IF ch \in 48 .. 57 THEN ch - 48 ELSE IF ch \in 97 .. 102 THEN ch - 87
           ELSE IF ch \in 65 .. 70 THEN ch - 55 ELSE Bad
Percent == 37

RECURSIVE percent_decode(_)
percent_decode(t) ==
    IF t = <<>> THEN <<>>
    ELSE IF t[1] = Percent /\ Len(t) > 2 /\ Hex(t[2]) # Bad /\ Hex(t[3]) # Bad
    THEN <<16 * Hex(t[2]) + Hex(t[3])>> \o percent_decode(SubSeq(t, 4, Len(t)))
    ELSE <<t[1]>> \o percent_decode(Tail(t))

\* What comes before and after the first ch in t; nothing after if there is none.
Before(t, ch) == LET i == SelectInSeq(t, LAMBDA c : c = ch) IN IF i = 0 THEN t ELSE SubSeq(t, 1, i - 1)
After(t, ch) == LET i == SelectInSeq(t, LAMBDA c : c = ch) IN IF i = 0 THEN <<>> ELSE SubSeq(t, i + 1, Len(t))

\* The first pair `key=value` behind the question mark, by its key.
RECURSIVE PairOf(_, _)
PairOf(pairs, key) ==
    IF Before(Before(pairs, 38), 61) = key THEN percent_decode(After(Before(pairs, 38), 61))
    ELSE IF 38 \notin Range(pairs) THEN Bad ELSE PairOf(After(pairs, 38), key)
query_param(target, key) == IF 63 \notin Range(target) THEN Bad ELSE PairOf(After(target, 63), key)

Colons(t) == Cardinality({i \in DOMAIN t : t[i] = 58})
ensure_port(addr, port) ==
    IF addr = <<>> THEN addr
    ELSE IF addr[1] = 91
    THEN IF \E i \in 1 .. Len(addr) - 1 : addr[i] = 93 /\ addr[i + 1] = 58 THEN addr ELSE addr \o <<58>> \o port
    ELSE CASE Colons(addr) = 0 -> addr \o <<58>> \o port
           [] Colons(addr) = 1 -> addr
           [] OTHER -> <<91>> \o addr \o <<93, 58>> \o port

host_of(addr) ==
    IF addr # <<>> /\ addr[1] = 91 /\ 93 \in Range(addr) THEN Before(Tail(addr), 93)
    ELSE IF Colons(addr) = 1 THEN Before(addr, 58) ELSE addr
====
