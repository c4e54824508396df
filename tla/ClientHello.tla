----------------------------- MODULE ClientHello -----------------------------
(***************************************************************************)
(* The TLS hellos that rt makes and takes apart, byte by byte: the ones    *)
(* that the obfuscating transports open with (obfs_transport.rs, obfs.rs), *)
(* and the ClientHello of somebody else's client, in which sni.rs hides    *)
(* the server name behind a decoy and from which it is restored.           *)
(*                                                                         *)
(* Something that the code may not find is a set of at most one element.   *)
(* Random bytes are zero.  CRC-32 is some other sum here: all that is     *)
(* asked of it is that it goes with the name.                              *)
(***************************************************************************)
EXTENDS Naturals, Sequences, SequencesExt

be16(n) == <<n \div 256, n % 256>>
At16(s, i) == 256 * s[i] + s[i + 1]
Zeros(n) == [i \in 1..n |-> 0]
Has(s, n) == Len(s) >= n
Skip(s, n) == SubSeq(s, n + 1, Len(s))

EXT_SERVER_NAME == 0
EXT_SESSION_TICKET == 35
EXT_GOST_HOST == 65534
TLS_HANDSHAKE == 22

-------------------------------------------------------------------------------
(* Making hellos.                                                          *)

put_ext(type, data) == be16(type) \o be16(Len(data)) \o data
sni_body(name) == be16(Len(name) + 3) \o <<0>> \o be16(Len(name)) \o name
record(type, payload) == <<type, 3, 1>> \o be16(Len(payload)) \o payload
Handshake(type, body) == <<type, 0>> \o be16(Len(body)) \o body
Extensions(exts) == LET block == FlattenSeq([i \in DOMAIN exts |-> put_ext(exts[i][1], exts[i][2])])
                    IN be16(Len(block)) \o block

\* build_client_hello: the payload is the session ticket.  (Of the extensions
\* without a meaning here, one with a body and one without are kept.)
build_client_hello(host, payload) ==
  record(TLS_HANDSHAKE, Handshake(1,
    <<3, 3>> \o Zeros(32) \o <<32>> \o [i \in 1..32 |-> i] \o be16(20) \o Zeros(20) \o <<1, 0>>
      \o Extensions(<< <<EXT_SESSION_TICKET, payload>>, <<EXT_SERVER_NAME, sni_body(host)>>,
                       <<11, <<3, 1, 0, 2>> >>, <<23, <<>> >> >>)))

\* build_server_reply: a ServerHello with the client's session, and a
\* ChangeCipherSpec.
build_server_reply(session_id) ==
  record(TLS_HANDSHAKE, Handshake(2,
    <<3, 3>> \o Zeros(32) \o <<Len(session_id)>> \o session_id \o <<204, 168, 0>>
      \o Extensions(<< <<65281, <<0>> >>, <<23, <<>> >>, <<11, <<1, 0>> >> >>)))
    \o record(20, <<1>>)

\* build_sni_extension and build_fake_client_hello.
build_sni_extension(host) == be16(0) \o be16(Len(host) + 5) \o sni_body(host)
build_fake_client_hello(host) ==
  LET ext == build_sni_extension(host) IN
  record(TLS_HANDSHAKE, Handshake(1,
    <<3, 3>> \o Zeros(32) \o <<0>> \o be16(8) \o Zeros(8) \o <<1, 0>> \o be16(Len(ext)) \o ext))

\* build_fake_server_hello.
build_fake_server_hello ==
  record(TLS_HANDSHAKE, Handshake(2, <<3, 3>> \o Zeros(32) \o <<0, 0, 47, 0>>))

-------------------------------------------------------------------------------
(* The name that travels hidden: base64url(crc32(name), base64url(name)).  *)

crc32_ieee(s) == be16(FoldLeft(LAMBDA h, b : (31 * h + b) % 65521, 7, s)) \o be16(Len(s))

\* The alphabet of URL_SAFE_NO_PAD.
Letter(v) == IF v < 26 THEN 65 + v ELSE IF v < 52 THEN 71 + v ELSE IF v < 62 THEN v - 4
             ELSE IF v = 62 THEN 45 ELSE 95
Sextet == [c \in {Letter(v) : v \in 0..63} |-> CHOOSE v \in 0..63 : Letter(v) = c]

Or0(s, i) == IF i \in DOMAIN s THEN s[i] ELSE 0
encode64(s) ==
  [i \in 1..((8 * Len(s) + 5) \div 6) |->
     LET bit == 6 * (i - 1)  b == bit \div 8 + 1
     IN Letter(((256 * s[b] + Or0(s, b + 1)) \div 2^(10 - (bit % 8))) % 64)]

decode64(s) ==
  LET n == (6 * Len(s)) \div 8
      v == [i \in DOMAIN s |-> Sextet[s[i]]]
      byte(j) == LET bit == 8 * (j - 1)  d == bit \div 6 + 1
                 IN ((4096 * v[d] + 64 * Or0(v, d + 1) + Or0(v, d + 2)) \div 2^(10 - (bit % 6))) % 256
  IN IF \E i \in DOMAIN s : s[i] \notin DOMAIN Sextet THEN {}
     ELSE IF Len(s) % 4 = 1 \/ (s # <<>> /\ v[Len(s)] % 2^(6 * Len(s) - 8 * n) # 0) THEN {}
     ELSE {[j \in 1..n |-> byte(j)]}

encode_server_name(name) == encode64(crc32_ieee(name) \o encode64(name))

\* A variant: the checksum is not compared.
decode_server_name_unchecked(s) ==
  UNION {IF Has(outer, 4) THEN decode64(Skip(outer, 4)) ELSE {} : outer \in decode64(s)}

\* decode_server_name: nothing when the checksum does not go with the name.
decode_server_name(s) ==
  UNION {IF ~Has(outer, 4) THEN {}
         ELSE {inner \in decode64(Skip(outer, 4)) : crc32_ieee(inner) = SubSeq(outer, 1, 4)}
         : outer \in decode64(s)}

-------------------------------------------------------------------------------
(* Taking a ClientHello apart.  `hello` is the handshake message with its  *)
(* header of four bytes; behind the version and the random bytes stand the *)
(* session, the cipher suites, the compression methods and the extensions. *)

\* A field with a length of n bytes (1 or 2) at i, if the length is there: where
\* the field begins and how long it says it is.
Field(s, i, n) ==
  IF ~Has(s, i + n - 1) THEN {}
  ELSE {[from |-> i + n, len |-> IF n = 1 THEN s[i] ELSE At16(s, i)]}
After(fields, s, n) == UNION {Field(s, f.from + f.len, n) : f \in fields}
ExtensionsOf(hello) == After(After(After(Field(hello, 39, 1), hello, 2), hello, 1), hello, 2)

\* session_id_of: nothing found is the empty session.
session_id_of(hello) ==
  LET found == {f \in Field(hello, 39, 1) : Has(hello, f.from + f.len - 1)}
  IN IF found = {} THEN <<>>
     ELSE LET f == CHOOSE f \in found : TRUE IN SubSeq(hello, f.from, f.from + f.len - 1)

\* extensions_span: the block of extensions, if it is all there.
extensions_span(hello) ==
  {f \in ExtensionsOf(hello) : Has(hello, f.from + f.len - 1)}

\* parse_extensions: pairs of type and body; up to three stray bytes are dropped.
RECURSIVE parse_extensions(_)
parse_extensions(block) ==
  IF ~Has(block, 4) THEN {<<>>}
  ELSE LET len == At16(block, 3) IN
       IF ~Has(block, 4 + len) THEN {}
       ELSE {<< <<At16(block, 1), SubSeq(block, 5, 4 + len)>> >> \o rest :
               rest \in parse_extensions(Skip(block, 4 + len))}

\* session_ticket_of: a block that is cut short is read as far as it goes.
session_ticket_of(hello) ==
  UNION {LET end == IF Has(hello, f.from + f.len - 1) THEN f.from + f.len - 1 ELSE Len(hello)
         IN UNION {LET t == SelectInSeq(exts, LAMBDA e : e[1] = EXT_SESSION_TICKET)
                   IN IF t = 0 THEN {} ELSE {exts[t][2]} :
                   exts \in parse_extensions(SubSeq(hello, f.from, end))} :
         f \in ExtensionsOf(hello)}

\* sni_name, and the empty name when there is none.
sni_name(body) ==
  IF Has(body, 5) /\ Has(body, 5 + At16(body, 4)) THEN SubSeq(body, 6, 5 + At16(body, 4)) ELSE <<>>

\* A variant: the private extension is read and left in.
TakePrivate_keeps(exts, host) ==
  [exts |-> exts,
   host |-> LET i == SelectInSeq(exts, LAMBDA e : e[1] = EXT_GOST_HOST) IN
            IF i = 0 \/ decode_server_name(exts[i][2]) = {} THEN host
            ELSE CHOOSE x \in decode_server_name(exts[i][2]) : TRUE]

\* The server's half of the rewrite: every private extension that decodes is
\* taken out, the last one names the host.
Private(e) == IF e[1] = EXT_GOST_HOST THEN decode_server_name(e[2]) ELSE {}
TakePrivate(exts, host) ==
  [exts |-> SelectSeq(exts, LAMBDA e : Private(e) = {}),
   host |-> FoldLeft(LAMBDA h, e : IF Private(e) = {} THEN h ELSE CHOOSE x \in Private(e) : TRUE,
                     host, exts)]

\* The names are exchanged in the first server-name extension.
SwapName(exts, host, is_client) ==
  LET i == SelectInSeq(exts, LAMBDA e : e[1] = EXT_SERVER_NAME)
      name == sni_name(exts[i][2])
      shown == IF host = <<>> THEN name ELSE host
  IN IF i = 0 THEN [exts |-> exts, host |-> host]
     ELSE [host |-> shown,
           exts |-> (IF shown = <<>> THEN exts
                     ELSE [exts EXCEPT ![i] = <<EXT_SERVER_NAME, sni_body(shown)>>])
                      \o (IF is_client THEN << <<EXT_GOST_HOST, encode_server_name(name)>> >>
                          ELSE <<>>)]

\* rewrite_client_hello: the record with the names exchanged and the lengths of
\* the extensions, the handshake and the record put right, and the host.
Rewritten(rec, hello, f, exts, host, is_client) ==
  LET t == IF is_client THEN [exts |-> exts, host |-> host] ELSE TakePrivate(exts, host)
      n == SwapName(t.exts, t.host, is_client)
      body == SubSeq(hello, 5, f.from - 3) \o Extensions(n.exts) \o Skip(hello, f.from + f.len - 1)
  IN [record |-> SubSeq(rec, 1, 3) \o be16(Len(body) + 4) \o Handshake(hello[1], body),
      host |-> n.host]

rewrite_client_hello(rec, host, is_client) ==
  IF ~Has(rec, 5) \/ rec[1] # TLS_HANDSHAKE \/ ~Has(rec, 5 + At16(rec, 4)) THEN {}
  ELSE LET hello == SubSeq(rec, 6, 5 + At16(rec, 4)) IN
       UNION {{Rewritten(rec, hello, f, exts, host, is_client) :
                 exts \in parse_extensions(SubSeq(hello, f.from, f.from + f.len - 1))} :
              f \in extensions_span(hello)}

\* The loop of extract_sni: the first host name of a server-name extension.
RECURSIVE ScanNames(_, _, _)
ScanNames(hello, pos, end) ==
  LET body == pos + 4 IN
  IF pos + 3 > end \/ ~Has(hello, pos + 3) THEN {}
  ELSE IF At16(hello, pos) # EXT_SERVER_NAME
  THEN ScanNames(hello, body + At16(hello, pos + 2), end)
  ELSE IF ~Has(hello, body + 2) THEN {}
  ELSE IF hello[body + 2] # 0 THEN ScanNames(hello, body + 3 + At16(hello, pos + 2), end)
  ELSE {SubSeq(hello, f.from, f.from + f.len - 1) :
          f \in {g \in Field(hello, body + 3, 2) : Has(hello, g.from + g.len - 1)}}

\* A variant: an incomplete record is looked into.
extract_sni_partial(data) ==
  IF ~Has(data, 6) \/ data[1] # TLS_HANDSHAKE \/ data[6] # 1 THEN {}
  ELSE UNION {ScanNames(Skip(data, 5), f.from, f.from + f.len - 1) : f \in ExtensionsOf(Skip(data, 5))}

\* extract_sni, for a hello that the rewrite cannot take apart: from a record
\* that is whole.
extract_sni(data) ==
  IF ~Has(data, 6) \/ data[1] # TLS_HANDSHAKE \/ ~Has(data, 5 + At16(data, 4)) THEN {}
  ELSE IF data[6] # 1 \/ ~Has(data, 5 + 38) THEN {}
  ELSE UNION {ScanNames(Skip(data, 5), f.from, f.from + f.len - 1) : f \in ExtensionsOf(Skip(data, 5))}
===============================================================================
