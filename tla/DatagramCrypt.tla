--------------------------- MODULE DatagramCrypt ---------------------------
(***************************************************************************)
(* The layers between a datagram socket and the protocol above it: the     *)
(* nonce, checksum and cipher of a KCP packet (kcp.rs), the AES-GCM layer  *)
(* of QUIC's ?cipher= (quic_transport.rs), and the configurations that     *)
(* say how large a packet may be.                                          *)
(*                                                                         *)
(* A KCP packet is a sequence of bits, with the sizes of its fields scaled *)
(* down; a block cipher is any function on blocks, a keystream any         *)
(* sequence.  An AES-GCM datagram is a record: it opens with the key that  *)
(* sealed it, and when it is whole.                                        *)
(***************************************************************************)
EXTENDS Integers, Sequences, SequencesExt

\* NONCE_SIZE, CRYPT_HEADER_SIZE, the clear prefix of salsa20, the block size
\* of a cipher, IKCP_OVERHEAD, the FEC header, and the longest packet.
NonceBits == 3
SumBits == 2
HeaderBits == NonceBits + SumBits
ClearBits == 2
BlockBits == 2
SegmentBits == 2
FecBits == 2
LimitBits == 11

Xor(a, b) == (a + b) % 2
XorSeq(s, t) == [i \in DOMAIN s |-> IF i \in DOMAIN t THEN Xor(s[i], t[i]) ELSE s[i]]
Drop(s, n) == SubSeq(s, n + 1, Len(s))

\* Any function on blocks, any initial vector, any keystream for a nonce.
encrypt_block(b) == <<1 - b[2], b[1]>>
InitialVector == <<1, 0>>
Keystream(nonce, n) == [i \in 1 .. n |-> (i + nonce[1] + 2 * nonce[2]) % 2]
XorTable == [i \in 1 .. LimitBits |-> i % 2]

-----------------------------------------------------------------------------
(* Crypt.                                                                  *)

\* blockCrypt: an unknown name is aes.
Crypt_new(name) ==
    CASE name = "none" -> "None"
      [] name = "xor" -> "Xor"
      [] name = "salsa20" -> "Salsa20"
      [] OTHER -> "Cfb"

\* CFB: block i is hidden behind the encryption of ciphertext block i - 1.
RECURSIVE cfb_encrypt(_, _)
cfb_encrypt(tbl, buf) ==
    IF Len(buf) < BlockBits THEN XorSeq(buf, tbl)
    ELSE LET c == XorSeq(SubSeq(buf, 1, BlockBits), tbl)
         IN  c \o cfb_encrypt(encrypt_block(c), Drop(buf, BlockBits))

\* mutant: the keystream is derived from the block just decrypted.
RECURSIVE cfb_decrypt_plain(_, _)
cfb_decrypt_plain(tbl, buf) ==
    IF Len(buf) < BlockBits THEN XorSeq(buf, tbl)
    ELSE LET p == XorSeq(SubSeq(buf, 1, BlockBits), tbl)
         IN  p \o cfb_decrypt_plain(encrypt_block(p), Drop(buf, BlockBits))

RECURSIVE cfb_decrypt(_, _)
cfb_decrypt(tbl, buf) ==
    IF Len(buf) < BlockBits THEN XorSeq(buf, tbl)
    ELSE LET c == SubSeq(buf, 1, BlockBits)
         IN  XorSeq(c, tbl) \o cfb_decrypt(encrypt_block(c), Drop(buf, BlockBits))

\* The first bits are the nonce and stay in the clear.
salsa20_apply(buf) ==
    IF Len(buf) <= ClearBits THEN buf
    ELSE SubSeq(buf, 1, ClearBits)
         \o XorSeq(Drop(buf, ClearBits), Keystream(SubSeq(buf, 1, ClearBits), Len(buf) - ClearBits))

encrypt(kind, buf) ==
    CASE kind = "None" -> buf
      [] kind = "Xor" -> XorSeq(buf, XorTable)
      [] kind = "Salsa20" -> salsa20_apply(buf)
      [] kind = "Cfb" -> cfb_encrypt(encrypt_block(InitialVector), buf)
decrypt(kind, buf) ==
    CASE kind = "Cfb" -> cfb_decrypt(encrypt_block(InitialVector), buf)
      [] OTHER -> encrypt(kind, buf)

\* The checksum of a body: a parity over its odd places and one over the even.
crc32(body) ==
    LET Parity(S) == FoldLeft(LAMBDA acc, i : IF i \in S THEN Xor(acc, body[i]) ELSE acc,
                              0, [i \in DOMAIN body |-> i])
    IN  <<Parity({i \in DOMAIN body : i % 2 = 1}), Parity({i \in DOMAIN body : i % 2 = 0})>>

\* PacketFramer::seal: the checksum covers the body, the cipher everything.
seal(kind, nonce, body) == encrypt(kind, nonce \o crc32(body) \o body)

\* The mark of a shard: data, parity, or none on a packet of a peer without
\* error correction.
fec_flag(body) ==
    CASE Len(body) >= FecBits /\ body[1] = 1 /\ body[2] = 1 -> "data"
      [] Len(body) >= FecBits /\ body[1] = 1 /\ body[2] = 0 -> "parity"
      [] OTHER -> "none"
fec_strip(body) ==
    CASE fec_flag(body) = "data" -> [ok |-> TRUE, segments |-> Drop(body, FecBits)]
      [] fec_flag(body) = "parity" -> [ok |-> FALSE, segments |-> <<>>]
      [] OTHER -> [ok |-> TRUE, segments |-> body]

NoPacket == [ok |-> FALSE, segments |-> <<>>]
packet_unframe(kind, buf) ==
    IF Len(buf) < HeaderBits THEN NoPacket
    ELSE LET plain == decrypt(kind, buf)
             body  == Drop(plain, HeaderBits)
             strip == fec_strip(body)
         IN  IF SubSeq(plain, NonceBits + 1, HeaderBits) # crc32(body) \/ Len(strip.segments) < SegmentBits
             THEN NoPacket ELSE strip

-----------------------------------------------------------------------------
(* The configuration of KCP, with the sizes of kcp.rs.                     *)

CRYPT_HEADER_SIZE == 20
FEC_HEADER_SIZE_PLUS2 == 8
IKCP_OVERHEAD == 24
MTU_LIMIT == 1500

fec_overhead(c) == IF c.datashard > 0 /\ c.parityshard > 0 THEN FEC_HEADER_SIZE_PLUS2 ELSE 0

\* mutant: the room for the FEC header is forgotten.
arq_mtu_no_fec(c) == c.mtu - CRYPT_HEADER_SIZE

arq_mtu(c) == c.mtu - CRYPT_HEADER_SIZE - fec_overhead(c)

\* KcpConfig::default, as far as the fields here go.
kcp_default ==
    [mode |-> "fast", mtu |-> 1350, datashard |-> 10, parityshard |-> 3, sockbuf |-> 4194304, smuxbuf |-> 0,
     streambuf |-> 0, smuxver |-> 1, keepalive |-> 10, tcp |-> FALSE, interval |-> 50, nodelay |-> 0]

\* The presets of the modes, and the fields that follow others.
init(c) ==
    LET preset == CASE c.mode = "normal" -> [c EXCEPT !.nodelay = 0, !.interval = 40]
                    [] c.mode = "fast" -> [c EXCEPT !.nodelay = 0, !.interval = 30]
                    [] c.mode = "fast2" -> [c EXCEPT !.nodelay = 1, !.interval = 20]
                    [] c.mode = "fast3" -> [c EXCEPT !.nodelay = 1, !.interval = 10]
                    [] OTHER -> c
    IN  [preset EXCEPT !.smuxver = IF @ = 0 THEN 1 ELSE @,
                       !.smuxbuf = IF @ = 0 THEN preset.sockbuf ELSE @,
                       !.streambuf = IF @ = 0 THEN preset.sockbuf \div 2 ELSE @]

\* mutant: a version that is not implemented is let through.
mux_verify_any_version(m) ==
    /\ m.version \in {1, 2}
    /\ m.interval > 0 /\ m.timeout >= m.interval
    /\ m.receive > 0 /\ m.stream > 0 /\ m.stream <= m.receive

\* MuxConfig::verify; keep-alives are never disabled and the frame size is
\* never set by a node.
mux_verify(m) ==
    /\ m.version = 1
    /\ m.interval > 0 /\ m.timeout >= m.interval
    /\ m.receive > 0 /\ m.stream > 0 /\ m.stream <= m.receive

mux_default == [version |-> 1, interval |-> 10, timeout |-> 30, receive |-> 4194304, stream |-> 65536]

\* A zero is the default.  The version is an u8.
mux_config_from_values(ver, smuxbuf, streambuf, keepalive) ==
    LET m == [mux_default EXCEPT !.version = IF ver = 0 THEN @ ELSE ver,
                                 !.receive = IF smuxbuf = 0 THEN @ ELSE smuxbuf,
                                 !.stream = IF streambuf = 0 THEN @ ELSE streambuf,
                                 !.interval = IF keepalive = 0 THEN @ ELSE keepalive]
    IN  [ok |-> ver <= 255 /\ mux_verify(m), config |-> m]

\* mux_config_from_node takes a negative number for zero.
mux_config_from_node(ver, smuxbuf, streambuf, keepalive) ==
    LET NonNegative(x) == IF x < 0 THEN 0 ELSE x
    IN  mux_config_from_values(NonNegative(ver), NonNegative(smuxbuf), NonNegative(streambuf),
                               NonNegative(keepalive))

validate(c) ==
    /\ ~c.tcp /\ c.smuxver <= 1
    /\ c.mtu <= MTU_LIMIT
    /\ c.mtu > CRYPT_HEADER_SIZE + fec_overhead(c) + IKCP_OVERHEAD + 1
    /\ mux_config_from_values(c.smuxver, c.smuxbuf, c.streambuf, c.keepalive).ok

\* KcpConfig::from_node: the file, which load() has put through init already,
\* or the defaults, which ?tcp= is added to.
from_node(file, tcp) ==
    LET c == init(IF file.given THEN init(file.config) ELSE [kcp_default EXCEPT !.tcp = tcp])
    IN  [ok |-> validate(c), config |-> c]

-----------------------------------------------------------------------------
(* CipherSocket of QUIC.                                                   *)

\* PacketCipher::seal, one datagram for each segment (try_send).
quic_seal(key, len) == [key |-> key, len |-> len, whole |-> TRUE]

\* PacketCipher::open: too short, damaged or sealed with another key fails.
quic_open(key, d) == d.whole /\ d.key = key

\* mutant: a datagram that does not open ends the receive loop.
RECURSIVE poll_recv_stops(_, _, _)
poll_recv_stops(key, arrived, room) ==
    IF arrived = <<>> \/ ~quic_open(key, Head(arrived)) THEN <<>>
    ELSE (IF Head(arrived).len <= room THEN <<Head(arrived).len>> ELSE <<>>)
         \o poll_recv_stops(key, Tail(arrived), room)

\* What QUIC gets of the datagrams that arrive: those that open and fit.
RECURSIVE poll_recv(_, _, _)
poll_recv(key, arrived, room) ==
    IF arrived = <<>> THEN <<>>
    ELSE (IF quic_open(key, Head(arrived)) /\ Head(arrived).len <= room THEN <<Head(arrived).len>> ELSE <<>>)
         \o poll_recv(key, Tail(arrived), room)

\* quic_config_from_node: keep-alives need keepalive=true, and then have a
\* period; the key is a digest of 32 bytes, which validate() asks for.
quic_config_from_node(n) ==
    [keep_alive |-> n.keepalive, key |-> n.cipher,
     period |-> IF ~n.keepalive THEN 0 ELSE IF n.ttl = 0 THEN 10 ELSE n.ttl,
     idle |-> n.idle]

\* quic_transport_config: zero leaves quinn's default (30 s idle) alone.
quic_transport_config(c) ==
    [idle |-> IF c.idle = 0 THEN 30 ELSE c.idle,
     alive |-> IF c.keep_alive /\ c.period # 0 THEN c.period ELSE 0]

=============================================================================
