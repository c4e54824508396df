------------------------------ MODULE KcpCrypt ------------------------------
(***************************************************************************)
(* The packets and configurations of DatagramCrypt, beside the sessions of *)
(* Kcp that use them: a session of Kcp starts with a configuration that    *)
(* validate() let through, and every packet it sends goes through seal()   *)
(* and packet_unframe().                                                   *)
(***************************************************************************)
EXTENDS Kcp

P == INSTANCE DatagramCrypt

CONSTANTS
    Ciphers,            \* names a node may give for its cipher
    MaxBody,            \* bound: bits of a packet behind its header
    Configs,            \* bound: configurations, as read from a file
    Nodes,              \* bound: QUIC nodes
    Keys, MaxArrivals   \* bounds: QUIC keys, and datagrams that arrive

\* A session has just been configured, for one of the histories.
Configured == bound = (CHOOSE b \in Bounds : TRUE) /\ cl.written = 0 /\ ~cancel /\ net = {}

Bits(n) == [1 .. n -> {0, 1}]
Bodies == UNION {Bits(n) : n \in 0 .. MaxBody}

\* Whatever the cipher, a packet comes out of packet_unframe as it went into
\* seal: whole blocks and a partial last one, packets shorter than a block,
\* with or without the header of a data shard.  Parity shards and bodies too
\* short for a segment are dropped, and so is a packet whose body has been
\* damaged in one place where the cipher does not spread the damage.
PacketsOpen ==
    Configured =>
        \A name \in Ciphers, nonce \in Bits(P!NonceBits), body \in Bodies :
            LET kind == P!Crypt_new(name)
                pkt  == P!seal(kind, nonce, body)
                want == P!fec_strip(body)
                got  == P!packet_unframe(kind, pkt)
            IN  /\ got.ok <=> want.ok /\ Len(want.segments) >= P!SegmentBits
                /\ got.ok => got.segments = want.segments
                /\ kind # "Cfb" =>
                       \A i \in P!HeaderBits + 1 .. Len(pkt) :
                           ~P!packet_unframe(kind, [pkt EXCEPT ![i] = 1 - @]).ok

\* A configuration that from_node lets through leaves room for a segment, and
\* no datagram of it, header and shard header included, is longer than its
\* mtu, than what a peer reads or than the table of the xor cipher.
DatagramsFit ==
    Configured =>
        \A c \in Configs :
            LET k == P!from_node([given |-> TRUE, config |-> c], FALSE) IN
            k.ok => /\ P!arq_mtu(k.config) > P!IKCP_OVERHEAD
                    /\ P!CRYPT_HEADER_SIZE + P!fec_overhead(k.config) + P!arq_mtu(k.config) <= k.config.mtu
                    /\ k.config.mtu <= P!MTU_LIMIT

\* What is accepted can be used: only version 1 of smux, keep-alives more
\* frequent than the timeout, a stream buffer within the session's.  The
\* defaults are accepted in every mode, init() may be applied again, as
\* from_node does after load(), and keepalive=true alone keeps a QUIC session
\* from going idle.
ConfigsUsable ==
    Configured =>
        /\ \A c \in Configs :
               LET k == P!from_node([given |-> TRUE, config |-> c], FALSE)
                   m == P!mux_config_from_node(c.smuxver, c.smuxbuf, c.streambuf, c.keepalive)
               IN  /\ P!init(P!init(c)) = P!init(c)
                   /\ k.ok /\ k.config.streambuf > 0 =>
                          k.config.streambuf <= (IF k.config.smuxbuf = 0 THEN P!mux_default.receive ELSE k.config.smuxbuf)
                   /\ m.ok => /\ m.config.version = 1
                              /\ 0 < m.config.interval /\ m.config.interval <= m.config.timeout
                              /\ 0 < m.config.stream /\ m.config.stream <= m.config.receive
        /\ \A c \in Configs : P!from_node([given |-> TRUE, config |-> [P!kcp_default EXCEPT !.mode = c.mode]], FALSE).ok
        /\ P!from_node([given |-> FALSE, config |-> P!kcp_default], FALSE).ok
        /\ \A n \in Nodes :
               LET t == P!quic_transport_config(P!quic_config_from_node(n)) IN
               /\ t.alive > 0 => n.keepalive
               /\ n.keepalive /\ n.ttl = 0 /\ n.idle = 0 => 0 < t.alive /\ t.alive < t.idle

\* Under ?cipher=, QUIC gets exactly the datagrams that were sealed with its
\* key and arrived whole, in order: a stray one between them, damaged, sealed
\* by a peer with another cipher or too long for the buffer, costs nothing
\* else ("would otherwise end the listener's receive loop").
StraysAreDropped ==
    Configured =>
        LET Datagrams == {[P!quic_seal(k, l) EXCEPT !.whole = w] : k \in Keys, l \in 1 .. 2, w \in BOOLEAN}
        IN  \A key \in Keys, n \in 0 .. MaxArrivals :
                \A ds \in [1 .. n -> Datagrams] :
                    LET good == SelectSeq(ds, LAMBDA d : d.key = key /\ d.whole /\ d.len = 1)
                    IN  P!poll_recv(key, ds, 1) = [i \in DOMAIN good |-> 1]

\* With a configuration that is accepted, packets come out of the cipher layer as
\* they went in and fit a datagram, and a stray datagram disturbs no other.
PacketsSound ==
    PacketsOpen /\ DatagramsFit /\ ConfigsUsable /\ StraysAreDropped

=============================================================================
