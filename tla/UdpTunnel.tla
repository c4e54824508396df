----------------------------- MODULE UdpTunnel -----------------------------
(***************************************************************************)
(* Datagrams over a SOCKS5 hop: the relay loop of a handler (the forward   *)
(* handler of forward.rs or the Shadowsocks UDP handler of ss.rs), the     *)
(* UdpChannel that Chain::dial_udp gives it, the two pump tasks behind the *)
(* channel, the byte stream to the hop, and the loop of the hop's          *)
(* CmdUDPTun handler (socks5.rs), which talks to the world over UDP.       *)
(*                                                                         *)
(* The pumps share one Socks5UdpTunnelConn under a tokio mutex.  A frame   *)
(* is two parts on the stream, its header and its body, so that a reader   *)
(* can be interrupted inside a frame.  Datagrams are numbered in each      *)
(* direction; what matters of one is its address and whether it is empty.  *)
(* A datagram that does not decrypt or parse is one whose address no list  *)
(* allows.  A hop that forwards the tunnel to a hop of its own splices     *)
(* bytes and is not in the model.                                          *)
(***************************************************************************)
EXTENDS Integers, Sequences, Functions

CONSTANTS
    Names,          \* destinations as written: domain names and addresses
    Clients,        \* addresses datagrams to a relay socket come from
    NoAddr,         \* what an unresolvable name resolves to
    Resolve,        \* resolve_udp_addr; an address resolves to itself
    RelayAllows,    \* destinations the lists of the Shadowsocks handler allow
    HopAllows,      \* destinations the lists of the hop allow
    Bypassed,       \* sources the bypass of the hop or the handler drops
    Kinds,          \* bound: which handlers use the tunnel
    Sends,          \* bound: what the client may send, in order
    Replies,        \* bound: what the world may send back, in order
    MaxSend, MaxReply,  \* bounds: their lengths
    ChanCap,        \* capacity of the channels of UdpChannel
    WireCap,        \* bound: parts a direction of the stream buffers
    MaxErrors       \* MAX_CONSECUTIVE_RECV_ERRORS

\* Only a relay socket that faces its client directly (UdpRelay) can tell who
\* sent a datagram, and whether it is a fragment.
Datagrams == [at : Names, empty : BOOLEAN, from : Clients, frag : BOOLEAN]

ASSUME TunnelConstants ==
    /\ NoAddr \notin Names /\ Resolve \in [Names -> Names \cup {NoAddr}]
    /\ RelayAllows \subseteq Names /\ HopAllows \subseteq Names /\ Bypassed \subseteq Names
    /\ Kinds \subseteq {"forward", "ssu", "rudp", "associate"}
    /\ Sends \in SUBSET [1 .. MaxSend -> Datagrams] /\ MaxSend \in Nat
    /\ Replies \in SUBSET [1 .. MaxReply -> Datagrams] /\ MaxReply \in Nat
    /\ ChanCap \in Nat \ {0} /\ WireCap \in Nat \ {0} /\ MaxErrors \in Nat

VARIABLES
    kind, dg, rp,   \* the handler, and the datagrams of each direction
    relay,          \* the handler: program counter, datagram in hand, errors
    sends, replies, \* how many datagrams the handler and the hop have taken
    out, inq,       \* the channels behind UdpChannel::Tunnel
    writer, reader, \* the pumps: program counter, datagram in hand, parts done
    lockq,          \* the tunnel's mutex: the holder, then those who wait
    abort,          \* TRUE once the channel has been dropped
    c2s, s2c,       \* the stream, in parts <<datagram, part>>
    closed, broken, \* the client has closed the stream; the stream has failed
    hop,            \* the hop: program counter, datagram in hand, parts done
    sent, back      \* what the world and the client have got

config == <<kind, dg, rp>>
pumps == <<writer, reader, lockq>>
wire == <<c2s, s2c, closed, broken>>
vars == <<config, relay, sends, replies, out, inq, pumps, abort, wire, hop, sent, back>>

Pumps == {"w", "r"}
Off == [pc |-> "off", n |-> 0, k |-> 0]
Gone == [pc |-> "gone", n |-> 0, k |-> 0]

Init ==
    /\ kind \in Kinds /\ dg \in Sends /\ rp \in Replies
    /\ kind \in {"forward", "rudp"} =>
           \A n \in 1 .. MaxSend : dg[n].at = dg[1].at /\ ~dg[n].empty
    /\ relay = [pc |-> "dial", n |-> 0, errs |-> 0]
    /\ sends = 0 /\ replies = 0
    /\ out = <<>> /\ inq = <<>>
    /\ writer = Off /\ reader = Off /\ lockq = <<>>
    /\ abort = FALSE
    /\ c2s = <<>> /\ s2c = <<>> /\ closed = FALSE /\ broken = FALSE
    /\ hop = [pc |-> "request", n |-> 0, k |-> 0]
    /\ sent = <<>> /\ back = <<>>

\* The destination written into the frame of datagram n: the Shadowsocks
\* handler has resolved it, the forward handler sends the name as configured.
Dst(n) == IF kind = "ssu" THEN Resolve[dg[n].at] ELSE dg[n].at

-----------------------------------------------------------------------------
(* Opening the tunnel.                                                     *)

\* handle_udp_tunnel answers the request: the bind may be denied by the
\* lists or fail, and both end it.
HopBinds ==
    /\ hop.pc = "request" /\ ~closed /\ ~broken
    /\ \/ /\ hop' = [hop EXCEPT !.pc = "select"]
          /\ relay' = [relay EXCEPT !.pc = "bound"]
       \/ /\ hop' = Gone
          /\ relay' = [relay EXCEPT !.pc = "refused"]
    /\ UNCHANGED <<config, sends, replies, out, inq, pumps, abort, wire, sent, back>>

\* dial_udp has the answer: the pumps are spawned.
Opens ==
    /\ relay.pc = "bound" /\ ~broken
    /\ relay' = [relay EXCEPT !.pc = "select"]
    /\ writer' = [Off EXCEPT !.pc = "recv"]
    /\ reader' = [Off EXCEPT !.pc = "want"]
    /\ UNCHANGED <<config, sends, replies, out, inq, lockq, abort, wire, hop, sent, back>>

\* It was refused, or the dial or the handshake failed: no tunnel.
DialFails ==
    /\ relay.pc \in {"dial", "refused"} \/ (relay.pc = "bound" /\ broken)
    /\ relay' = [relay EXCEPT !.pc = "gone"]
    /\ writer' = Gone /\ reader' = Gone
    /\ closed' = TRUE
    /\ UNCHANGED <<config, sends, replies, out, inq, lockq, abort, c2s, s2c, broken, hop, sent, back>>

-----------------------------------------------------------------------------
(* The relay loop of the handler.                                          *)

\* The Shadowsocks handler asks its lists twice, about the name and about
\* the address it resolves to.
RelayPasses(n) ==
    kind = "ssu" =>
        /\ dg[n].at \in RelayAllows
        /\ Resolve[dg[n].at] # NoAddr
        /\ Resolve[dg[n].at] \in RelayAllows

\* A datagram of the client: it is dropped, or send_to begins.
RelayReads ==
    /\ relay.pc = "select" /\ sends < MaxSend
    /\ sends' = sends + 1
    /\ relay' = IF RelayPasses(sends + 1)
                THEN [relay EXCEPT !.pc = "sending", !.n = sends + 1] ELSE relay
    /\ UNCHANGED <<config, replies, out, inq, pumps, abort, wire, hop, sent, back>>

\* A channel without a bound.
RelaySends_unbounded ==
    /\ relay.pc = "sending"
    /\ out' = Append(out, relay.n)
    /\ relay' = [relay EXCEPT !.pc = "select", !.n = 0]
    /\ UNCHANGED <<config, sends, replies, inq, pumps, abort, wire, hop, sent, back>>

\* send_to waits for room in the channel; it fails when the writer is gone,
\* which ends the forward handler only.
RelaySends ==
    /\ relay.pc = "sending"
    /\ \/ /\ writer.pc # "gone" /\ Len(out) < ChanCap
          /\ out' = Append(out, relay.n)
          /\ relay' = [relay EXCEPT !.pc = "select", !.n = 0]
       \/ /\ writer.pc = "gone"
          /\ relay' = [relay EXCEPT !.pc = IF kind = "ssu" THEN "select" ELSE "drop", !.n = 0]
          /\ UNCHANGED out
    /\ UNCHANGED <<config, sends, replies, inq, pumps, abort, wire, hop, sent, back>>

\* recv_from has a datagram, which goes to the client unless its source is
\* bypassed (the forward handler has no bypass; the hop has applied its own).
\* A failing write to the client ends the handler.
RelayReceives ==
    /\ relay.pc = "select" /\ inq # <<>>
    /\ inq' = Tail(inq)
    /\ LET bypassed == kind = "ssu" /\ rp[Head(inq)].at \in Bypassed IN
       \/ /\ back' = IF bypassed THEN back ELSE Append(back, Head(inq))
          /\ relay' = [relay EXCEPT !.errs = 0]
       \/ /\ ~bypassed
          /\ relay' = [relay EXCEPT !.pc = "drop", !.errs = 0]
          /\ UNCHANGED back
    /\ UNCHANGED <<config, sends, replies, out, pumps, abort, wire, hop, sent>>

\* recv_from fails because the reader is gone: the end for the forward
\* handler; the other one counts such errors.
RelayRecvFails ==
    /\ relay.pc = "select" /\ inq = <<>> /\ reader.pc = "gone"
    /\ relay' = IF kind = "ssu" /\ relay.errs < MaxErrors
                THEN [relay EXCEPT !.errs = @ + 1] ELSE [relay EXCEPT !.pc = "drop"]
    /\ UNCHANGED <<config, sends, replies, out, inq, pumps, abort, wire, hop, sent, back>>

\* The client is done: end of file, an error, or the idle timeout.
RelayEnds ==
    /\ relay.pc = "select"
    /\ relay' = [relay EXCEPT !.pc = "drop"]
    /\ UNCHANGED <<config, sends, replies, out, inq, pumps, abort, wire, hop, sent, back>>

\* A handler that forgets the pumps when it lets go of the channel.
RelayDrops_leaks ==
    /\ relay.pc = "drop"
    /\ relay' = [relay EXCEPT !.pc = "gone", !.n = 0]
    /\ UNCHANGED <<config, sends, replies, out, inq, pumps, abort, wire, hop, sent, back>>

\* The channel is dropped, and its DropGuard aborts the pumps.
RelayDrops ==
    /\ relay.pc = "drop"
    /\ relay' = [relay EXCEPT !.pc = "gone", !.n = 0]
    /\ abort' = TRUE
    /\ UNCHANGED <<config, sends, replies, out, inq, pumps, wire, hop, sent, back>>

Relay == RelayReads \/ RelaySends \/ RelayReceives \/ RelayRecvFails \/ RelayEnds \/ RelayDrops

-----------------------------------------------------------------------------
(* The pumps.  lock() queues the caller; the mutex is handed on in order.  *)

Holds(p) == lockq # <<>> /\ Head(lockq) = p
TakenOut(q, i) == SubSeq(q, 1, i - 1) \o SubSeq(q, i + 1, Len(q))
Without(p) ==
    IF \E i \in DOMAIN lockq : lockq[i] = p
    THEN TakenOut(lockq, CHOOSE i \in DOMAIN lockq : lockq[i] = p) ELSE lockq

\* A pump is over.  The stream closes with the second one.
Leaves(p) ==
    /\ lockq' = Without(p)
    /\ IF p = "w" THEN writer' = Gone /\ closed' = (closed \/ reader.pc = "gone") /\ UNCHANGED reader
                  ELSE reader' = Gone /\ closed' = (closed \/ writer.pc = "gone") /\ UNCHANGED writer
    /\ UNCHANGED <<config, relay, sends, replies, out, inq, abort, c2s, s2c, broken, hop, sent, back>>

\* The writer takes a datagram from the channel and asks for the lock.
WriterTakes ==
    /\ writer.pc = "recv" /\ out # <<>>
    /\ out' = Tail(out)
    /\ writer' = [pc |-> "send", n |-> Head(out), k |-> 0]
    /\ lockq' = Append(lockq, "w")
    /\ UNCHANGED <<config, relay, sends, replies, inq, reader, abort, wire, hop, sent, back>>

\* send_to, holding the lock: the frame goes out as the stream takes it, and
\* the lock is released behind its last part.
WriterSends ==
    /\ writer.pc = "send" /\ Holds("w") /\ ~broken /\ hop.pc # "gone"
    /\ Len(c2s) < WireCap
    /\ c2s' = Append(c2s, <<writer.n, writer.k + 1>>)
    /\ IF writer.k = 1
       THEN writer' = [Off EXCEPT !.pc = "recv"] /\ lockq' = Tail(lockq)
       ELSE writer' = [writer EXCEPT !.k = 1] /\ UNCHANGED lockq
    /\ UNCHANGED <<config, relay, sends, replies, out, inq, reader, abort, s2c, closed, broken,
                   hop, sent, back>>

\* send_to fails on a dead stream.
WriterFails ==
    /\ writer.pc = "send" /\ Holds("w") /\ (broken \/ hop.pc = "gone")
    /\ Leaves("w")

ReaderWants ==
    /\ reader.pc = "want"
    /\ reader' = [reader EXCEPT !.pc = "recv"]
    /\ lockq' = Append(lockq, "r")
    /\ UNCHANGED <<config, relay, sends, replies, out, inq, writer, abort, wire, hop, sent, back>>

\* poll_datagram, holding the lock until a frame with a payload is complete:
\* an empty one is dropped.
ReaderFills ==
    /\ reader.pc = "recv" /\ Holds("r") /\ ~broken /\ s2c # <<>>
    /\ s2c' = Tail(s2c)
    /\ LET n == Head(s2c)[1] IN
       CASE reader.k = 0 -> reader' = [reader EXCEPT !.k = 1] /\ UNCHANGED lockq
         [] reader.k = 1 /\ rp[n].empty -> reader' = [reader EXCEPT !.k = 0] /\ UNCHANGED lockq
         [] OTHER -> reader' = [pc |-> "put", n |-> n, k |-> 0] /\ lockq' = Tail(lockq)
    /\ UNCHANGED <<config, relay, sends, replies, out, inq, writer, abort, c2s, closed, broken,
                   hop, sent, back>>

\* A datagram that finds no room is dropped.
ReaderPuts_drops ==
    /\ reader.pc = "put" /\ relay.pc # "gone"
    /\ inq' = IF Len(inq) < ChanCap THEN Append(inq, reader.n) ELSE inq
    /\ reader' = [Off EXCEPT !.pc = "want"]
    /\ UNCHANGED <<config, relay, sends, replies, out, writer, lockq, abort, wire, hop, sent, back>>

\* The datagram is put into the channel, when there is room for it.
ReaderPuts ==
    /\ reader.pc = "put" /\ relay.pc # "gone" /\ Len(inq) < ChanCap
    /\ inq' = Append(inq, reader.n)
    /\ reader' = [Off EXCEPT !.pc = "want"]
    /\ UNCHANGED <<config, relay, sends, replies, out, writer, lockq, abort, wire, hop, sent, back>>

\* End of stream, a broken stream or nobody to put it to ends the reader.
ReaderEnds ==
    /\ \/ reader.pc = "recv" /\ Holds("r") /\ (broken \/ (hop.pc = "gone" /\ s2c = <<>>))
       \/ reader.pc = "put" /\ relay.pc = "gone"
    /\ Leaves("r")

\* The channel's senders are gone, so the writer's recv ends.
WriterEnds ==
    /\ writer.pc = "recv" /\ out = <<>> /\ relay.pc = "gone"
    /\ Leaves("w")

\* abort() takes a pump wherever it waits.
Aborted ==
    /\ abort
    /\ \/ writer.pc # "gone" /\ Leaves("w")
       \/ reader.pc # "gone" /\ Leaves("r")

Writer == WriterTakes \/ WriterSends \/ WriterFails \/ WriterEnds
Reader == ReaderWants \/ ReaderFills \/ ReaderPuts \/ ReaderEnds

-----------------------------------------------------------------------------
(* tunnel_server_udp on the hop.                                           *)

\* A hop that asks its lists about the name only.
HopPasses_name_only(n) == Dst(n) \in HopAllows /\ Resolve[Dst(n)] # NoAddr

\* The hop's lists see the destination as written and as resolved.
HopPasses(n) ==
    /\ Dst(n) \in HopAllows
    /\ Resolve[Dst(n)] # NoAddr
    /\ Resolve[Dst(n)] \in HopAllows

\* tunnel.recv_from yields: half a frame stays in the connection, a whole one
\* is dropped or goes out to the world.
HopFills ==
    /\ hop.pc = "select" /\ ~broken /\ c2s # <<>>
    /\ c2s' = Tail(c2s)
    /\ LET n == Head(c2s)[1] IN
       IF hop.k = 0
       THEN hop' = [hop EXCEPT !.k = 1] /\ UNCHANGED sent
       ELSE /\ hop' = [hop EXCEPT !.k = 0]
            /\ sent' = IF ~dg[n].empty /\ HopPasses(n) THEN Append(sent, n) ELSE sent
    /\ UNCHANGED <<config, relay, sends, replies, out, inq, pumps, abort, s2c, closed, broken, back>>

\* A receive from the world that loses the part of a frame already read.
FromPeer_forgets ==
    /\ hop.pc = "select" /\ replies < MaxReply
    /\ replies' = replies + 1
    /\ hop' = IF rp[replies + 1].at \in Bypassed THEN [hop EXCEPT !.k = 0]
              ELSE [pc |-> "reply", n |-> replies + 1, k |-> 0]
    /\ UNCHANGED <<config, relay, sends, out, inq, pumps, abort, wire, sent, back>>

\* pc.recv_from yields: the datagram is dropped when its source is bypassed,
\* and otherwise framed.  The branch of select! that was reading the tunnel is
\* cancelled here, inside a frame or not.
FromPeer ==
    /\ hop.pc = "select" /\ replies < MaxReply
    /\ replies' = replies + 1
    /\ hop' = IF rp[replies + 1].at \in Bypassed THEN hop
              ELSE [hop EXCEPT !.pc = "reply", !.n = replies + 1]
    /\ UNCHANGED <<config, relay, sends, out, inq, pumps, abort, wire, sent, back>>

\* tunnel.send_to: header, then body, as the stream takes them.  While it
\* waits nothing else is served.
HopReplies ==
    /\ hop.pc \in {"reply", "body"} /\ ~broken /\ ~closed
    /\ Len(s2c) < WireCap
    /\ s2c' = Append(s2c, <<hop.n, IF hop.pc = "reply" THEN 1 ELSE 2>>)
    /\ hop' = IF hop.pc = "reply" THEN [hop EXCEPT !.pc = "body"]
              ELSE [hop EXCEPT !.pc = "select", !.n = 0]
    /\ UNCHANGED <<config, relay, sends, replies, out, inq, pumps, abort, c2s, closed, broken,
                   sent, back>>

\* The client hung up or the stream failed.
HopEnds ==
    /\ \/ hop.pc = "select" /\ closed /\ c2s = <<>>
       \/ hop.pc \in {"request", "reply", "body"} /\ closed
       \/ hop.pc # "gone" /\ broken
    /\ hop' = Gone
    /\ UNCHANGED <<config, relay, sends, replies, out, inq, pumps, abort, wire, sent, back>>

\* The hop's socket fails, on a receive or on sending out a datagram.
HopSocketFails ==
    /\ hop.pc = "select" /\ ~broken
    /\ \/ UNCHANGED c2s
       \/ /\ hop.k = 1 /\ c2s # <<>>
          /\ ~dg[Head(c2s)[1]].empty /\ HopPasses(Head(c2s)[1])
          /\ c2s' = Tail(c2s)
    /\ hop' = Gone
    /\ UNCHANGED <<config, relay, sends, replies, out, inq, pumps, abort, s2c, closed, broken,
                   sent, back>>

Hop == HopBinds \/ HopFills \/ HopReplies \/ HopEnds

-----------------------------------------------------------------------------
\* The stream breaks, and what is in flight is lost.
Breaks ==
    /\ ~broken
    /\ broken' = TRUE /\ c2s' = <<>> /\ s2c' = <<>>
    /\ UNCHANGED <<config, relay, sends, replies, out, inq, pumps, abort, closed, hop, sent, back>>

\* Everything is over.
Over == /\ relay.pc = "gone" /\ hop.pc = "gone" /\ writer.pc = "gone" /\ reader.pc = "gone"
        /\ UNCHANGED vars

Next ==
    \/ Opens \/ DialFails \/ Relay
    \/ Writer \/ Reader \/ Aborted
    \/ Hop \/ FromPeer \/ HopSocketFails
    \/ Breaks \/ Over

Spec == Init /\ [][Next]_vars

-----------------------------------------------------------------------------
(* Properties.                                                             *)

Tasks == {"off", "recv", "send", "want", "put", "gone"}
TypeOK ==
    /\ relay.pc \in {"dial", "bound", "refused", "select", "sending", "direct", "drop", "gone"}
    /\ relay.n \in 0 .. MaxSend /\ relay.errs \in 0 .. MaxErrors
    /\ sends \in 0 .. MaxSend /\ replies \in 0 .. MaxReply
    /\ writer.pc \in Tasks /\ reader.pc \in Tasks
    /\ Len(out) <= ChanCap /\ Len(inq) <= ChanCap
    /\ Len(c2s) <= WireCap /\ Len(s2c) <= WireCap
    /\ IsInjective(lockq) /\ Range(lockq) \subseteq Pumps
    /\ hop.pc \in {"request", "select", "reply", "body", "gone"} /\ hop.k \in 0 .. 1

\* The way of a direction, from its end back to its source, in parts: of a
\* datagram that is in one piece the last part stands for it.
Whole(q) == [i \in DOMAIN q |-> <<q[i], 2>>]
Hand(task, pcs) == IF task.pc \in pcs THEN << <<task.n, 2>> >> ELSE <<>>
Requests == Whole(sent) \o c2s \o Hand(writer, {"send"}) \o Whole(out) \o Hand(relay, {"sending"})
Answers == Whole(back) \o Whole(inq) \o Hand(reader, {"put"}) \o s2c \o Hand(hop, {"reply", "body"})

\* Frame by frame, and of a frame the header before the body: so nothing twice.
Precedes(x, y) == x[1] < y[1] \/ (x[1] = y[1] /\ x[2] < y[2])
InOrder(way) == \A i, j \in DOMAIN way : i < j => Precedes(way[i], way[j])

Alive == ~broken /\ relay.pc \notin {"drop", "gone"} /\ hop.pc # "gone" /\ writer.pc # "gone" /\ reader.pc # "gone"

\* What is on its way to the world is in order and nothing twice; and while the
\* tunnel is up every datagram of the client that the lists let through is
\* there, whole: not even a read of the tunnel that select! cancels inside a
\* frame loses anything.
RequestsKept ==
    /\ InOrder(Requests) /\ \A x \in Range(Requests) : x[1] \in 1 .. sends
    /\ Alive => \A n \in 1 .. sends :
           ~dg[n].empty /\ RelayPasses(n) /\ HopPasses(n) => <<n, 2>> \in Range(Requests)

\* The same for the way back.
RepliesKept ==
    /\ InOrder(Answers) /\ \A x \in Range(Answers) : x[1] \in 1 .. replies
    /\ Alive => \A n \in 1 .. replies :
           ~rp[n].empty /\ rp[n].at \notin Bypassed => <<n, 2>> \in Range(Answers)

\* Whatever becomes of the tunnel, the world gets a datagram only when the
\* hop's lists allow its destination, both as written and as resolved, and
\* never one twice or out of order.
OnlyAllowedSent ==
    /\ \A i \in DOMAIN sent :
        /\ Dst(sent[i]) \in HopAllows /\ Resolve[Dst(sent[i])] \in HopAllows
        /\ kind = "ssu" => dg[sent[i]].at \in RelayAllows
    /\ \A i, j \in DOMAIN sent : i < j => sent[i] < sent[j]

\* A handler that ends takes the tunnel with it: both pumps stop and the hop
\* sees the end of the stream (the DropGuard of UdpChannel).
TornDown ==
    relay.pc = "gone" ~> writer.pc = "gone" /\ reader.pc = "gone" /\ hop.pc = "gone"

=============================================================================
