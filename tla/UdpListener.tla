---------------------------- MODULE UdpListener ----------------------------
(***************************************************************************)
(* The UDP listener of udp.rs and the server loop that drives it: one      *)
(* socket, a demultiplex task that routes every datagram by its source     *)
(* address, one virtual connection per peer with a bounded receive queue,  *)
(* a TTL watcher task per connection, and the handlers that read and write *)
(* the connections and drop them.                                          *)
(*                                                                         *)
(* The tasks share the peer map (a mutex; every critical section is one    *)
(* action here) and a cancellation token per connection.  The demultiplex  *)
(* task offers a new connection to the accept queue BEFORE it registers it *)
(* in the map, so handlers interleave with that sequence.                  *)
(*                                                                         *)
(* Datagrams are numbered in arrival order; only their lengths matter.     *)
(* Time is reduced to the one fact a watcher asks for: whether the TTL has *)
(* elapsed since the connection last carried traffic.                      *)
(***************************************************************************)
EXTENDS Integers, Sequences, FiniteSets

CONSTANTS
    Peers,          \* source addresses
    NoPeer,         \* none of them
    Backlog,        \* config.backlog, depth of the accept queue
    QueueSize,      \* config.queue_size, depth of a receive queue
    Lens,           \* bound: the lengths the datagrams may have, in order
    Bufs,           \* bound: the sizes of read buffers
    MaxDatagrams,   \* bound: datagrams and errors that recv_from returns
    Stops           \* bound: whether the operator may stop the server

\* normalized() replaces a zero depth by a positive default.
ASSUME UdpConstants ==
    /\ NoPeer \notin Peers
    /\ Backlog \in Nat \ {0}
    /\ QueueSize \in Nat \ {0}
    /\ Lens \in SUBSET [1 .. MaxDatagrams -> Nat]
    /\ Bufs \in SUBSET (Nat \ {0})
    /\ MaxDatagrams \in Nat
    /\ Stops \in BOOLEAN

Ids == 1 .. MaxDatagrams      \* values of next_id
NoId == 0
Idle == [pc |-> "recv", src |-> NoPeer, id |-> NoId, n |-> 0]

VARIABLES
    peers,      \* the peer map: id of the entry of each peer, or NoId
    demux,      \* the demultiplex task: program counter, datagram in hand
    next_id,    \* the id of the next connection
    accept,     \* the accept queue
    accept_rx,  \* TRUE while the listener holds the queue's receiver
    cancel,     \* the listener's cancellation token
    seen,       \* how many datagrams and errors recv_from has returned
    len,        \* the length of each datagram, fixed from the start
    conn,       \* where each connection is in its life
    peer,       \* the peer of each connection
    rx,         \* the receive queue of each connection
    pending,    \* the datagram being handed over, and the bytes left of it
    closed,     \* the cancellation token of each connection
    stale,      \* TRUE when the TTL has elapsed since the last activity
    watch,      \* the TTL watcher of each connection
    got,        \* the last read: of which datagram, from which byte, up to which
    eof,        \* TRUE once the handler has read end of file
    server,     \* UdpServer::serve
    signal      \* the server's shutdown token

routing == <<peers, demux, next_id, seen, len>>
listener == <<accept, accept_rx, cancel>>
reading == <<rx, pending, got, eof>>
tokens == <<closed, stale, watch>>
serving == <<server, signal>>
vars == <<routing, listener, conn, peer, reading, tokens, serving>>

Init ==
    /\ peers = [p \in Peers |-> NoId]
    /\ demux = Idle
    /\ next_id = 1
    /\ accept = <<>>
    /\ accept_rx = TRUE
    /\ cancel = FALSE
    /\ seen = 0
    /\ len \in Lens
    /\ conn = [c \in Ids |-> "none"]
    /\ peer = [c \in Ids |-> NoPeer]
    /\ rx = [c \in Ids |-> <<>>]
    /\ pending = [c \in Ids |-> <<0, 0>>]
    /\ closed = [c \in Ids |-> FALSE]
    /\ stale = [c \in Ids |-> FALSE]
    /\ watch = [c \in Ids |-> "none"]
    /\ got = [c \in Ids |-> <<0, 0, 0>>]
    /\ eof = [c \in Ids |-> FALSE]
    /\ server = "serving"
    /\ signal = FALSE

-----------------------------------------------------------------------------
(* The peer map.                                                           *)

\* remove_peer with the comparison of ids left out.
remove_peer_any(c) ==
    peers' = [peers EXCEPT ![peer[c]] = NoId]

\* Removes the entry of c's peer if it is still c's entry.
remove_peer(c) ==
    peers' = [p \in Peers |-> IF p = peer[c] /\ peers[p] = c THEN NoId ELSE peers[p]]

\* A sender of c exists: it is stored in the map, or the demultiplex task has
\* made it and not yet stored it.
HasSender(c) == demux.id = c \/ \E p \in Peers : peers[p] = c

-----------------------------------------------------------------------------
(* demux_loop.                                                             *)

\* A queue that takes every datagram of a known peer.
Known_unbounded(src, n) ==
    LET c == peers[src] IN
    /\ c # NoId
    /\ conn[c] # "gone"
    /\ rx' = [rx EXCEPT ![c] = Append(@, n)]
    /\ UNCHANGED <<peers, demux, next_id>>

\* A datagram from src is received and looked up in the map, under its lock.
\* A known peer's queue takes it, or drops it when full.
Known(src, n) ==
    LET c == peers[src] IN
    /\ c # NoId
    /\ conn[c] # "gone"
    /\ rx' = [rx EXCEPT ![c] = IF Len(@) < QueueSize THEN Append(@, n) ELSE @]
    /\ UNCHANGED <<peers, demux, next_id>>

\* An unknown peer, or one whose entry lingers after its connection was
\* dropped: the entry is evicted and a fresh connection is prepared.
Fresh(src, n) ==
    /\ peers[src] # NoId => conn[peers[src]] = "gone"
    /\ peers' = [peers EXCEPT ![src] = NoId]
    /\ demux' = [pc |-> "offer", src |-> src, id |-> next_id, n |-> n]
    /\ next_id' = next_id + 1
    /\ UNCHANGED rx

Receive(src) ==
    /\ demux.pc = "recv"
    /\ seen < MaxDatagrams
    /\ seen' = seen + 1
    /\ Known(src, seen + 1) \/ Fresh(src, seen + 1)
    /\ UNCHANGED <<len, listener, conn, peer, pending, got, eof, tokens, serving>>

\* recv_from reports an error: back off, then carry on.
ReceiveError ==
    /\ demux.pc = "recv"
    /\ seen < MaxDatagrams
    /\ seen' = seen + 1
    /\ demux' = [Idle EXCEPT !.pc = "backoff"]
    /\ UNCHANGED <<peers, next_id, len, listener, conn, peer, reading, tokens, serving>>

BackoffEnds ==
    /\ demux.pc = "backoff"
    /\ demux' = Idle
    /\ UNCHANGED <<peers, next_id, seen, len, listener, conn, peer, reading, tokens, serving>>

\* The new connection is offered to accept().  A full backlog drops it, and a
\* dropped receiver ends the loop; nothing has been registered in either case.
Offer ==
    /\ demux.pc = "offer"
    /\ peer' = [peer EXCEPT ![demux.id] = demux.src]
    /\ \/ /\ accept_rx /\ Len(accept) < Backlog
          /\ accept' = Append(accept, demux.id)
          /\ conn' = [conn EXCEPT ![demux.id] = "queued"]
          /\ demux' = [demux EXCEPT !.pc = "first"]
          /\ UNCHANGED closed
       \/ /\ ~(accept_rx /\ Len(accept) < Backlog)
          /\ conn' = [conn EXCEPT ![demux.id] = "gone"]
          /\ closed' = [closed EXCEPT ![demux.id] = TRUE]
          /\ demux' = [Idle EXCEPT !.pc = IF accept_rx THEN "recv" ELSE "stopping"]
          /\ UNCHANGED accept
    /\ UNCHANGED <<peers, next_id, seen, len, accept_rx, cancel, reading, stale, watch, serving>>

\* The first datagram is put into the fresh queue; it is lost if the
\* connection has already been accepted and dropped.
FirstDatagram ==
    /\ demux.pc = "first"
    /\ rx' = [rx EXCEPT ![demux.id] = IF conn[demux.id] = "gone" THEN @ ELSE Append(@, demux.n)]
    /\ demux' = [demux EXCEPT !.pc = "insert"]
    /\ UNCHANGED <<peers, next_id, seen, len, listener, conn, peer, pending, got, eof, tokens, serving>>

\* The connection is registered and its TTL watcher spawned.
Insert ==
    /\ demux.pc = "insert"
    /\ peers' = [peers EXCEPT ![demux.src] = demux.id]
    /\ watch' = [watch EXCEPT ![demux.id] = "watch"]
    /\ demux' = Idle
    /\ UNCHANGED <<next_id, seen, len, listener, conn, peer, reading, closed, stale, serving>>

\* The token is seen at either select! of the loop.
Cancelled ==
    /\ demux.pc \in {"recv", "backoff"}
    /\ cancel
    /\ demux' = [Idle EXCEPT !.pc = "stopping"]
    /\ UNCHANGED <<peers, next_id, seen, len, listener, conn, peer, reading, tokens, serving>>

\* The loop has ended: the map is drained and every connection cancelled.
Drain ==
    /\ demux.pc = "stopping"
    /\ peers' = [p \in Peers |-> NoId]
    /\ closed' = [c \in Ids |-> closed[c] \/ \E p \in Peers : peers[p] = c]
    /\ demux' = [Idle EXCEPT !.pc = "stopped"]
    /\ UNCHANGED <<next_id, seen, len, listener, conn, peer, reading, stale, watch, serving>>

Demux ==
    \/ \E src \in Peers : Receive(src)
    \/ ReceiveError
    \/ BackoffEnds
    \/ Offer
    \/ FirstDatagram
    \/ Insert
    \/ Cancelled
    \/ Drain

-----------------------------------------------------------------------------
(* ttl_watch.                                                              *)

\* Time: the TTL of c elapses without activity.  Only a sleeping watcher asks
\* for it, so nothing is lost by letting it elapse only while there is one.
Elapse(c) ==
    /\ watch[c] = "watch"
    /\ ~stale[c]
    /\ stale' = [stale EXCEPT ![c] = TRUE]
    /\ UNCHANGED <<routing, listener, conn, peer, reading, closed, watch, serving>>

\* The deadline computed from the last activity has passed.
Expires(c) ==
    /\ watch[c] = "watch"
    /\ stale[c]
    /\ watch' = [watch EXCEPT ![c] = "expire"]
    /\ UNCHANGED <<routing, listener, conn, peer, reading, closed, stale, serving>>

\* The token is seen while the watcher sleeps: it returns, and leaves the map
\* to whoever cancelled.
WatchReturns(c) ==
    /\ watch[c] = "watch"
    /\ closed[c]
    /\ watch' = [watch EXCEPT ![c] = "done"]
    /\ UNCHANGED <<routing, listener, conn, peer, reading, closed, stale, serving>>

\* The watcher cancels the connection and forgets its entry.
Unregister_not(c) ==
    /\ watch[c] = "expire"
    /\ watch' = [watch EXCEPT ![c] = "cancel"]
    /\ UNCHANGED <<routing, listener, conn, peer, reading, closed, stale, serving>>

\* The expired connection is removed from the map ...
Unregister(c) ==
    /\ watch[c] = "expire"
    /\ remove_peer(c)
    /\ watch' = [watch EXCEPT ![c] = "cancel"]
    /\ UNCHANGED <<demux, next_id, seen, len, listener, conn, peer, reading, closed, stale, serving>>

\* ... and then cancelled.
CancelExpired(c) ==
    /\ watch[c] = "cancel"
    /\ closed' = [closed EXCEPT ![c] = TRUE]
    /\ watch' = [watch EXCEPT ![c] = "expired"]
    /\ UNCHANGED <<routing, listener, conn, peer, reading, stale, serving>>

ttl_watch(c) == Expires(c) \/ WatchReturns(c) \/ Unregister(c) \/ CancelExpired(c)

-----------------------------------------------------------------------------
(* UdpServerConn: what the handler that owns connection c does.            *)

\* A read that takes what fits of a datagram and discards the rest.
HandOver_truncates(c, n, left, k) ==
    /\ got' = [got EXCEPT ![c] = <<n, len[n] - left, len[n] - left + k>>]
    /\ pending' = [pending EXCEPT ![c] = <<0, 0>>]

\* k bytes of datagram n go to the caller; what is left of it stays pending.
HandOver(c, n, left, k) ==
    /\ got' = [got EXCEPT ![c] = <<n, len[n] - left, len[n] - left + k>>]
    /\ pending' = [pending EXCEPT ![c] = IF k < left THEN <<n, left - k>> ELSE <<0, 0>>]

Smaller(a, b) == IF a < b THEN a ELSE b

\* A read with room for k bytes while a datagram is pending.
ReadPending(c, k) ==
    /\ pending[c][2] > 0
    /\ HandOver(c, pending[c][1], pending[c][2], Smaller(k, pending[c][2]))
    /\ UNCHANGED <<rx, stale, eof>>

\* A reader that takes an empty datagram for the end of the file.
ReadQueue_empty_is_eof(c, k) ==
    /\ pending[c][2] = 0
    /\ rx[c] # <<>>
    /\ rx' = [rx EXCEPT ![c] = Tail(@)]
    /\ stale' = [stale EXCEPT ![c] = FALSE]
    /\ eof' = [eof EXCEPT ![c] = len[Head(rx[c])] = 0]
    /\ IF len[Head(rx[c])] = 0
       THEN UNCHANGED <<pending, got>>
       ELSE HandOver(c, Head(rx[c]), len[Head(rx[c])], Smaller(k, len[Head(rx[c])]))

\* A read that takes the next datagram; an empty one is skipped (the loop of
\* poll_read then goes on, which is another of these actions).
ReadQueue(c, k) ==
    /\ pending[c][2] = 0
    /\ rx[c] # <<>>
    /\ rx' = [rx EXCEPT ![c] = Tail(@)]
    /\ stale' = [stale EXCEPT ![c] = FALSE]
    /\ UNCHANGED eof
    /\ LET n == Head(rx[c]) IN
       IF len[n] = 0
       THEN UNCHANGED <<pending, got>>
       ELSE HandOver(c, n, len[n], Smaller(k, len[n]))

\* The queue is empty and every sender is gone: end of file.
ReadEof(c) ==
    /\ pending[c][2] = 0
    /\ rx[c] = <<>>
    /\ ~HasSender(c)
    /\ ~eof[c]
    /\ eof' = [eof EXCEPT ![c] = TRUE]
    /\ UNCHANGED <<rx, pending, got, stale>>

poll_read(c) ==
    /\ conn[c] = "open"
    /\ \/ \E k \in Bufs : ReadPending(c, k) \/ ReadQueue(c, k)
       \/ ReadEof(c)
    /\ UNCHANGED <<routing, listener, conn, peer, closed, watch, serving>>

\* A datagram is sent to the peer from the shared socket.
poll_write(c) ==
    /\ conn[c] = "open"
    /\ stale[c]
    /\ stale' = [stale EXCEPT ![c] = FALSE]
    /\ UNCHANGED <<routing, listener, conn, peer, reading, closed, watch, serving>>

\* close(), from poll_shutdown or from Drop, cancels the token ...
BeginClose(c, from, to) ==
    /\ conn[c] = from
    /\ conn' = [conn EXCEPT ![c] = to]
    /\ closed' = [closed EXCEPT ![c] = TRUE]
    /\ UNCHANGED <<routing, listener, peer, reading, stale, watch, serving>>

\* ... and then unregisters the connection.  After Drop its queue is gone.
EndClose(c, from, to) ==
    /\ conn[c] = from
    /\ conn' = [conn EXCEPT ![c] = to]
    /\ remove_peer(c)
    /\ IF to = "gone"
       THEN /\ rx' = [rx EXCEPT ![c] = <<>>]
            /\ pending' = [pending EXCEPT ![c] = <<0, 0>>]
            /\ got' = [got EXCEPT ![c] = <<0, 0, 0>>]
            /\ eof' = [eof EXCEPT ![c] = FALSE]
       ELSE UNCHANGED reading
    /\ UNCHANGED <<demux, next_id, seen, len, listener, peer, tokens, serving>>

poll_shutdown(c) == ~closed[c] /\ BeginClose(c, "open", "closing")
Return(c) == BeginClose(c, "open", "dropping")
CloseSteps(c) ==
    \/ EndClose(c, "closing", "open")
    \/ BeginClose(c, "discarded", "dropping")
    \/ EndClose(c, "dropping", "gone")

\* Handlers that run on after the server's token is cancelled.
HandlerCancelled_never(c) == FALSE

\* A handler that is still running when the server's token is cancelled is
\* dropped by the select! around it.
HandlerCancelled(c) == signal /\ Return(c)

-----------------------------------------------------------------------------
(* UdpServer::serve.                                                       *)

Accept ==
    /\ server = "serving"
    /\ accept # <<>>
    /\ accept' = Tail(accept)
    /\ conn' = [conn EXCEPT ![Head(accept)] = "open"]
    /\ UNCHANGED <<routing, accept_rx, cancel, peer, reading, tokens, serving>>

\* The operator asks for a graceful shutdown.
Shutdown ==
    /\ Stops
    /\ ~signal
    /\ signal' = TRUE
    /\ UNCHANGED <<routing, listener, conn, peer, reading, tokens, server>>

\* The accept loop ends; the listener is closed before the drain.
ServeBreaks ==
    /\ server = "serving"
    /\ signal \/ (demux.pc = "stopped" /\ accept = <<>>)
    /\ server' = "draining"
    /\ cancel' = TRUE
    /\ UNCHANGED <<routing, accept, accept_rx, conn, peer, reading, tokens, signal>>

\* The tracked handlers have ended or the ten seconds are over: serve returns
\* and drops the listener, and with it the connections nobody accepted.
ServeReturns ==
    /\ server = "draining"
    /\ server' = "returned"
    /\ cancel' = TRUE
    /\ accept_rx' = FALSE
    /\ accept' = <<>>
    /\ conn' = [c \in Ids |-> IF conn[c] = "queued" THEN "discarded" ELSE conn[c]]
    /\ UNCHANGED <<routing, peer, reading, tokens, signal>>

Serve == Accept \/ ServeBreaks \/ ServeReturns

Next ==
    \/ Demux
    \/ Serve
    \/ Shutdown
    \/ \E c \in Ids :
        \/ Elapse(c)
        \/ ttl_watch(c)
        \/ poll_read(c)
        \/ poll_write(c)
        \/ poll_shutdown(c)
        \/ Return(c)
        \/ CloseSteps(c)

Spec == Init /\ [][Next]_vars

\* The runtime schedules the tasks that can run, a close that has begun runs to
\* its end, and a cancelled handler is dropped.  Nothing makes a peer send, a
\* handler read or return, or the operator stop the server.
FairSpec ==
    /\ Spec
    /\ WF_vars(BackoffEnds \/ Offer \/ FirstDatagram \/ Insert \/ Cancelled \/ Drain)
    /\ WF_vars(Serve)
    /\ \A c \in Ids : WF_vars(CloseSteps(c) \/ HandlerCancelled(c))

-----------------------------------------------------------------------------
(* Properties.                                                             *)

RoutingTyped ==
    /\ peers \in [Peers -> Ids \cup {NoId}]
    /\ demux \in [pc : {"recv", "backoff", "offer", "first", "insert", "stopping", "stopped"},
                  src : Peers \cup {NoPeer}, id : Ids \cup {NoId}, n : 0 .. MaxDatagrams]
    /\ next_id \in Nat /\ seen \in 0 .. MaxDatagrams
    /\ 1 <= next_id /\ next_id <= seen + 1
    /\ len \in Lens
ListenerTyped ==
    /\ accept \in Seq(Ids) /\ Len(accept) <= Backlog
    /\ accept_rx \in BOOLEAN
    /\ cancel \in BOOLEAN
ConnTyped ==
    /\ conn \in [Ids -> {"none", "queued", "open", "closing", "discarded", "dropping", "gone"}]
    /\ peer \in [Ids -> Peers \cup {NoPeer}]
ReadingTyped ==
    /\ rx \in [Ids -> Seq(Ids)]
    /\ pending \in [Ids -> (Ids \X Nat) \cup {<<0, 0>>}]
    /\ got \in [Ids -> (Ids \cup {0}) \X Int \X Int]
    /\ eof \in [Ids -> BOOLEAN]
TokensTyped ==
    /\ closed \in [Ids -> BOOLEAN]
    /\ stale \in [Ids -> BOOLEAN]
    /\ watch \in [Ids -> {"none", "watch", "expire", "cancel", "expired", "done"}]
ServingTyped ==
    /\ server \in {"serving", "draining", "returned"}
    /\ signal \in BOOLEAN

\* No receive queue outgrows its capacity; the first datagram, which
\* demux_loop queues without looking, finds it empty.
QueuesBounded == \A c \in Ids : Len(rx[c]) <= QueueSize

TypeOK ==
    /\ RoutingTyped
    /\ ListenerTyped
    /\ ConnTyped
    /\ ReadingTyped
    /\ TokensTyped
    /\ ServingTyped
    /\ QueuesBounded

\* A connection nobody has closed and whose TTL has not run out is the one its
\* peer's datagrams go to: no late close, expiry or eviction of an earlier
\* connection of the same peer takes its entry away (the id of remove_peer).
LiveIsRouted ==
    \A c \in Ids :
        watch[c] \in {"watch", "expire"} /\ ~closed[c] => peers[peer[c]] = c

\* What a handler reads of a connection is the queued datagrams in their
\* order, each from its first byte to its last before the next one begins,
\* whatever the sizes of its buffers: the remainder that poll_read keeps.
NothingTruncated ==
    [][\A c \in Ids :
        LET last == got[c]
            new == got'[c]
        IN last # new /\ conn[c] = "open" =>
            \/ new[1] = last[1] /\ new[2] = last[3]
            \/ /\ new[1] > last[1] /\ new[2] = 0
               /\ last[1] # 0 => last[3] = len[last[1]]]_vars

\* End of file is final: once poll_read has reported it, nothing is queued or
\* pending for the connection and no sender is left that could queue more.  In
\* particular an empty datagram is never taken for it.
EofIsFinal ==
    \A c \in Ids : eof[c] => rx[c] = <<>> /\ pending[c][2] = 0 /\ ~HasSender(c)

\* An idle connection's handler is let go: from the moment ttl_watch has
\* removed it no sender is left, so that its reads end, once the queue is empty,
\* in end of file.
ExpiryEndsReads ==
    \A c \in Ids : watch[c] \in {"cancel", "expired"} => ~HasSender(c)

\* After the shutdown signal the server lets everything go: the demultiplex
\* task stops, every connection is dropped and the peer map is empty.
ShutdownReleasesAll ==
    signal ~> /\ demux.pc = "stopped"
              /\ \A p \in Peers : peers[p] = NoId
              /\ \A c \in Ids : conn[c] \in {"none", "gone"}

\* A virtual connection is routed as long as it lives, whatever its watcher and
\* earlier connections of its peer do; its end of file is final; and once it has
\* expired its reads end (demux_loop, ttl_watch, poll_read).
ConnectionsSound == TypeOK /\ LiveIsRouted /\ EofIsFinal /\ ExpiryEndsReads

=============================================================================
