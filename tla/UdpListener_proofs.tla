------------------------- MODULE UdpListener_proofs -------------------------
(***************************************************************************)
(* Proofs about UdpListener for every set of peers, every capacity and     *)
(* every number of datagrams: its types and queue bounds, that a live      *)
(* connection keeps its routing entry, that end of file is final, that an  *)
(* expired connection can only read on to the end of file, and that what   *)
(* is read of a connection is its datagrams in order, each of them whole.  *)
(***************************************************************************)
EXTENDS UdpListener, TLAPS

\* The sequence of demux_loop from the lookup to the registration: its
\* connection is new, has no watcher, is not in the map, and neither is any
\* other connection of the same peer.
Introducing ==
    demux.pc \in {"offer", "first", "insert"} =>
        /\ demux.id \in Ids /\ demux.id < next_id
        /\ demux.n \in Ids
        /\ demux.src \in Peers
        /\ watch[demux.id] = "none"
        /\ peers[demux.src] = NoId
        /\ demux.pc \in {"first", "insert"} => peer[demux.id] = demux.src
NotIntroducing ==
    demux.pc \notin {"offer", "first", "insert"} => demux.id = NoId

\* Ids are handed out in order.
Unused == \A c \in Ids : c >= next_id =>
    watch[c] = "none" /\ \A p \in Peers : peers[p] # c

\* An entry of the map is a connection of that peer, with a watcher.
EntryOwned == \A p \in Peers : peers[p] # NoId =>
    peer[peers[p]] = p /\ watch[peers[p]] # "none"

\* A connection with a watcher has a peer.
WatchedHasPeer == \A c \in Ids : watch[c] # "none" => peer[c] \in Peers

\* close() cancels the token before it touches the map.
ClosingIsClosed == \A c \in Ids : conn[c] \in {"closing", "dropping", "gone"} => closed[c]

Routing == Introducing /\ NotIntroducing /\ Unused /\ EntryOwned /\ WatchedHasPeer
           /\ ClosingIsClosed /\ LiveIsRouted

Typed == RoutingTyped /\ ListenerTyped /\ ConnTyped /\ ReadingTyped /\ TokensTyped /\ ServingTyped

-----------------------------------------------------------------------------
(* Types.                                                                  *)

\* The start leads to a state of the right shape.
LEMMA InitTyped == Init => Typed
<1>. SUFFICES ASSUME Init PROVE Typed
  BY Zenon
<1>1. RoutingTyped
  BY UdpConstants DEF Init, RoutingTyped, Idle, NoId, Ids
<1>2. ListenerTyped
  <2>1. accept \in Seq(Ids) /\ Len(accept) = 0
    BY DEF Init
  <2>2. accept_rx \in BOOLEAN /\ cancel \in BOOLEAN
    BY Zenon DEF Init
  <2>. QED BY <2>1, <2>2, UdpConstants DEF ListenerTyped
<1>3. ConnTyped
  BY Zenon DEF Init, ConnTyped
<1>4. ReadingTyped
  <2>1. <<>> \in Seq(Ids)
    OBVIOUS
  <2>. QED BY <2>1 DEF Init, ReadingTyped
<1>5. TokensTyped
  BY Zenon DEF Init, TokensTyped
<1>6. ServingTyped
  BY Zenon DEF Init, ServingTyped
<1>. QED BY <1>1, <1>2, <1>3, <1>4, <1>5, <1>6, Zenon DEF Typed

\* The demultiplex task keeps the types.
LEMMA DemuxTyped == Typed /\ Introducing /\ Demux => Typed'
<1>. SUFFICES ASSUME Typed, Introducing, Demux PROVE Typed'
  BY Zenon
<1>. USE UdpConstants
<1>1. ASSUME NEW src \in Peers, Receive(src) PROVE Typed'
  <2>0. seen + 1 \in Ids /\ seen' = seen + 1
    BY <1>1 DEF Receive, Typed, RoutingTyped, Ids
  <2>1. CASE Known(src, seen + 1)
    <3>1. RoutingTyped'
      BY <1>1, <2>0, <2>1 DEF Receive, Known, Typed, RoutingTyped, Ids
    <3>2. rx' \in [Ids -> Seq(Ids)]
      <4>1. peers[src] \in Ids
        BY <2>1, Zenon DEF Known, Typed, RoutingTyped
      <4>2. rx[peers[src]] \in Seq(Ids)
        BY <4>1, Zenon DEF Typed, ReadingTyped
      <4>. QED BY <2>0, <2>1, <4>1, <4>2 DEF Known, Typed, ReadingTyped
    <3>. QED BY <1>1, <3>1, <3>2, Zenon DEF Receive, Typed, ReadingTyped, listener, tokens, serving,
                                     ListenerTyped, ConnTyped, TokensTyped, ServingTyped
  <2>2. CASE Fresh(src, seen + 1)
    <3>1. next_id \in Ids
      BY <2>0, <1>1 DEF Receive, Typed, RoutingTyped, Ids
    <3>2. demux' \in [pc : {"recv", "backoff", "offer", "first", "insert", "stopping", "stopped"},
                  src : Peers \cup {NoPeer}, id : Ids \cup {NoId}, n : 0 .. MaxDatagrams]
      BY <2>0, <2>2, <3>1 DEF Fresh, Ids
    <3>3. peers' \in [Peers -> Ids \cup {NoId}]
      BY <2>2, Zenon DEF Fresh, Typed, RoutingTyped
    <3>4. RoutingTyped'
      BY <1>1, <2>0, <2>2, <3>2, <3>3 DEF Receive, Fresh, Typed, RoutingTyped, Ids
    <3>. QED BY <1>1, <2>2, <3>4, Zenon DEF Receive, Fresh, Typed, ReadingTyped, listener, tokens, serving,
                                     ListenerTyped, ConnTyped, TokensTyped, ServingTyped
  <2>. QED BY <1>1, <2>1, <2>2, Zenon DEF Receive
<1>2. CASE ReceiveError \/ BackoffEnds
  <2>1. demux' \in [pc : {"recv", "backoff", "offer", "first", "insert", "stopping", "stopped"},
                  src : Peers \cup {NoPeer}, id : Ids \cup {NoId}, n : 0 .. MaxDatagrams]
    BY <1>2, UdpConstants DEF ReceiveError, BackoffEnds, Idle, NoId
  <2>2. RoutingTyped'
    BY <1>2, <2>1, UdpConstants DEF ReceiveError, BackoffEnds, Typed, RoutingTyped
  <2>. QED BY <1>2, <2>2, Zenon DEF ReceiveError, BackoffEnds, Typed, listener, reading, tokens, serving,
                             ListenerTyped, ConnTyped, ReadingTyped, TokensTyped, ServingTyped
<1>3. CASE Offer
  <2>0. demux.id \in Ids /\ demux.src \in Peers
    BY <1>3, Zenon DEF Offer, Introducing
  <2>1. RoutingTyped'
    <3>1. demux' \in [pc : {"recv", "backoff", "offer", "first", "insert", "stopping", "stopped"},
                  src : Peers \cup {NoPeer}, id : Ids \cup {NoId}, n : 0 .. MaxDatagrams]
      <4>1. 0 \in 0 .. MaxDatagrams
        BY UdpConstants
      <4>2. CASE demux' = [demux EXCEPT !.pc = "first"]
        BY <4>2, Zenon DEF Typed, RoutingTyped
      <4>3. CASE demux' = [Idle EXCEPT !.pc = "recv"] \/ demux' = [Idle EXCEPT !.pc = "stopping"]
        BY <4>1, <4>3, Zenon DEF Idle, NoId
      <4>. QED BY <1>3, <4>2, <4>3, Zenon DEF Offer
    <3>. QED BY <1>3, <3>1, Zenon DEF Offer, Typed, RoutingTyped
  <2>2. ListenerTyped'
    <3>1. CASE accept_rx /\ Len(accept) < Backlog
      <4>1. accept' = Append(accept, demux.id)
        BY <1>3, <3>1, Zenon DEF Offer
      <4>2. accept' \in Seq(Ids) /\ Len(accept') = Len(accept) + 1
        BY <2>0, <4>1 DEF Typed, ListenerTyped
      <4>. QED BY <1>3, <3>1, <4>2 DEF Offer, Typed, ListenerTyped
    <3>2. CASE ~(accept_rx /\ Len(accept) < Backlog)
      BY <1>3, <3>2, Zenon DEF Offer, Typed, ListenerTyped
    <3>. QED BY <3>1, <3>2, Zenon
  <2>3. ConnTyped'
    BY <1>3, <2>0, Zenon DEF Offer, Typed, ConnTyped
  <2>4. TokensTyped'
    BY <1>3, <2>0, Zenon DEF Offer, Typed, TokensTyped
  <2>. QED BY <1>3, <2>1, <2>2, <2>3, <2>4, Zenon DEF Offer, Typed, reading, serving, ReadingTyped, ServingTyped
<1>4. CASE FirstDatagram
  <2>0. demux.id \in Ids /\ demux.n \in Ids
    BY <1>4, Zenon DEF FirstDatagram, Introducing
  <2>1. RoutingTyped'
    BY <1>4, Zenon DEF FirstDatagram, Typed, RoutingTyped
  <2>2. rx' \in [Ids -> Seq(Ids)]
    BY <1>4, <2>0 DEF FirstDatagram, Typed, ReadingTyped
  <2>. QED BY <1>4, <2>1, <2>2, Zenon DEF FirstDatagram, Typed, ReadingTyped, listener, tokens, serving,
                                   ListenerTyped, ConnTyped, TokensTyped, ServingTyped
<1>5. CASE Insert
  <2>0. demux.id \in Ids
    BY <1>5, Zenon DEF Insert, Introducing
  <2>1. RoutingTyped'
    <3>1. peers' \in [Peers -> Ids \cup {NoId}]
      BY <1>5, <2>0, Zenon DEF Insert, Typed, RoutingTyped
    <3>2. demux' \in [pc : {"recv", "backoff", "offer", "first", "insert", "stopping", "stopped"},
                  src : Peers \cup {NoPeer}, id : Ids \cup {NoId}, n : 0 .. MaxDatagrams]
      BY <1>5 DEF Insert, Idle, NoId
    <3>. QED BY <1>5, <3>1, <3>2, Zenon DEF Insert, Typed, RoutingTyped
  <2>2. TokensTyped'
    BY <1>5, <2>0, Zenon DEF Insert, Typed, TokensTyped
  <2>. QED BY <1>5, <2>1, <2>2, Zenon DEF Insert, Typed, listener, reading, serving,
                                   ListenerTyped, ConnTyped, ReadingTyped, ServingTyped
<1>6. CASE Cancelled
  <2>1. RoutingTyped'
    BY <1>6 DEF Cancelled, Idle, NoId, Typed, RoutingTyped
  <2>. QED BY <1>6, <2>1, Zenon DEF Cancelled, Typed, listener, reading, tokens, serving,
                             ListenerTyped, ConnTyped, ReadingTyped, TokensTyped, ServingTyped
<1>7. CASE Drain
  <2>1. RoutingTyped'
    <3>1. demux' \in [pc : {"recv", "backoff", "offer", "first", "insert", "stopping", "stopped"},
                  src : Peers \cup {NoPeer}, id : Ids \cup {NoId}, n : 0 .. MaxDatagrams]
      BY <1>7, UdpConstants DEF Drain, Idle, NoId
    <3>2. peers' \in [Peers -> Ids \cup {NoId}]
      BY <1>7, Zenon DEF Drain
    <3>. QED BY <1>7, <3>1, <3>2, Zenon DEF Drain, Typed, RoutingTyped
  <2>2. TokensTyped'
    BY <1>7, Zenon DEF Drain, Typed, TokensTyped
  <2>. QED BY <1>7, <2>1, <2>2, Zenon DEF Drain, Typed, listener, reading, serving,
                                   ListenerTyped, ConnTyped, ReadingTyped, ServingTyped
<1>. QED BY <1>1, <1>2, <1>3, <1>4, <1>5, <1>6, <1>7, Zenon DEF Demux

\* The watchers and the handlers of one connection keep the types.
LEMMA ConnectionTyped ==
    ASSUME NEW c \in Ids, Typed,
           Elapse(c) \/ ttl_watch(c) \/ poll_write(c) \/ poll_shutdown(c) \/ Return(c) \/ CloseSteps(c)
    PROVE  Typed'
<1>1. ASSUME Elapse(c) \/ Expires(c) \/ WatchReturns(c) \/ CancelExpired(c) \/ poll_write(c) PROVE Typed'
  <2>1. TokensTyped'
    BY <1>1, Zenon DEF Elapse, Expires, WatchReturns, CancelExpired, poll_write, Typed, TokensTyped
  <2>. QED BY <1>1, <2>1 DEF Elapse, Expires, WatchReturns, CancelExpired, poll_write, Typed,
        routing, listener, reading, serving, RoutingTyped, ListenerTyped, ConnTyped, ReadingTyped, ServingTyped
<1>2. ASSUME remove_peer(c) PROVE peers' \in [Peers -> Ids \cup {NoId}]
  BY <1>2, Zenon DEF remove_peer, NoId, Typed, RoutingTyped
<1>3. CASE Unregister(c)
  <2>1. TokensTyped'
    BY <1>3, Zenon DEF Unregister, Typed, TokensTyped
  <2>2. RoutingTyped'
    BY <1>2, <1>3, Zenon DEF Unregister, Typed, RoutingTyped
  <2>. QED BY <1>3, <2>1, <2>2, Zenon DEF Unregister, Typed, listener, reading, serving,
        ListenerTyped, ConnTyped, ReadingTyped, ServingTyped
<1>4. ASSUME NEW from, NEW to \in {"closing", "dropping"}, BeginClose(c, from, to) PROVE Typed'
  <2>1. TokensTyped'
    BY <1>4, Zenon DEF BeginClose, Typed, TokensTyped
  <2>2. ConnTyped'
    BY <1>4, Zenon DEF BeginClose, Typed, ConnTyped
  <2>. QED BY <1>4, <2>1, <2>2 DEF BeginClose, Typed, routing, listener, reading, serving,
        RoutingTyped, ListenerTyped, ReadingTyped, ServingTyped
<1>5. ASSUME NEW from, NEW to \in {"open", "gone"}, EndClose(c, from, to) PROVE Typed'
  <2>1. RoutingTyped'
    BY <1>2, <1>5, Zenon DEF EndClose, Typed, RoutingTyped
  <2>2. ConnTyped'
    BY <1>5, Zenon DEF EndClose, Typed, ConnTyped
  <2>3. ReadingTyped'
    <3>1. <<>> \in Seq(Ids)
      OBVIOUS
    <3>2. rx' \in [Ids -> Seq(Ids)]
      BY <1>5, <3>1, Zenon DEF EndClose, Typed, ReadingTyped, reading
    <3>3. pending' \in [Ids -> (Ids \X Nat) \cup {<<0, 0>>}]
      BY <1>5, Zenon DEF EndClose, Typed, ReadingTyped, reading
    <3>4. <<0, 0, 0>> \in (Ids \cup {0}) \X Int \X Int
      OBVIOUS
    <3>5. got' \in [Ids -> (Ids \cup {0}) \X Int \X Int]
      BY <1>5, <3>4, Zenon DEF EndClose, Typed, ReadingTyped, reading
    <3>6. eof' \in [Ids -> BOOLEAN]
      BY <1>5, Zenon DEF EndClose, Typed, ReadingTyped, reading
    <3>. QED BY <3>2, <3>3, <3>5, <3>6, Zenon DEF ReadingTyped
  <2>. QED BY <1>5, <2>1, <2>2, <2>3, Zenon DEF EndClose, Typed, listener, tokens, serving,
        ListenerTyped, TokensTyped, ServingTyped
<1>. QED BY <1>1, <1>3, <1>4, <1>5, Zenon DEF ttl_watch, poll_shutdown, Return, CloseSteps

\* Reading keeps the types.
LEMMA ReadTyped == ASSUME NEW c \in Ids, Typed, poll_read(c) PROVE Typed'
<1>0. ASSUME NEW n \in Ids, NEW left \in Nat, NEW k \in Nat, HandOver(c, n, left, k)
      PROVE  /\ pending' \in [Ids -> (Ids \X Nat) \cup {<<0, 0>>}]
             /\ got' \in [Ids -> (Ids \cup {0}) \X Int \X Int]
  <2>1. len[n] \in Nat
    BY UdpConstants DEF Typed, RoutingTyped, Ids
  <2>2. <<n, len[n] - left, len[n] - left + k>> \in (Ids \cup {0}) \X Int \X Int
    BY <2>1
  <2>3. (IF k < left THEN <<n, left - k>> ELSE <<0, 0>>) \in (Ids \X Nat) \cup {<<0, 0>>}
    OBVIOUS
  <2>4. got' \in [Ids -> (Ids \cup {0}) \X Int \X Int]
    BY <1>0, <2>2, Zenon DEF HandOver, Typed, ReadingTyped
  <2>5. pending' \in [Ids -> (Ids \X Nat) \cup {<<0, 0>>}]
    BY <1>0, <2>3, Zenon DEF HandOver, Typed, ReadingTyped
  <2>. QED BY <2>4, <2>5, Zenon
<1>1. ASSUME NEW k \in Bufs, ReadPending(c, k) PROVE ReadingTyped' /\ TokensTyped'
  <2>1. pending[c][1] \in Ids /\ pending[c][2] \in Nat
    BY <1>1 DEF ReadPending, Typed, ReadingTyped
  <2>2. Smaller(k, pending[c][2]) \in Nat
    BY <2>1, UdpConstants, Zenon DEF Smaller
  <2>3. HandOver(c, pending[c][1], pending[c][2], Smaller(k, pending[c][2]))
    BY <1>1, Zenon DEF ReadPending
  <2>4. /\ pending' \in [Ids -> (Ids \X Nat) \cup {<<0, 0>>}]
        /\ got' \in [Ids -> (Ids \cup {0}) \X Int \X Int]
    BY <1>0, <2>1, <2>2, <2>3, Zenon
  <2>5. UNCHANGED <<rx, eof, closed, stale, watch>>
    BY <1>1, Zenon DEF ReadPending, poll_read
  <2>. QED BY <2>4, <2>5, Zenon DEF Typed, ReadingTyped, TokensTyped
<1>2. ASSUME NEW k \in Bufs, ReadQueue(c, k) PROVE ReadingTyped' /\ TokensTyped'
  <2>1. rx[c] \in Seq(Ids) /\ rx[c] # <<>>
    BY <1>2, Zenon DEF ReadQueue, Typed, ReadingTyped
  <2>2. Head(rx[c]) \in Ids /\ Tail(rx[c]) \in Seq(Ids)
    BY <2>1
  <2>3. len[Head(rx[c])] \in Nat
    BY <2>2, UdpConstants DEF Typed, RoutingTyped, Ids
  <2>4. Smaller(k, len[Head(rx[c])]) \in Nat
    BY <2>3, UdpConstants, Zenon DEF Smaller
  <2>5. /\ pending' \in [Ids -> (Ids \X Nat) \cup {<<0, 0>>}]
        /\ got' \in [Ids -> (Ids \cup {0}) \X Int \X Int]
    <3>1. CASE len[Head(rx[c])] = 0
      BY <1>2, <3>1, Zenon DEF ReadQueue, Typed, ReadingTyped
    <3>2. CASE len[Head(rx[c])] # 0
      <4>1. HandOver(c, Head(rx[c]), len[Head(rx[c])], Smaller(k, len[Head(rx[c])]))
        BY <1>2, <3>2, Zenon DEF ReadQueue
      <4>. QED BY <1>0, <2>2, <2>3, <2>4, <4>1, Zenon
    <3>. QED BY <3>1, <3>2, Zenon
  <2>6. rx' \in [Ids -> Seq(Ids)]
    BY <1>2, <2>2, Zenon DEF ReadQueue, Typed, ReadingTyped
  <2>7. UNCHANGED <<eof, closed, watch>>
    BY <1>2, Zenon DEF ReadQueue, poll_read
  <2>8. stale' \in [Ids -> BOOLEAN]
    BY <1>2, Zenon DEF ReadQueue, Typed, TokensTyped
  <2>. QED BY <2>5, <2>6, <2>7, <2>8, Zenon DEF Typed, ReadingTyped, TokensTyped
<1>3. ASSUME ReadEof(c) PROVE ReadingTyped' /\ TokensTyped'
  <2>1. eof' \in [Ids -> BOOLEAN]
    BY <1>3, Zenon DEF ReadEof, Typed, ReadingTyped
  <2>2. UNCHANGED <<rx, pending, got, closed, stale, watch>>
    BY <1>3, Zenon DEF ReadEof, poll_read
  <2>. QED BY <2>1, <2>2, Zenon DEF Typed, ReadingTyped, TokensTyped
<1>4. ReadingTyped' /\ TokensTyped'
  BY <1>1, <1>2, <1>3, Zenon DEF poll_read
<1>. QED BY <1>4 DEF poll_read, Typed, routing, listener, serving,
        RoutingTyped, ListenerTyped, ConnTyped, ServingTyped

\* The server keeps the types.
LEMMA ServerTyped == Typed /\ (Serve \/ Shutdown) => Typed'
<1>. SUFFICES ASSUME Typed, Serve \/ Shutdown PROVE Typed'
  BY Zenon
<1>1. CASE Accept
  <2>1. accept \in Seq(Ids) /\ accept # <<>> /\ Len(accept) <= Backlog
    BY <1>1, Zenon DEF Accept, Typed, ListenerTyped
  <2>2. Head(accept) \in Ids /\ Tail(accept) \in Seq(Ids) /\ Len(Tail(accept)) = Len(accept) - 1
    BY <2>1
  <2>3. ListenerTyped'
    BY <1>1, <2>1, <2>2, UdpConstants DEF Accept, Typed, ListenerTyped
  <2>4. ConnTyped'
    BY <1>1, <2>2, Zenon DEF Accept, Typed, ConnTyped
  <2>. QED BY <1>1, <2>3, <2>4, Zenon DEF Accept, Typed, routing, reading, tokens, serving,
        RoutingTyped, ReadingTyped, TokensTyped, ServingTyped
<1>2. CASE ServeBreaks
  <2>1. cancel' \in BOOLEAN /\ server' \in {"serving", "draining", "returned"}
    BY <1>2, Zenon DEF ServeBreaks
  <2>. QED BY <1>2, <2>1, Zenon DEF ServeBreaks, Typed, routing, reading, tokens,
        RoutingTyped, ListenerTyped, ConnTyped, ReadingTyped, TokensTyped, ServingTyped
<1>3. CASE ServeReturns
  <2>1. cancel' \in BOOLEAN /\ accept_rx' \in BOOLEAN /\ server' \in {"serving", "draining", "returned"}
    BY <1>3, Zenon DEF ServeReturns
  <2>2. accept' \in Seq(Ids) /\ Len(accept') = 0
    BY <1>3 DEF ServeReturns
  <2>3. ConnTyped'
    BY <1>3, Zenon DEF ServeReturns, Typed, ConnTyped
  <2>. QED BY <1>3, <2>1, <2>2, <2>3, UdpConstants DEF ServeReturns, Typed, routing, reading, tokens,
        RoutingTyped, ListenerTyped, ReadingTyped, TokensTyped, ServingTyped
<1>4. CASE Shutdown
  <2>1. signal' \in BOOLEAN
    BY <1>4, Zenon DEF Shutdown
  <2>. QED BY <1>4, <2>1 DEF Shutdown, Typed, routing, listener, reading, tokens,
        RoutingTyped, ListenerTyped, ConnTyped, ReadingTyped, TokensTyped, ServingTyped
<1>. QED BY <1>1, <1>2, <1>3, <1>4, Zenon DEF Serve

-----------------------------------------------------------------------------
(* Routing.                                                                *)

\* At the start nobody is routed.
LEMMA InitRouting == Init => Routing
BY DEF Init, Routing, Introducing, NotIntroducing, Unused, EntryOwned, WatchedHasPeer,
       ClosingIsClosed, LiveIsRouted, Idle, NoId

\* Each step of the demultiplex task keeps the entries right: the new
\* connection gets the entry of its peer, which nobody else holds.
LEMMA DemuxRouting == Typed /\ Routing /\ Demux => Routing'
<1>. SUFFICES ASSUME Typed, Routing, Demux PROVE Routing'
  BY Zenon
<1>. USE DEF NoId
<1>1. ASSUME NEW src \in Peers, Receive(src) PROVE Routing'
  <2>0. /\ UNCHANGED <<conn, peer, closed, watch>>
        /\ demux.pc = "recv" /\ seen < MaxDatagrams
    BY <1>1, Zenon DEF Receive, tokens
  <2>1. CASE Known(src, seen + 1)
    BY <2>0, <2>1, Zenon DEF Known, Routing, Introducing, NotIntroducing, Unused, EntryOwned,
                      WatchedHasPeer, ClosingIsClosed, LiveIsRouted
  <2>2. CASE Fresh(src, seen + 1)
    <3>1. next_id \in Ids /\ next_id' = next_id + 1 /\ seen + 1 \in Ids /\ next_id \in Nat
      BY <2>0, <2>2, UdpConstants DEF Fresh, Typed, RoutingTyped, Ids
    <3>2. /\ demux'.pc = "offer" /\ demux'.src = src /\ demux'.id = next_id /\ demux'.n = seen + 1
          /\ peers' = [peers EXCEPT ![src] = NoId]
          /\ peers \in [Peers -> Ids \cup {NoId}]
      BY <2>2, Zenon DEF Fresh, Typed, RoutingTyped
    <3>3. peers[src] = NoId \/ closed[peers[src]]
      BY <2>2, <3>2, Zenon DEF Fresh, Routing, ClosingIsClosed
    <3>4. Introducing' /\ NotIntroducing'
      BY <2>0, <3>1, <3>2 DEF Routing, Introducing, NotIntroducing, Unused
    <3>5. Unused'
      BY <2>0, <3>1, <3>2 DEF Routing, Unused, Ids
    <3>6. EntryOwned' /\ WatchedHasPeer' /\ ClosingIsClosed'
      BY <2>0, <3>2, Zenon DEF Routing, EntryOwned, WatchedHasPeer, ClosingIsClosed
    <3>7. LiveIsRouted'
      BY <2>0, <3>2, <3>3, Zenon DEF Routing, LiveIsRouted, WatchedHasPeer, EntryOwned
    <3>. QED BY <3>4, <3>5, <3>6, <3>7, Zenon DEF Routing
  <2>. QED BY <1>1, <2>1, <2>2, Zenon DEF Receive
<1>2. CASE ReceiveError \/ BackoffEnds \/ Cancelled
  <2>1. /\ UNCHANGED <<peers, next_id, conn, peer, closed, watch>>
        /\ demux'.pc \notin {"offer", "first", "insert"} /\ demux'.id = NoId
    BY <1>2 DEF ReceiveError, BackoffEnds, Cancelled, Idle, tokens, reading
  <2>. QED BY <2>1 DEF Routing, Introducing, NotIntroducing, Unused, EntryOwned,
                       WatchedHasPeer, ClosingIsClosed, LiveIsRouted
<1>3. CASE Offer
  <2>0. /\ demux.pc = "offer" /\ demux.id \in Ids /\ demux.id < next_id
        /\ demux.src \in Peers /\ watch[demux.id] = "none" /\ peers[demux.src] = NoId
        /\ UNCHANGED <<peers, next_id, watch>>
        /\ peer' = [peer EXCEPT ![demux.id] = demux.src]
        /\ peer \in [Ids -> Peers \cup {NoPeer}]
        /\ peers \in [Peers -> Ids \cup {NoId}]
        /\ \A c \in Ids : closed[c] => closed'[c]
        /\ \A c \in Ids : c # demux.id => conn'[c] = conn[c]
        /\ conn'[demux.id] \notin {"closing", "dropping", "gone"} \/ closed'[demux.id]
    BY <1>3 DEF Offer, Routing, Introducing, Typed, ConnTyped, TokensTyped, RoutingTyped, reading
  <2>1. Introducing' /\ NotIntroducing'
    BY <1>3, <2>0 DEF Offer, Idle, Routing, Introducing, NotIntroducing, Typed, RoutingTyped
  <2>2. Unused' /\ EntryOwned' /\ WatchedHasPeer'
    BY <2>0 DEF Routing, Unused, EntryOwned, WatchedHasPeer
  <2>3. ClosingIsClosed'
    BY <2>0, Zenon DEF Routing, ClosingIsClosed
  <2>4. LiveIsRouted'
    BY <2>0, Zenon DEF Routing, LiveIsRouted
  <2>. QED BY <2>1, <2>2, <2>3, <2>4, Zenon DEF Routing
<1>4. CASE FirstDatagram
  <2>1. UNCHANGED <<peers, next_id, conn, peer, closed, watch>>
    BY <1>4, Zenon DEF FirstDatagram, tokens
  <2>2. /\ demux.pc = "first" /\ demux'.pc = "insert" /\ demux'.id = demux.id
        /\ demux'.src = demux.src /\ demux'.n = demux.n
    BY <1>4, Zenon DEF FirstDatagram, Typed, RoutingTyped
  <2>. QED BY <2>1, <2>2, Zenon DEF Routing, Introducing, NotIntroducing, Unused, EntryOwned,
                       WatchedHasPeer, ClosingIsClosed, LiveIsRouted
<1>5. CASE Insert
  <2>0. /\ demux.id \in Ids /\ demux.id < next_id /\ demux.src \in Peers
        /\ watch[demux.id] = "none" /\ peers[demux.src] = NoId /\ peer[demux.id] = demux.src
        /\ UNCHANGED <<next_id, conn, peer, closed>>
        /\ peers' = [peers EXCEPT ![demux.src] = demux.id]
        /\ watch' = [watch EXCEPT ![demux.id] = "watch"]
        /\ watch \in [Ids -> {"none", "watch", "expire", "cancel", "expired", "done"}]
        /\ peers \in [Peers -> Ids \cup {NoId}]
        /\ demux'.pc = "recv" /\ demux'.id = NoId
        /\ next_id \in Nat
    BY <1>5, Zenon DEF Insert, Idle, Routing, Introducing, Typed, RoutingTyped, TokensTyped, reading
  <2>1. Introducing' /\ NotIntroducing'
    BY <2>0, Zenon DEF Introducing, NotIntroducing
  <2>2. Unused'
    BY <2>0 DEF Routing, Unused, Ids
  <2>3. EntryOwned' /\ WatchedHasPeer' /\ ClosingIsClosed'
    BY <2>0, Zenon DEF Routing, EntryOwned, WatchedHasPeer, ClosingIsClosed
  <2>4. LiveIsRouted'
    <3>. SUFFICES ASSUME NEW c \in Ids, watch'[c] \in {"watch", "expire"}, ~closed'[c]
                  PROVE  peers'[peer'[c]] = c
      BY Zenon DEF LiveIsRouted
    <3>1. CASE c = demux.id
      BY <2>0, <3>1, Zenon
    <3>2. CASE c # demux.id
      <4>1. peers[peer[c]] = c /\ peer[c] \in Peers
        BY <2>0, <3>2, Zenon DEF Routing, LiveIsRouted, WatchedHasPeer
      <4>2. peer[c] # demux.src
        BY <2>0, <4>1 DEF Ids
      <4>. QED BY <2>0, <4>1, <4>2, Zenon
    <3>. QED BY <3>1, <3>2, Zenon
  <2>. QED BY <2>1, <2>2, <2>3, <2>4, Zenon DEF Routing
<1>6. CASE Drain
  <2>0. /\ peers' = [p \in Peers |-> NoId]
        /\ closed' = [c \in Ids |-> closed[c] \/ \E p \in Peers : peers[p] = c]
        /\ demux'.pc = "stopped" /\ demux'.id = NoId
        /\ UNCHANGED <<next_id, conn, peer, watch>>
    BY <1>6, Zenon DEF Drain, Idle, reading
  <2>1. Introducing' /\ NotIntroducing'
    BY <2>0, Zenon DEF Introducing, NotIntroducing
  <2>2. Unused' /\ EntryOwned' /\ WatchedHasPeer'
    BY <2>0 DEF Routing, Unused, EntryOwned, WatchedHasPeer, Ids
  <2>4. ClosingIsClosed'
    BY <2>0, Zenon DEF Routing, ClosingIsClosed
  <2>3. LiveIsRouted'
    BY <2>0, Zenon DEF Routing, LiveIsRouted, WatchedHasPeer
  <2>. QED BY <2>1, <2>2, <2>3, <2>4, Zenon DEF Routing
<1>. QED BY <1>1, <1>2, <1>3, <1>4, <1>5, <1>6, Zenon DEF Demux

\* remove_peer takes away the entry of c and no other.
LEMMA RemovePeer ==
    ASSUME NEW c \in Ids, Typed, remove_peer(c)
    PROVE  \A p \in Peers : peers'[p] = peers[p] \/ (peers[p] = c /\ peers'[p] = NoId)
BY Zenon DEF remove_peer

\* So do the watchers and the handlers, who remove an entry only when the
\* connection is closed or its watcher is done with it.
LEMMA ConnectionRouting ==
    ASSUME NEW c \in Ids, Typed, Routing,
           \/ Elapse(c) \/ ttl_watch(c) \/ poll_read(c)
           \/ poll_write(c) \/ poll_shutdown(c) \/ Return(c) \/ CloseSteps(c)
    PROVE  Routing'
<1>. USE DEF NoId
<1>1. ASSUME UNCHANGED <<peers, demux, next_id, conn, peer, closed>>,
             \A d \in Ids : watch'[d] = watch[d] \/ (watch[d] = "watch" /\ watch'[d] = "expire")
                                                 \/ (watch[d] = "watch" /\ watch'[d] = "done")
      PROVE  Routing'
  <2>1. Introducing' /\ NotIntroducing'
    BY <1>1, Zenon DEF Routing, Introducing, NotIntroducing
  <2>2. Unused' /\ WatchedHasPeer' /\ ClosingIsClosed'
    BY <1>1, Zenon DEF Routing, Unused, WatchedHasPeer, ClosingIsClosed
  <2>3. EntryOwned'
    BY <1>1 DEF Routing, EntryOwned, Typed, RoutingTyped
  <2>4. LiveIsRouted'
    BY <1>1, SMTT(20) DEF Routing, LiveIsRouted
  <2>. QED BY <2>1, <2>2, <2>3, <2>4, Zenon DEF Routing
<1>2. CASE Elapse(c) \/ Expires(c) \/ WatchReturns(c) \/ poll_write(c)
  <2>1. UNCHANGED <<peers, demux, next_id, conn, peer, closed>>
    BY <1>2, Zenon DEF Elapse, Expires, WatchReturns, poll_write, routing, reading
  <2>2. \A d \in Ids : watch'[d] = watch[d] \/ (watch[d] = "watch" /\ watch'[d] = "expire")
                                            \/ (watch[d] = "watch" /\ watch'[d] = "done")
    BY <1>2, Zenon DEF Elapse, Expires, WatchReturns, poll_write, Typed, TokensTyped
  <2>. QED BY <1>1, <2>1, <2>2, Zenon
<1>3. CASE poll_read(c)
  <2>1. UNCHANGED <<peers, demux, next_id, conn, peer, closed, watch>>
    BY <1>3, Zenon DEF poll_read, routing
  <2>. QED BY <1>1, <2>1, Zenon
<1>4. CASE CancelExpired(c)
  <2>0. /\ UNCHANGED <<peers, demux, next_id, conn, peer>>
        /\ closed' = [closed EXCEPT ![c] = TRUE]
        /\ watch[c] = "cancel" /\ watch' = [watch EXCEPT ![c] = "expired"]
    BY <1>4, Zenon DEF CancelExpired, routing, reading
  <2>1. /\ \A d \in Ids : closed[d] => closed'[d]
        /\ \A d \in Ids : d # c => watch'[d] = watch[d]
        /\ watch'[c] = "expired"
    BY <2>0, Zenon DEF Typed, TokensTyped
  <2>2. Introducing' /\ NotIntroducing'
    BY <2>0, <2>1, Zenon DEF Routing, Introducing, NotIntroducing
  <2>3. Unused' /\ WatchedHasPeer' /\ ClosingIsClosed'
    BY <2>0, <2>1, Zenon DEF Routing, Unused, WatchedHasPeer, ClosingIsClosed
  <2>4. EntryOwned'
    BY <2>0, <2>1 DEF Routing, EntryOwned, Typed, RoutingTyped
  <2>5. LiveIsRouted'
    BY <2>0, <2>1, SMTT(20) DEF Routing, LiveIsRouted
  <2>. QED BY <2>2, <2>3, <2>4, <2>5, Zenon DEF Routing
<1>5. CASE Unregister(c)
  <2>0. /\ UNCHANGED <<demux, next_id, conn, peer, closed>>
        /\ watch[c] = "expire" /\ watch' = [watch EXCEPT ![c] = "cancel"]
        /\ \A p \in Peers : peers'[p] = peers[p] \/ (peers[p] = c /\ peers'[p] = NoId)
    BY <1>5, RemovePeer, Zenon DEF Unregister, reading
  <2>1. /\ \A d \in Ids : d # c => watch'[d] = watch[d]
        /\ watch'[c] = "cancel"
    BY <2>0, Zenon DEF Typed, TokensTyped
  <2>2. Introducing' /\ NotIntroducing'
    BY <2>0, <2>1, SMTT(20) DEF Routing, Introducing, NotIntroducing
  <2>3. Unused' /\ WatchedHasPeer' /\ ClosingIsClosed'
    BY <2>0, <2>1 DEF Routing, Unused, WatchedHasPeer, ClosingIsClosed, Ids
  <2>4. EntryOwned'
    BY <2>0, <2>1 DEF Routing, EntryOwned, Typed, RoutingTyped
  <2>5. LiveIsRouted'
    BY <2>0, <2>1, Zenon DEF Routing, LiveIsRouted, WatchedHasPeer
  <2>. QED BY <2>2, <2>3, <2>4, <2>5, Zenon DEF Routing
<1>6. ASSUME NEW from, NEW to, BeginClose(c, from, to) PROVE Routing'
  <2>0. /\ UNCHANGED <<peers, demux, next_id, peer, watch>>
        /\ closed' = [closed EXCEPT ![c] = TRUE]
        /\ conn' = [conn EXCEPT ![c] = to]
    BY <1>6, Zenon DEF BeginClose, routing, reading
  <2>1. /\ \A d \in Ids : closed[d] => closed'[d]
        /\ closed'[c]
        /\ \A d \in Ids : d # c => conn'[d] = conn[d]
    BY <2>0, Zenon DEF Typed, TokensTyped, ConnTyped
  <2>2. Introducing' /\ NotIntroducing'
    BY <2>0, Zenon DEF Routing, Introducing, NotIntroducing
  <2>3. Unused' /\ WatchedHasPeer' /\ EntryOwned'
    BY <2>0, Zenon DEF Routing, Unused, WatchedHasPeer, EntryOwned
  <2>4. ClosingIsClosed'
    BY <2>1, SMTT(20) DEF Routing, ClosingIsClosed
  <2>5. LiveIsRouted'
    BY <2>0, <2>1, Zenon DEF Routing, LiveIsRouted
  <2>. QED BY <2>2, <2>3, <2>4, <2>5, Zenon DEF Routing
<1>7. ASSUME NEW from \in {"closing", "dropping"}, NEW to, EndClose(c, from, to) PROVE Routing'
  <2>0. /\ UNCHANGED <<demux, next_id, peer, closed, watch>>
        /\ conn[c] = from /\ conn' = [conn EXCEPT ![c] = to]
        /\ \A p \in Peers : peers'[p] = peers[p] \/ (peers[p] = c /\ peers'[p] = NoId)
    BY <1>7, RemovePeer, Zenon DEF EndClose, tokens
  <2>1. closed[c]
    BY <2>0, Zenon DEF Routing, ClosingIsClosed
  <2>2. Introducing' /\ NotIntroducing'
    BY <2>0, SMTT(20) DEF Routing, Introducing, NotIntroducing
  <2>3. Unused' /\ WatchedHasPeer'
    BY <2>0, SMTT(20) DEF Routing, Unused, WatchedHasPeer, Ids
  <2>4. ClosingIsClosed'
    BY <2>0, <2>1, Zenon DEF Routing, ClosingIsClosed, Typed, ConnTyped
  <2>5. EntryOwned'
    BY <2>0, Zenon DEF Routing, EntryOwned
  <2>6. LiveIsRouted'
    BY <2>0, <2>1, Zenon DEF Routing, LiveIsRouted, WatchedHasPeer
  <2>. QED BY <2>2, <2>3, <2>4, <2>5, <2>6, Zenon DEF Routing
<1>. QED BY <1>2, <1>3, <1>4, <1>5, <1>6, <1>7, Zenon DEF ttl_watch, poll_shutdown, Return, CloseSteps

\* Serving and shutting down keep the routing.
LEMMA ServerRouting == Typed /\ Routing /\ (Serve \/ Shutdown) => Routing'
<1>. SUFFICES ASSUME Typed, Routing, Serve \/ Shutdown PROVE Routing'
  BY Zenon
<1>1. UNCHANGED <<peers, demux, next_id, peer, closed, watch>>
  BY Zenon DEF Serve, Shutdown, Accept, ServeBreaks, ServeReturns, routing, reading, tokens
<1>2. \A c \in Ids : conn'[c] \in {"closing", "dropping", "gone"} => conn'[c] = conn[c]
  BY Zenon DEF Serve, Shutdown, Accept, ServeBreaks, ServeReturns, Typed, ConnTyped
<1>. QED BY <1>1, <1>2 DEF Routing, Introducing, NotIntroducing, Unused, EntryOwned,
              WatchedHasPeer, ClosingIsClosed, LiveIsRouted


-----------------------------------------------------------------------------
(* Queues and end of file.                                                 *)

\* Only ids that were handed out appear.
Used ==
    /\ \A c \in Ids : conn[c] # "none" => c < next_id
    /\ \A i \in 1 .. Len(accept) : accept[i] < next_id
    /\ \A c \in Ids : c >= next_id => rx[c] = <<>> /\ ~eof[c]

\* The queue that receives the first datagram is empty.
FreshQueue == demux.pc \in {"offer", "first"} => rx[demux.id] = <<>>

Queues == Used /\ FreshQueue /\ QueuesBounded /\ EofIsFinal

\* At the start nothing is queued.
LEMMA InitQueues == Init => Queues
<1>. SUFFICES ASSUME Init PROVE Queues
  BY Zenon
<1>1. Used
  BY DEF Init, Used
<1>2. FreshQueue /\ EofIsFinal
  BY Zenon DEF Init, FreshQueue, EofIsFinal, Idle
<1>3. QueuesBounded
  BY UdpConstants DEF Init, QueuesBounded
<1>. QED BY <1>1, <1>2, <1>3, Zenon DEF Queues

\* A connection gets no sender after its id has been handed out, and the
\* queues take no more than they hold.
LEMMA DemuxQueues == Typed /\ Routing /\ Queues /\ Demux => Queues'
<1>. SUFFICES ASSUME Typed, Routing, Queues, Demux PROVE Queues'
  BY Zenon
<1>. USE DEF NoId
<1>1. ASSUME NEW src \in Peers, Receive(src) PROVE Queues'
  <2>0. /\ UNCHANGED <<conn, accept, pending, eof>>
        /\ demux.pc = "recv" /\ seen < MaxDatagrams
        /\ demux.id = NoId
    BY <1>1, Zenon DEF Receive, listener, Routing, NotIntroducing
  <2>1. CASE Known(src, seen + 1)
    <3>0. /\ peers[src] \in Ids
          /\ UNCHANGED <<peers, demux, next_id>>
          /\ rx' = [rx EXCEPT ![peers[src]] = IF Len(@) < QueueSize THEN Append(@, seen + 1) ELSE @]
          /\ rx \in [Ids -> Seq(Ids)]
      BY <2>1, Zenon DEF Known, Typed, RoutingTyped, ReadingTyped
    <3>1. peers[src] < next_id
      BY <3>0 DEF Routing, Unused, Typed, RoutingTyped, Ids
    <3>2. Used'
      <4>1. \A c \in Ids : c # peers[src] => rx'[c] = rx[c]
        BY <3>0, Zenon
      <4>2. next_id \in Nat
        BY Zenon DEF Typed, RoutingTyped
      <4>. QED BY <2>0, <3>0, <3>1, <4>1, <4>2 DEF Queues, Used, Ids
    <3>3. FreshQueue'
      BY <2>0, <3>0, Zenon DEF FreshQueue
    <3>4. QueuesBounded'
      <4>. SUFFICES ASSUME NEW c \in Ids PROVE Len(rx'[c]) <= QueueSize
        BY Zenon DEF QueuesBounded
      <4>1. CASE c = peers[src] /\ Len(rx[c]) < QueueSize
        <5>1. rx'[c] = Append(rx[c], seen + 1) /\ rx[c] \in Seq(Ids)
          BY <3>0, <4>1, Zenon
        <5>. QED BY <4>1, <5>1, UdpConstants
      <4>2. CASE ~(c = peers[src] /\ Len(rx[c]) < QueueSize)
        BY <3>0, <4>2, Zenon DEF Queues, QueuesBounded
      <4>. QED BY <4>1, <4>2, Zenon
    <3>5. EofIsFinal'
      <4>. SUFFICES ASSUME NEW c \in Ids, eof'[c]
                    PROVE  rx'[c] = <<>> /\ pending'[c][2] = 0 /\ ~HasSender(c)'
        BY Zenon DEF EofIsFinal
      <4>1. rx[c] = <<>> /\ pending[c][2] = 0 /\ ~HasSender(c)
        BY <2>0, Zenon DEF Queues, EofIsFinal
      <4>2. c # peers[src]
        BY <4>1, Zenon DEF HasSender
      <4>. QED BY <2>0, <3>0, <4>1, <4>2, Zenon DEF HasSender
    <3>. QED BY <3>2, <3>3, <3>4, <3>5, Zenon DEF Queues
  <2>2. CASE Fresh(src, seen + 1)
    <3>0. /\ demux'.id = next_id /\ next_id' = next_id + 1 /\ next_id \in Ids
          /\ rx' = rx /\ peers' = [peers EXCEPT ![src] = NoId]
          /\ peers \in [Peers -> Ids \cup {NoId}]
      BY <2>0, <2>2, UdpConstants DEF Fresh, Typed, RoutingTyped, Ids
    <3>1. Used'
      <4>1. \A i \in 1 .. Len(accept) : accept[i] \in Ids
        BY DEF Typed, ListenerTyped
      <4>. QED BY <2>0, <3>0, <4>1 DEF Queues, Used, Ids
    <3>2. FreshQueue' /\ QueuesBounded'
      BY <3>0 DEF Queues, Used, FreshQueue, QueuesBounded, Ids
    <3>3. EofIsFinal'
      BY <2>0, <3>0 DEF Queues, Used, EofIsFinal, HasSender, Ids
    <3>. QED BY <3>1, <3>2, <3>3, Zenon DEF Queues
  <2>. QED BY <1>1, <2>1, <2>2, Zenon DEF Receive
<1>2. CASE ReceiveError \/ BackoffEnds \/ Cancelled
  <2>1. /\ UNCHANGED <<peers, next_id, conn, accept, rx, pending, eof>>
        /\ demux'.pc \notin {"offer", "first"} /\ demux'.id = NoId
    BY <1>2 DEF ReceiveError, BackoffEnds, Cancelled, Idle, listener, reading
  <2>. QED BY <2>1 DEF Queues, Used, FreshQueue, QueuesBounded, EofIsFinal, HasSender, Ids
<1>3. CASE Offer
  <2>0. /\ demux.id \in Ids /\ demux.id < next_id /\ demux.pc = "offer"
        /\ UNCHANGED <<peers, next_id, rx, pending, eof>>
        /\ demux'.pc = "first" => demux'.id = demux.id
        /\ demux'.pc # "offer" /\ demux'.id \in {demux.id, NoId}
        /\ \A c \in Ids : c # demux.id => conn'[c] = conn[c]
    BY <1>3, Zenon DEF Offer, Idle, Routing, Introducing, reading, Typed, RoutingTyped, ConnTyped
  <2>1. \A i \in 1 .. Len(accept') : accept'[i] < next_id
    <3>1. accept \in Seq(Ids)
      BY Zenon DEF Typed, ListenerTyped
    <3>2. CASE accept' = accept
      BY <3>2, Zenon DEF Queues, Used
    <3>3. CASE accept' = Append(accept, demux.id)
      BY <2>0, <3>1, <3>3 DEF Queues, Used
    <3>. QED BY <1>3, <3>2, <3>3, Zenon DEF Offer
  <2>2. Used'
    BY <2>0, <2>1, Zenon DEF Queues, Used
  <2>3. FreshQueue' /\ QueuesBounded'
    BY <2>0, Zenon DEF Queues, FreshQueue, QueuesBounded
  <2>4. EofIsFinal'
    BY <2>0 DEF Queues, EofIsFinal, HasSender, Ids
  <2>. QED BY <2>2, <2>3, <2>4, Zenon DEF Queues
<1>4. CASE FirstDatagram
  <2>0. /\ demux.id \in Ids /\ demux.id < next_id /\ demux.pc = "first"
        /\ UNCHANGED <<peers, next_id, conn, accept, pending, eof>>
        /\ demux'.pc = "insert" /\ demux'.id = demux.id
        /\ rx' = [rx EXCEPT ![demux.id] = IF conn[demux.id] = "gone" THEN @ ELSE Append(@, demux.n)]
        /\ rx \in [Ids -> Seq(Ids)]
        /\ demux.n \in Ids
        /\ next_id \in Nat
    BY <1>4, Zenon DEF FirstDatagram, Routing, Introducing, listener, Typed, RoutingTyped, ReadingTyped
  <2>1. \A c \in Ids : c # demux.id => rx'[c] = rx[c]
    BY <2>0, Zenon
  <2>2. Used'
    BY <2>0, <2>1 DEF Queues, Used, Ids
  <2>3. FreshQueue'
    BY <2>0, Zenon DEF FreshQueue
  <2>4. QueuesBounded'
    <3>1. rx[demux.id] = <<>>
      BY <2>0, Zenon DEF Queues, FreshQueue
    <3>2. rx'[demux.id] = <<>> \/ rx'[demux.id] = Append(<<>>, demux.n)
      BY <2>0, <3>1, Zenon
    <3>3. Len(rx'[demux.id]) <= QueueSize
      <4>1. Len(<<>>) = 0 /\ Len(Append(<<>>, demux.n)) = 1
        OBVIOUS
      <4>2. Len(rx'[demux.id]) = 0 \/ Len(rx'[demux.id]) = 1
        BY <3>2, <4>1, Zenon
      <4>3. QueueSize >= 1 /\ QueueSize \in Nat
        BY UdpConstants
      <4>4. ASSUME NEW l, l = 0 \/ l = 1 PROVE l <= QueueSize
        BY <4>3, <4>4
      <4>. QED BY <4>2, <4>4, Zenon
    <3>. QED BY <2>1, <3>3, Zenon DEF Queues, QueuesBounded
  <2>5. EofIsFinal'
    BY <2>0, <2>1 DEF Queues, EofIsFinal, HasSender
  <2>. QED BY <2>2, <2>3, <2>4, <2>5, Zenon DEF Queues
<1>5. CASE Insert
  <2>0. /\ UNCHANGED <<next_id, conn, accept, rx, pending, eof>>
        /\ demux'.pc = "recv" /\ demux'.id = NoId
        /\ peers' = [peers EXCEPT ![demux.src] = demux.id]
        /\ peers \in [Peers -> Ids \cup {NoId}]
    BY <1>5, Zenon DEF Insert, Idle, listener, reading, Typed, RoutingTyped
  <2>1. Used' /\ FreshQueue' /\ QueuesBounded'
    BY <2>0, Zenon DEF Queues, Used, FreshQueue, QueuesBounded
  <2>2. \A d \in Ids : HasSender(d)' => HasSender(d)
    BY <2>0 DEF HasSender, Ids
  <2>3. EofIsFinal'
    BY <2>0, <2>2, Zenon DEF Queues, EofIsFinal
  <2>. QED BY <2>1, <2>3, Zenon DEF Queues
<1>6. CASE Drain
  <2>0. /\ UNCHANGED <<next_id, conn, accept, rx, pending, eof>>
        /\ demux'.pc = "stopped" /\ demux'.id = NoId
        /\ peers' = [p \in Peers |-> NoId]
    BY <1>6, Zenon DEF Drain, Idle, listener, reading
  <2>1. Used' /\ FreshQueue' /\ QueuesBounded'
    BY <2>0, Zenon DEF Queues, Used, FreshQueue, QueuesBounded
  <2>2. \A d \in Ids : HasSender(d)' => HasSender(d)
    BY <2>0 DEF HasSender, Ids
  <2>3. EofIsFinal'
    BY <2>0, <2>2, Zenon DEF Queues, EofIsFinal
  <2>. QED BY <2>1, <2>3, Zenon DEF Queues
<1>. QED BY <1>1, <1>2, <1>3, <1>4, <1>5, <1>6, Zenon DEF Demux

\* A handler only shortens the queue of its own connection, and reads end of
\* file only when that queue is empty and has no sender.
LEMMA ConnectionQueues ==
    ASSUME NEW c \in Ids, Typed, Routing, Queues,
           \/ Elapse(c) \/ ttl_watch(c) \/ poll_read(c)
           \/ poll_write(c) \/ poll_shutdown(c) \/ Return(c) \/ CloseSteps(c)
    PROVE  Queues'
<1>. USE DEF NoId
<1>1. CASE Elapse(c) \/ Expires(c) \/ WatchReturns(c) \/ CancelExpired(c) \/ poll_write(c)
  <2>0. UNCHANGED <<peers, demux, next_id, conn, accept, rx, pending, eof>>
    BY <1>1, Zenon DEF Elapse, Expires, WatchReturns, CancelExpired, poll_write, routing, listener, reading
  <2>1. Used' /\ FreshQueue' /\ QueuesBounded'
    BY <2>0, Zenon DEF Queues, Used, FreshQueue, QueuesBounded
  <2>2. EofIsFinal'
    BY <2>0, Zenon DEF Queues, EofIsFinal, HasSender
  <2>. QED BY <2>1, <2>2, Zenon DEF Queues
<1>2. CASE Unregister(c)
  <2>0. /\ UNCHANGED <<demux, next_id, conn, accept, rx, pending, eof>>
        /\ \A p \in Peers : peers'[p] = peers[p] \/ (peers[p] = c /\ peers'[p] = NoId)
    BY <1>2, RemovePeer, Zenon DEF Unregister, listener, reading
  <2>1. Used' /\ FreshQueue' /\ QueuesBounded'
    BY <2>0, Zenon DEF Queues, Used, FreshQueue, QueuesBounded
  <2>2. \A d \in Ids : HasSender(d)' => HasSender(d)
    BY <2>0 DEF HasSender, Ids, NoId
  <2>3. EofIsFinal'
    BY <2>0, <2>2, Zenon DEF Queues, EofIsFinal
  <2>. QED BY <2>1, <2>3, Zenon DEF Queues
<1>3. ASSUME NEW from \in {"open", "discarded"}, NEW to, BeginClose(c, from, to) PROVE Queues'
  <2>0. /\ UNCHANGED <<peers, demux, next_id, accept, rx, pending, eof>>
        /\ conn[c] = from /\ conn' = [conn EXCEPT ![c] = to]
    BY <1>3, Zenon DEF BeginClose, routing, listener, reading
  <2>1. Used' /\ FreshQueue' /\ QueuesBounded'
    BY <2>0, Zenon DEF Queues, Used, FreshQueue, QueuesBounded, Typed, ConnTyped
  <2>2. EofIsFinal'
    BY <2>0, Zenon DEF Queues, EofIsFinal, HasSender
  <2>. QED BY <2>1, <2>2, Zenon DEF Queues
<1>4. ASSUME NEW from \in {"closing", "dropping"}, NEW to, EndClose(c, from, to) PROVE Queues'
  <2>0. /\ UNCHANGED <<demux, next_id, accept>>
        /\ conn[c] = from /\ conn' = [conn EXCEPT ![c] = to]
        /\ \A p \in Peers : peers'[p] = peers[p] \/ (peers[p] = c /\ peers'[p] = NoId)
    BY <1>4, RemovePeer, Zenon DEF EndClose, listener
  <2>5. \A d \in Ids : rx'[d] = rx[d] \/ rx'[d] = <<>>
    BY <1>4, Zenon DEF EndClose, Typed, ReadingTyped, reading
  <2>6. \A d \in Ids : pending'[d] = pending[d] \/ pending'[d] = <<0, 0>>
    BY <1>4, Zenon DEF EndClose, Typed, ReadingTyped, reading
  <2>7. \A d \in Ids : eof'[d] => eof[d]
    BY <1>4, Zenon DEF EndClose, Typed, ReadingTyped, reading
  <2>1. Used'
    BY <2>0, <2>5, <2>7, Zenon DEF Queues, Used, Typed, ConnTyped
  <2>2. FreshQueue'
    BY <2>0, <2>5, Zenon DEF Queues, FreshQueue, Routing, Introducing
  <2>3. QueuesBounded'
    BY <2>5, UdpConstants DEF Queues, QueuesBounded
  <2>8. \A d \in Ids : HasSender(d)' => HasSender(d)
    BY <2>0 DEF HasSender, Ids, NoId
  <2>4. EofIsFinal'
    BY <2>5, <2>6, <2>7, <2>8 DEF Queues, EofIsFinal
  <2>. QED BY <2>1, <2>2, <2>3, <2>4, Zenon DEF Queues
<1>5. CASE poll_read(c)
  <2>0. UNCHANGED <<peers, demux, next_id, conn, accept>> /\ conn[c] = "open" /\ c < next_id
    BY <1>5, Zenon DEF poll_read, routing, listener, Queues, Used
  <2>1. ASSUME NEW k \in Bufs, ReadPending(c, k) \/ ReadQueue(c, k) PROVE Queues'
    <3>0. /\ UNCHANGED eof
          /\ \A d \in Ids : d # c => rx'[d] = rx[d] /\ pending'[d] = pending[d]
      BY <2>1, Zenon DEF ReadPending, ReadQueue, HandOver, Typed, ReadingTyped
    <3>1. rx'[c] = rx[c] \/ (rx[c] # <<>> /\ rx'[c] = Tail(rx[c]))
      BY <2>1, Zenon DEF ReadPending, ReadQueue, Typed, ReadingTyped
    <3>2. rx[c] \in Seq(Ids)
      BY Zenon DEF Typed, ReadingTyped
    <3>3. ~eof[c]
      <4>1. pending[c][2] # 0 \/ rx[c] # <<>>
        BY <2>1 DEF ReadPending, ReadQueue
      <4>. QED BY <4>1, Zenon DEF Queues, EofIsFinal
    <3>4. Used'
      <4>1. \A d \in Ids : d >= next_id => d # c
        BY <2>0, SMTT(20) DEF Ids, Typed, RoutingTyped
      <4>. QED BY <2>0, <3>0, <4>1, Zenon DEF Queues, Used
    <3>5. FreshQueue'
      BY <2>0, <3>0, <3>1, Zenon DEF Queues, FreshQueue, Routing, Introducing
    <3>6. QueuesBounded'
      <4>1. Len(rx'[c]) <= Len(rx[c]) /\ Len(rx'[c]) \in Nat /\ Len(rx[c]) \in Nat
        <5>1. CASE rx'[c] = rx[c]
          BY <3>2, <5>1
        <5>2. CASE rx[c] # <<>> /\ rx'[c] = Tail(rx[c])
          <6>1. Len(Tail(rx[c])) = Len(rx[c]) - 1 /\ Len(rx[c]) \in Nat \ {0}
            BY <3>2, <5>2
          <6>. QED BY <5>2, <6>1
        <5>. QED BY <3>1, <5>1, <5>2, Zenon
      <4>2. Len(rx'[c]) <= QueueSize
        BY <4>1, UdpConstants DEF Queues, QueuesBounded
      <4>. QED BY <3>0, <4>2, Zenon DEF Queues, QueuesBounded
    <3>7. EofIsFinal'
      <4>1. \A d \in Ids : HasSender(d)' = HasSender(d)
        BY <2>0, Zenon DEF HasSender
      <4>. QED BY <3>0, <3>3, <4>1, Zenon DEF Queues, EofIsFinal
    <3>. QED BY <3>4, <3>5, <3>6, <3>7, Zenon DEF Queues
  <2>2. CASE ReadEof(c)
    <3>0. /\ UNCHANGED <<rx, pending>>
          /\ pending[c][2] = 0 /\ rx[c] = <<>> /\ ~HasSender(c)
          /\ \A d \in Ids : d # c => eof'[d] = eof[d]
      BY <2>2, Zenon DEF ReadEof, Typed, ReadingTyped
    <3>1. Used'
      <4>1. \A d \in Ids : d >= next_id => d # c
        BY <2>0 DEF Ids, Typed, RoutingTyped
      <4>. QED BY <2>0, <3>0, <4>1, Zenon DEF Queues, Used
    <3>2. FreshQueue' /\ QueuesBounded'
      BY <2>0, <3>0, Zenon DEF Queues, FreshQueue, QueuesBounded
    <3>3. EofIsFinal'
      <4>1. \A d \in Ids : HasSender(d)' = HasSender(d)
        BY <2>0, Zenon DEF HasSender
      <4>. QED BY <3>0, <4>1, Zenon DEF Queues, EofIsFinal
    <3>. QED BY <3>1, <3>2, <3>3, Zenon DEF Queues
  <2>. QED BY <1>5, <2>1, <2>2, SMTT(20) DEF poll_read
<1>. QED BY <1>1, <1>2, <1>3, <1>4, <1>5, Zenon DEF ttl_watch, poll_shutdown, Return, CloseSteps

\* Serving and shutting down keep the queues.
LEMMA ServerQueues == Typed /\ Routing /\ Queues /\ (Serve \/ Shutdown) => Queues'
<1>. SUFFICES ASSUME Typed, Routing, Queues, Serve \/ Shutdown PROVE Queues'
  BY Zenon
<1>0. UNCHANGED <<peers, demux, next_id, rx, pending, eof>>
  BY Zenon DEF Serve, Shutdown, Accept, ServeBreaks, ServeReturns, routing, reading
<1>1. Used'
  <2>1. CASE Accept
    <3>1. accept \in Seq(Ids) /\ accept # <<>> /\ accept' = Tail(accept)
          /\ conn' = [conn EXCEPT ![Head(accept)] = "open"]
      BY <2>1, Zenon DEF Accept, Typed, ListenerTyped
    <3>2. Head(accept) \in Ids /\ Head(accept) < next_id
      BY <3>1 DEF Queues, Used
    <3>3. \A i \in 1 .. Len(accept') : accept'[i] < next_id
      BY <3>1 DEF Queues, Used
    <3>. QED BY <1>0, <3>1, <3>2, <3>3, Zenon DEF Queues, Used, Typed, ConnTyped
  <2>2. CASE ServeReturns
    BY <1>0, <2>2 DEF ServeReturns, Queues, Used
  <2>3. CASE ServeBreaks \/ Shutdown
    BY <1>0, <2>3, Zenon DEF ServeBreaks, Shutdown, listener, Queues, Used
  <2>. QED BY <2>1, <2>2, <2>3, Zenon DEF Serve
<1>2. FreshQueue' /\ QueuesBounded'
  BY <1>0, Zenon DEF Queues, FreshQueue, QueuesBounded
<1>3. EofIsFinal'
  BY <1>0, Zenon DEF Queues, EofIsFinal, HasSender
<1>. QED BY <1>1, <1>2, <1>3, Zenon DEF Queues

-----------------------------------------------------------------------------

\* The inductive invariant: the types, the entries of the map and the queues.
IInv == Typed /\ Routing /\ Queues

\* Every step of the demultiplex task, the watchers, the handlers and the
\* server keeps the inductive invariant.
THEOREM Inductive == Spec => []IInv
<1>1. Init => IInv
  BY InitTyped, InitRouting, InitQueues, Zenon DEF IInv
<1>2. IInv /\ [Next]_vars => IInv'
  <2>. SUFFICES ASSUME IInv, [Next]_vars PROVE IInv'
    BY Zenon
  <2>. USE DEF IInv
  <2>1. CASE Demux
    <3>1. Introducing
      BY Zenon DEF Routing
    <3>. QED BY <2>1, <3>1, DemuxTyped, DemuxRouting, DemuxQueues, Zenon
  <2>2. CASE Serve \/ Shutdown
    BY <2>2, ServerTyped, ServerRouting, ServerQueues, Zenon
  <2>3. ASSUME NEW c \in Ids,
               \/ Elapse(c) \/ ttl_watch(c) \/ poll_read(c)
               \/ poll_write(c) \/ poll_shutdown(c) \/ Return(c) \/ CloseSteps(c)
        PROVE  IInv'
    <3>1. Routing' /\ Queues'
      BY <2>3, ConnectionRouting, ConnectionQueues, Zenon
    <3>2. Typed'
      BY <2>3, ConnectionTyped, ReadTyped, Zenon
    <3>. QED BY <3>1, <3>2, Zenon
  <2>4. CASE UNCHANGED vars
    <3>1. Typed'
      BY <2>4 DEF vars, routing, listener, reading, tokens, serving, Typed, RoutingTyped, ListenerTyped,
                  ConnTyped, ReadingTyped, TokensTyped, ServingTyped
    <3>2. Routing'
      BY <2>4, SMTT(20) DEF vars, routing, tokens, Routing, Introducing, NotIntroducing, Unused, EntryOwned,
                  WatchedHasPeer, ClosingIsClosed, LiveIsRouted
    <3>3. Queues'
      BY <2>4, Zenon DEF vars, routing, listener, reading, Queues, Used, FreshQueue, QueuesBounded,
                  EofIsFinal, HasSender
    <3>. QED BY <3>1, <3>2, <3>3, Zenon
  <2>. QED BY <2>1, <2>2, <2>3, <2>4, Zenon DEF Next
<1>. QED BY <1>1, <1>2, PTL DEF Spec

\* The variables keep their types and no queue outgrows its capacity, whatever
\* the capacities, the peers and the datagrams.
THEOREM UdpTyped == Spec => []TypeOK
<1>1. IInv => TypeOK
  BY Zenon DEF IInv, Typed, Queues, TypeOK
<1>. QED BY <1>1, Inductive, PTL

\* A connection that is neither closed nor expired is the one its peer's
\* datagrams go to.
THEOREM UdpRouted == Spec => []LiveIsRouted
<1>1. IInv => LiveIsRouted
  BY Zenon DEF IInv, Routing
<1>. QED BY <1>1, Inductive, PTL

\* End of file is final.
THEOREM UdpEofFinal == Spec => []EofIsFinal
<1>1. IInv => EofIsFinal
  BY Zenon DEF IInv, Queues
<1>. QED BY <1>1, Inductive, PTL

\* A connection that has been given its sender never gets another one: a step
\* may take the sender away, or make that of the next id.
LEMMA SendersOnlyGo ==
    ASSUME IInv, [Next]_vars, NEW c \in Ids, c < next_id, HasSender(c)'
    PROVE  HasSender(c)
<1>. USE DEF IInv, HasSender
<1>0. next_id \in Nat /\ c \in Nat /\ c # NoId
  BY SMTT(20) DEF Typed, RoutingTyped, Ids, NoId
<1>1. ASSUME NEW src \in Peers, Receive(src) PROVE HasSender(c)
  <2>1. CASE Known(src, seen + 1)
    BY <1>1, <2>1, Zenon DEF Known
  <2>2. CASE Fresh(src, seen + 1)
    <3>1. demux'.id = next_id /\ \A p \in Peers : peers'[p] = peers[p] \/ peers'[p] = NoId
      BY <2>2, Zenon DEF Fresh, Typed, RoutingTyped
    <3>. QED BY <1>0, <3>1
  <2>. QED BY <1>1, <2>1, <2>2, Zenon DEF Receive
<1>2. CASE ReceiveError \/ BackoffEnds \/ Cancelled \/ Offer \/ FirstDatagram
  <2>1. peers' = peers /\ demux'.id \in {demux.id, NoId}
    BY <1>2 DEF ReceiveError, BackoffEnds, Cancelled, Offer, FirstDatagram, Idle, Typed, RoutingTyped
  <2>. QED BY <1>0, <2>1
<1>3. CASE Insert
  <2>1. demux'.id = NoId /\ \A p \in Peers : peers'[p] \in {peers[p], demux.id}
    BY <1>3, Zenon DEF Insert, Idle, Typed, RoutingTyped
  <2>. QED BY <1>0, <2>1, Zenon
<1>4. CASE Drain
  <2>1. demux'.id = NoId /\ \A p \in Peers : peers'[p] = NoId
    BY <1>4, Zenon DEF Drain, Idle
  <2>. QED BY <1>0, <2>1, Zenon
<1>5. CASE Serve \/ Shutdown
  BY <1>5, Zenon DEF Serve, Shutdown, Accept, ServeBreaks, ServeReturns, routing
<1>6. ASSUME NEW d \in Ids, remove_peer(d), UNCHANGED demux PROVE HasSender(c)
  BY <1>0, <1>6, RemovePeer, Zenon
<1>7. ASSUME NEW d \in Ids,
             \/ Elapse(d) \/ ttl_watch(d) \/ poll_read(d)
             \/ poll_write(d) \/ poll_shutdown(d) \/ Return(d) \/ CloseSteps(d)
      PROVE  HasSender(c)
  <2>1. (remove_peer(d) /\ UNCHANGED demux) \/ UNCHANGED <<peers, demux>>
    BY <1>7, Zenon DEF Elapse, ttl_watch, Expires, WatchReturns, Unregister, CancelExpired, poll_read,
                poll_write, poll_shutdown, Return, CloseSteps, BeginClose, EndClose, routing
  <2>. QED BY <1>6, <2>1, SMTT(20)
<1>8. CASE UNCHANGED vars
  BY <1>8, Zenon DEF vars, routing
<1>. QED BY <1>1, <1>2, <1>3, <1>4, <1>5, <1>7, <1>8, Zenon DEF Next, Demux

\* A watcher comes to its last two states only by Unregister.
LEMMA OnlyUnregisterExpires ==
    ASSUME IInv, [Next]_vars, NEW c \in Ids, watch'[c] \in {"cancel", "expired"},
           watch[c] \notin {"cancel", "expired"}
    PROVE  Unregister(c)
<1>. USE DEF IInv, Typed, TokensTyped
<1>1. CASE Demux
  <2>1. CASE Insert
    BY <2>1, Zenon DEF Insert
  <2>. QED BY <1>1, <2>1, Zenon DEF Demux, Receive, ReceiveError, BackoffEnds, Offer, FirstDatagram, Cancelled, Drain, tokens
<1>2. CASE Serve \/ Shutdown
  BY <1>2, Zenon DEF Serve, Shutdown, Accept, ServeBreaks, ServeReturns, tokens
<1>3. ASSUME NEW d \in Ids, ttl_watch(d) PROVE Unregister(c)
  BY <1>3, Zenon DEF ttl_watch, Expires, WatchReturns, Unregister, CancelExpired
<1>4. ASSUME NEW d \in Ids, \/ Elapse(d) \/ poll_read(d) \/ poll_write(d)
                            \/ poll_shutdown(d) \/ Return(d) \/ CloseSteps(d)
      PROVE  UNCHANGED watch
  BY <1>4, Zenon DEF Elapse, poll_read, poll_write, poll_shutdown, Return, CloseSteps, BeginClose, EndClose, tokens
<1>5. CASE UNCHANGED vars
  BY <1>5, Zenon DEF vars, tokens
<1>. QED BY <1>1, <1>2, <1>3, <1>4, <1>5, Zenon DEF Next

\* A connection that ttl_watch has expired has no sender left, so that the
\* handler's reads end.
THEOREM UdpExpiryEnds == Spec => []ExpiryEndsReads
<1>1. Init => ExpiryEndsReads
  BY Zenon DEF Init, ExpiryEndsReads
<1>2. IInv /\ ExpiryEndsReads /\ [Next]_vars => ExpiryEndsReads'
  <2>. SUFFICES ASSUME IInv, ExpiryEndsReads, [Next]_vars,
                       NEW c \in Ids, watch'[c] \in {"cancel", "expired"}
                PROVE  ~HasSender(c)'
    BY Zenon DEF ExpiryEndsReads
  <2>1. CASE watch[c] \in {"cancel", "expired"}
    <3>1. c < next_id
      BY <2>1 DEF IInv, Routing, Unused, Typed, RoutingTyped, Ids
    <3>. QED BY <2>1, <3>1, SendersOnlyGo, Zenon DEF ExpiryEndsReads
  <2>2. CASE watch[c] \notin {"cancel", "expired"}
    <3>1. Unregister(c)
      BY <2>2, OnlyUnregisterExpires, Zenon
    <3>2. demux' = demux /\ remove_peer(c) /\ watch[c] = "expire"
      BY <3>1, Zenon DEF Unregister
    <3>3. demux.id # c
      BY <3>2 DEF IInv, Routing, Introducing, NotIntroducing, Ids, NoId
    <3>4. \A p \in Peers : peers'[p] # c
      BY <3>2 DEF remove_peer, IInv, Routing, EntryOwned, Ids, NoId
    <3>. QED BY <3>2, <3>3, <3>4, Zenon DEF HasSender
  <2>. QED BY <2>1, <2>2, Zenon
<1>. QED BY <1>1, <1>2, Inductive, PTL DEF Spec

\* All of this together: connections are routed while they live, and end once
\* and for good (demux_loop, ttl_watch, poll_read).
THEOREM UdpSound == Spec => []ConnectionsSound
<1>1. TypeOK /\ LiveIsRouted /\ EofIsFinal /\ ExpiryEndsReads => ConnectionsSound
  BY Zenon DEF ConnectionsSound
<1>. QED BY <1>1, UdpTyped, UdpRouted, UdpEofFinal, UdpExpiryEnds, PTL


-----------------------------------------------------------------------------
(* Reading.                                                                *)

\* The queue of c is in the order of arrival, after the datagram last read.
InOrder(c) ==
    /\ \A i \in 1 .. Len(rx[c]) : got[c][1] < rx[c][i] /\ rx[c][i] <= seen
    /\ \A i, j \in 1 .. Len(rx[c]) : i < j => rx[c][i] < rx[c][j]

\* What is pending of c is the rest of the datagram last read.
Whole(c) ==
    /\ got[c][1] <= seen
    /\ pending[c][2] > 0 => got[c][1] = pending[c][1]
    /\ got[c][1] # 0 => got[c][3] = len[got[c][1]] - pending[c][2]

\* Nothing has been read of a connection before its first datagram is queued.
Unread ==
    /\ \A c \in Ids : c >= next_id => got[c][1] = 0
    /\ demux.pc \in {"offer", "first"} => got[demux.id][1] = 0 /\ demux.n <= seen

ReadInv == Unread /\ \A c \in Ids : InOrder(c) /\ Whole(c)

\* What the types say of one connection.
LEMMA ReadTypes ==
    ASSUME Typed, NEW c \in Ids
    PROVE  /\ seen \in Nat /\ next_id \in Nat /\ c \in Nat /\ c # 0
           /\ rx[c] \in Seq(Ids)
           /\ pending[c][2] \in Nat
           /\ pending[c][2] > 0 => pending[c][1] \in Ids
           /\ got[c] = <<got[c][1], got[c][2], got[c][3]>>
           /\ got[c][1] \in Ids \cup {0} /\ got[c][2] \in Int /\ got[c][3] \in Int
           /\ got[c][1] \in Nat /\ \A i \in 1 .. Len(rx[c]) : rx[c][i] \in Nat
           /\ \A n \in Ids : n \in Nat /\ n # 0 /\ len[n] \in Nat
<1>1. seen \in Nat /\ next_id \in Nat /\ c \in Nat /\ c # 0
  BY UdpConstants DEF Typed, RoutingTyped, Ids
<1>2. rx[c] \in Seq(Ids)
  BY Zenon DEF Typed, ReadingTyped
<1>3. pending[c][2] \in Nat /\ (pending[c][2] > 0 => pending[c][1] \in Ids)
  <2>1. pending[c] \in (Ids \X Nat) \cup {<<0, 0>>}
    BY Zenon DEF Typed, ReadingTyped
  <2>. QED BY <2>1
<1>4. got[c] \in (Ids \cup {0}) \X Int \X Int
  BY Zenon DEF Typed, ReadingTyped
<1>5. \A n \in Ids : n \in Nat /\ n # 0 /\ len[n] \in Nat
  BY UdpConstants DEF Typed, RoutingTyped, Ids
<1>6. got[c] = <<got[c][1], got[c][2], got[c][3]>>
      /\ got[c][1] \in Ids \cup {0} /\ got[c][2] \in Int /\ got[c][3] \in Int
  BY <1>4
<1>7. got[c][1] \in Nat
  BY <1>5, <1>6
<1>8. \A i \in 1 .. Len(rx[c]) : rx[c][i] \in Nat
  BY <1>2, <1>5
<1>. QED BY <1>1, <1>2, <1>3, <1>5, <1>6, <1>7, <1>8, Zenon

\* A step that leaves what c reads alone keeps it in order and whole.
LEMMA ReadStays ==
    ASSUME Typed, Typed', NEW c \in Ids, InOrder(c), Whole(c),
           rx'[c] = rx[c], got'[c] = got[c], pending'[c] = pending[c], len' = len, seen <= seen'
    PROVE  InOrder(c)' /\ Whole(c)'
<1>0. seen \in Nat /\ seen' \in Nat
  BY DEF Typed, RoutingTyped
<1>1. \A i \in 1 .. Len(rx[c]) : rx[c][i] \in Nat
  BY ReadTypes, Zenon
<1>2. got[c][1] \in Nat
  BY ReadTypes, Zenon
<1>3. InOrder(c)'
  <2>1. \A n \in Nat : n <= seen => n <= seen'
    BY <1>0
  <2>. QED BY <1>1, <2>1, Zenon DEF InOrder
<1>4. Whole(c)'
  BY <1>0, <1>2 DEF Whole
<1>. QED BY <1>3, <1>4, Zenon

\* A datagram that arrives after all others may be queued behind them.
LEMMA QueueGrows ==
    ASSUME Typed, Typed', NEW c \in Ids, InOrder(c), Whole(c), NEW n \in Ids,
           rx'[c] = Append(rx[c], n), got'[c] = got[c], pending'[c] = pending[c], len' = len,
           seen <= seen', n <= seen', got[c][1] < n, \A i \in 1 .. Len(rx[c]) : rx[c][i] < n
    PROVE  InOrder(c)' /\ Whole(c)'
<1>0. seen \in Nat /\ seen' \in Nat
  BY DEF Typed, RoutingTyped
<1>1. rx[c] \in Seq(Ids) /\ got[c][1] \in Nat /\ \A i \in 1 .. Len(rx[c]) : rx[c][i] \in Nat
  BY ReadTypes, Zenon
<1>2. /\ Len(rx'[c]) = Len(rx[c]) + 1 /\ Len(rx[c]) \in Nat
      /\ rx'[c][Len(rx[c]) + 1] = n
      /\ \A i \in 1 .. Len(rx[c]) : rx'[c][i] = rx[c][i]
  BY <1>1
<1>3. \A i \in 1 .. Len(rx'[c]) : i \in 1 .. Len(rx[c]) \/ i = Len(rx[c]) + 1
  BY <1>2
<1>4. \A i \in 1 .. Len(rx'[c]) : got'[c][1] < rx'[c][i] /\ rx'[c][i] <= seen'
  <2>. TAKE i \in 1 .. Len(rx'[c])
  <2>1. CASE i \in 1 .. Len(rx[c])
    BY <1>0, <1>1, <1>2, <2>1 DEF InOrder
  <2>2. CASE i = Len(rx[c]) + 1
    BY <1>2, <2>2, Zenon
  <2>. QED BY <1>3, <2>1, <2>2, Zenon
<1>5. \A i, j \in 1 .. Len(rx'[c]) : i < j => rx'[c][i] < rx'[c][j]
  <2>. SUFFICES ASSUME NEW i \in 1 .. Len(rx'[c]), NEW j \in 1 .. Len(rx'[c]), i < j
                PROVE  rx'[c][i] < rx'[c][j]
    BY Zenon
  <2>1. i \in 1 .. Len(rx[c])
    BY <1>2
  <2>2. CASE j \in 1 .. Len(rx[c])
    BY <1>2, <2>1, <2>2, Zenon DEF InOrder
  <2>3. CASE j = Len(rx[c]) + 1
    BY <1>2, <2>1, <2>3, Zenon
  <2>. QED BY <1>3, <2>2, <2>3, Zenon
<1>6. Whole(c)'
  BY <1>0, <1>1 DEF Whole
<1>. QED BY <1>4, <1>5, <1>6, Zenon DEF InOrder

\* What one step of poll_read takes: the bytes that follow those of the last
\* read, or the first bytes of a later datagram once that one is complete.
Follows(c) ==
    \/ got'[c] = got[c]
    \/ got'[c][1] = got[c][1] /\ got'[c][2] = got[c][3]
    \/ /\ got'[c][1] > got[c][1] /\ got'[c][2] = 0
       /\ got[c][1] # 0 => got[c][3] = len[got[c][1]]

\* What a read gets of the datagram it is at, and what it leaves.
LEMMA HandedOver ==
    ASSUME Typed, NEW c \in Ids, NEW n \in Ids, NEW left \in Nat, left > 0, NEW k \in Nat \ {0},
           HandOver(c, n, left, Smaller(k, left))
    PROVE  /\ got'[c][1] = n /\ got'[c][2] = len[n] - left
           /\ got'[c][3] = len[n] - pending'[c][2]
           /\ pending'[c][2] > 0 => pending'[c][1] = n
           /\ \A d \in Ids : d # c => got'[d] = got[d] /\ pending'[d] = pending[d]
<1>. DEFINE m == Smaller(k, left)
<1>1. m \in Nat /\ m <= left
  BY DEF Smaller
<1>2. len[n] \in Nat
  BY ReadTypes, Zenon
<1>3. /\ got' = [got EXCEPT ![c] = <<n, len[n] - left, len[n] - left + m>>]
      /\ pending' = [pending EXCEPT ![c] = IF m < left THEN <<n, left - m>> ELSE <<0, 0>>]
  BY Zenon DEF HandOver
<1>4. got \in [Ids -> (Ids \cup {0}) \X Int \X Int] /\ pending \in [Ids -> (Ids \X Nat) \cup {<<0, 0>>}]
  BY Zenon DEF Typed, ReadingTyped
<1>. HIDE DEF m
<1>5. /\ got'[c] = <<n, len[n] - left, len[n] - left + m>>
      /\ pending'[c] = IF m < left THEN <<n, left - m>> ELSE <<0, 0>>
      /\ \A d \in Ids : d # c => got'[d] = got[d] /\ pending'[d] = pending[d]
  BY <1>3, <1>4, Zenon
<1>6. got'[c][1] = n /\ got'[c][2] = len[n] - left /\ got'[c][3] = len[n] - left + m
  BY <1>5
<1>7. CASE m < left
  <2>1. pending'[c][1] = n /\ pending'[c][2] = left - m
    BY <1>5, <1>7
  <2>. QED BY <1>1, <1>2, <1>5, <1>6, <2>1
<1>8. CASE ~(m < left)
  <2>1. pending'[c][2] = 0 /\ m = left
    BY <1>1, <1>5, <1>8
  <2>. QED BY <1>1, <1>2, <1>5, <1>6, <2>1
<1>. QED BY <1>7, <1>8, Zenon

\* poll_read goes on where it stopped, or starts the next datagram once the
\* last is used up.
LEMMA PollReads ==
    ASSUME Typed, Typed', Routing, Queues, ReadInv, NEW c \in Ids, poll_read(c)
    PROVE  ReadInv' /\ \A d \in Ids : Follows(d)
<1>0. /\ UNCHANGED <<demux, next_id, seen, len>> /\ conn[c] = "open"
      /\ c < next_id /\ InOrder(c) /\ Whole(c)
  BY Zenon DEF poll_read, routing, Queues, Used, ReadInv
<1>1. /\ seen \in Nat /\ next_id \in Nat /\ c \in Nat /\ rx[c] \in Seq(Ids)
      /\ pending[c][2] \in Nat /\ got[c][1] \in Nat /\ got[c][3] \in Int
      /\ got[c][1] # 0 => got[c][1] \in Ids
      /\ \A n \in Ids : n \in Nat /\ n # 0 /\ len[n] \in Nat
  BY ReadTypes, Zenon
<1>2. SUFFICES /\ \A d \in Ids : d # c => got'[d] = got[d] /\ pending'[d] = pending[d] /\ rx'[d] = rx[d]
               /\ InOrder(c)' /\ Whole(c)' /\ Follows(c)
               /\ demux.pc \in {"offer", "first"} /\ demux.id = c => got'[c][1] = 0
  <2>1. \A d \in Ids : InOrder(d)' /\ Whole(d)'
    BY <1>0, <1>1, <1>2, ReadStays DEF ReadInv
  <2>2. \A d \in Ids : Follows(d)
    BY <1>2, Zenon DEF Follows
  <2>3. Unread'
    <3>1. \A d \in Ids : d >= next_id => d # c
      BY <1>0, <1>1, SMTT(20) DEF Ids
    <3>2. \A d \in Ids : d >= next_id => got'[d][1] = 0
      BY <1>2, <3>1, Zenon DEF ReadInv, Unread
    <3>3. demux.pc \in {"offer", "first"} => demux.id \in Ids
      BY Zenon DEF Routing, Introducing
    <3>. QED BY <1>0, <1>2, <3>2, <3>3, Zenon DEF ReadInv, Unread
  <2>. QED BY <2>1, <2>2, <2>3, Zenon DEF ReadInv
<1>3. ASSUME NEW k \in Bufs, ReadPending(c, k)
      PROVE  /\ \A d \in Ids : d # c => got'[d] = got[d] /\ pending'[d] = pending[d] /\ rx'[d] = rx[d]
             /\ InOrder(c)' /\ Whole(c)' /\ Follows(c)
             /\ demux.pc \in {"offer", "first"} /\ demux.id = c => got'[c][1] = 0
  <2>. DEFINE n == pending[c][1]
  <2>0. k \in Nat \ {0}
    BY UdpConstants, Zenon
  <2>1. /\ pending[c][2] > 0 /\ n \in Ids /\ rx' = rx
        /\ HandOver(c, n, pending[c][2], Smaller(k, pending[c][2]))
    BY <1>3, ReadTypes, Zenon DEF ReadPending
  <2>2. /\ got'[c][1] = n /\ got'[c][2] = len[n] - pending[c][2]
        /\ got'[c][3] = len[n] - pending'[c][2]
        /\ pending'[c][2] > 0 => pending'[c][1] = n
        /\ \A d \in Ids : d # c => got'[d] = got[d] /\ pending'[d] = pending[d]
    BY <1>1, <2>0, <2>1, HandedOver, Zenon
  <2>3. got[c][1] = n /\ n # 0 /\ got[c][3] = len[n] - pending[c][2]
    BY <1>0, <2>1 DEF Whole, Ids
  <2>. HIDE DEF n
  <2>4. Follows(c)
    BY <2>2, <2>3, Zenon DEF Follows
  <2>5. Whole(c)'
    BY <1>0, <2>2, <2>3, Zenon DEF Whole
  <2>6. InOrder(c)'
    BY <1>0, <2>1, <2>2, <2>3, Zenon DEF InOrder
  <2>7. ~(demux.pc \in {"offer", "first"} /\ demux.id = c)
    BY <2>3, Zenon DEF ReadInv, Unread
  <2>. QED BY <2>1, <2>2, <2>4, <2>5, <2>6, <2>7, Zenon
<1>4. ASSUME NEW k \in Bufs, ReadQueue(c, k)
      PROVE  /\ \A d \in Ids : d # c => got'[d] = got[d] /\ pending'[d] = pending[d] /\ rx'[d] = rx[d]
             /\ InOrder(c)' /\ Whole(c)' /\ Follows(c)
             /\ demux.pc \in {"offer", "first"} /\ demux.id = c => got'[c][1] = 0
  <2>. DEFINE n == Head(rx[c])
  <2>0. k \in Nat \ {0}
    BY UdpConstants, Zenon
  <2>1. /\ pending[c][2] = 0 /\ rx[c] # <<>>
        /\ rx' = [rx EXCEPT ![c] = Tail(@)]
        /\ IF len[n] = 0 THEN UNCHANGED <<pending, got>>
           ELSE HandOver(c, n, len[n], Smaller(k, len[n]))
    BY <1>4, Zenon DEF ReadQueue
  <2>2. rx'[c] = Tail(rx[c]) /\ \A d \in Ids : d # c => rx'[d] = rx[d]
    BY <2>1, Zenon DEF Typed, ReadingTyped
  <2>3. /\ Len(rx[c]) \in Nat \ {0} /\ n = rx[c][1] /\ n \in Ids
        /\ Len(rx'[c]) = Len(rx[c]) - 1
        /\ \A i \in 1 .. Len(rx'[c]) : rx'[c][i] = rx[c][i + 1]
    <3>1. \A s \in Seq(Ids) : s # <<>> =>
             /\ Len(s) \in Nat \ {0} /\ Head(s) = s[1] /\ Head(s) \in Ids
             /\ Len(Tail(s)) = Len(s) - 1
             /\ \A i \in 1 .. Len(Tail(s)) : Tail(s)[i] = s[i + 1]
      OBVIOUS
    <3>2. /\ Len(rx[c]) \in Nat \ {0} /\ Head(rx[c]) = rx[c][1] /\ Head(rx[c]) \in Ids
          /\ Len(Tail(rx[c])) = Len(rx[c]) - 1
          /\ \A i \in 1 .. Len(Tail(rx[c])) : Tail(rx[c])[i] = rx[c][i + 1]
      BY <1>1, <2>1, <3>1, Zenon
    <3>. QED BY <2>2, <3>2, Zenon
  <2>4. /\ got[c][1] < n /\ n <= seen
        /\ \A i \in 1 .. Len(rx'[c]) : n < rx'[c][i] /\ got[c][1] < rx'[c][i] /\ rx'[c][i] <= seen
    <3>1. 1 \in 1 .. Len(rx[c]) /\ \A i \in 1 .. Len(rx'[c]) : i + 1 \in 1 .. Len(rx[c]) /\ 1 < i + 1
      BY <2>3
    <3>. QED BY <1>0, <2>3, <3>1, Zenon DEF InOrder
  <2>5. \A i, j \in 1 .. Len(rx'[c]) : i < j => rx'[c][i] < rx'[c][j]
    <3>1. \A i, j \in 1 .. Len(rx'[c]) : i < j =>
             i + 1 \in 1 .. Len(rx[c]) /\ j + 1 \in 1 .. Len(rx[c]) /\ i + 1 < j + 1
      BY <2>3
    <3>. QED BY <1>0, <2>3, <3>1, Zenon DEF InOrder
  <2>6. ~(demux.pc \in {"offer", "first"} /\ demux.id = c)
    BY <2>1, Zenon DEF Queues, FreshQueue
  <2>. HIDE DEF n
  <2>7. CASE len[n] = 0
    <3>1. got' = got /\ pending' = pending
      BY <2>1, <2>7, Zenon
    <3>2. InOrder(c)'
      BY <1>0, <2>4, <2>5, <3>1, Zenon DEF InOrder
    <3>3. Whole(c)' /\ Follows(c)
      BY <1>0, <3>1, Zenon DEF Whole, Follows
    <3>. QED BY <2>2, <2>6, <3>1, <3>2, <3>3, Zenon
  <2>8. CASE len[n] # 0
    <3>0. len[n] \in Nat /\ len[n] > 0 /\ HandOver(c, n, len[n], Smaller(k, len[n]))
      <4>1. len[n] \in Nat
        BY <1>1, <2>3, Zenon
      <4>2. \A m \in Nat : m # 0 => m > 0
        OBVIOUS
      <4>. QED BY <2>1, <2>8, <4>1, <4>2, Zenon
    <3>1. /\ got'[c][1] = n /\ got'[c][2] = len[n] - len[n]
          /\ got'[c][3] = len[n] - pending'[c][2]
          /\ pending'[c][2] > 0 => pending'[c][1] = n
          /\ \A d \in Ids : d # c => got'[d] = got[d] /\ pending'[d] = pending[d]
      BY <2>0, <2>3, <3>0, HandedOver
    <3>2. InOrder(c)'
      BY <1>0, <2>4, <2>5, <3>1, Zenon DEF InOrder
    <3>3. Whole(c)'
      BY <1>0, <2>4, <3>1, Zenon DEF Whole
    <3>4. got[c][1] # 0 => got[c][3] = len[got[c][1]]
      BY <1>0, <1>1, <2>1 DEF Whole
    <3>5. Follows(c)
      <4>1. got'[c][2] = 0 /\ got'[c][1] > got[c][1]
        BY <1>1, <2>3, <2>4, <3>0, <3>1 DEF Ids
      <4>. QED BY <3>4, <4>1, Zenon DEF Follows
    <3>. QED BY <2>2, <2>6, <3>1, <3>2, <3>3, <3>5, Zenon
  <2>. QED BY <2>7, <2>8, Zenon
<1>5. ASSUME ReadEof(c)
      PROVE  /\ \A d \in Ids : d # c => got'[d] = got[d] /\ pending'[d] = pending[d] /\ rx'[d] = rx[d]
             /\ InOrder(c)' /\ Whole(c)' /\ Follows(c)
             /\ demux.pc \in {"offer", "first"} /\ demux.id = c => got'[c][1] = 0
  BY <1>0, <1>5, Zenon DEF ReadEof, InOrder, Whole, Follows, ReadInv, Unread
<1>. QED BY <1>3, <1>4, <1>5, Zenon DEF poll_read

\* Every step keeps what is read in order and whole.
LEMMA ReadNext ==
    ASSUME IInv, IInv', ReadInv, [Next]_vars
    PROVE  ReadInv' /\ \A c \in Ids : conn[c] = "open" => Follows(c)
<1>. USE DEF IInv
<1>0. /\ seen \in Nat /\ seen' \in Nat /\ next_id \in Nat /\ got \in [Ids -> (Ids \cup {0}) \X Int \X Int]
      /\ demux.pc \in {"offer", "first"} => demux.id \in Ids /\ demux.id < next_id /\ demux.n \in Ids
  <2>1. seen \in 0 .. MaxDatagrams /\ seen' \in 0 .. MaxDatagrams
    BY Zenon DEF Typed, RoutingTyped
  <2>2. \A n : n \in 0 .. MaxDatagrams => n \in Nat
    OBVIOUS
  <2>. QED BY <2>1, <2>2, Zenon DEF Typed, RoutingTyped, ReadingTyped, Routing, Introducing
<1>1. ASSUME UNCHANGED <<rx, pending, got, len>>, seen <= seen', next_id <= next_id', next_id' \in Nat,
             demux'.pc \in {"offer", "first"} =>
                /\ demux'.n <= seen'
                /\ \/ demux.pc \in {"offer", "first"} /\ demux'.id = demux.id
                   \/ demux'.id \in Ids /\ demux'.id >= next_id
      PROVE  ReadInv' /\ \A c \in Ids : Follows(c)
  <2>1. \A c \in Ids : InOrder(c)' /\ Whole(c)'
    BY <1>1, ReadStays, Zenon DEF ReadInv
  <2>2. Unread'
    <3>1. \A c \in Ids : c >= next_id' => got'[c][1] = 0
      <4>1. \A c \in Ids : c >= next_id' => c >= next_id
        BY <1>0, <1>1 DEF Ids
      <4>. QED BY <1>1, <4>1, Zenon DEF ReadInv, Unread
    <3>2. demux'.pc \in {"offer", "first"} => got'[demux'.id][1] = 0
      BY <1>1, Zenon DEF ReadInv, Unread
    <3>. QED BY <1>1, <3>1, <3>2, Zenon DEF Unread
  <2>. QED BY <1>1, <2>1, <2>2, Zenon DEF ReadInv, Follows
<1>2. ASSUME NEW src \in Peers, Receive(src), Known(src, seen + 1)
      PROVE  ReadInv' /\ \A c \in Ids : Follows(c)
  <2>. DEFINE d == peers[src]
  <2>1. /\ UNCHANGED <<demux, next_id, pending, got, len>> /\ seen' = seen + 1 /\ seen + 1 \in Ids
        /\ demux.pc = "recv" /\ d \in Ids
        /\ rx' = [rx EXCEPT ![d] = IF Len(@) < QueueSize THEN Append(@, seen + 1) ELSE @]
        /\ rx \in [Ids -> Seq(Ids)]
    BY <1>2 DEF Receive, Known, Typed, RoutingTyped, ReadingTyped, Ids
  <2>. HIDE DEF d
  <2>2. \A c \in Ids : rx'[c] = rx[c] \/ (c = d /\ rx'[c] = Append(rx[c], seen + 1))
    BY <2>1, Zenon
  <2>3. ASSUME NEW c \in Ids PROVE InOrder(c)' /\ Whole(c)'
    <3>0. InOrder(c) /\ Whole(c) /\ got'[c] = got[c] /\ pending'[c] = pending[c]
      BY <2>1, Zenon DEF ReadInv
    <3>1. CASE rx'[c] = rx[c]
      BY <1>0, <2>1, <3>0, <3>1, ReadStays
    <3>2. CASE rx'[c] = Append(rx[c], seen + 1)
      <4>1. got[c][1] < seen + 1 /\ \A i \in 1 .. Len(rx[c]) : rx[c][i] < seen + 1
        <5>1. \A m, k \in Nat : m <= k => m < k + 1
          OBVIOUS
        <5>2. /\ seen \in Nat /\ got[c][1] \in Nat /\ got[c][1] <= seen
              /\ \A i \in 1 .. Len(rx[c]) : rx[c][i] \in Nat /\ rx[c][i] <= seen
          BY <1>0, <3>0, ReadTypes, Zenon DEF InOrder, Whole
        <5>. QED BY <5>1, <5>2, Zenon
      <4>2. seen <= seen' /\ seen + 1 <= seen'
        BY <1>0, <2>1
      <4>. QED BY <2>1, <3>0, <3>2, <4>1, <4>2, QueueGrows, Zenon
    <3>. QED BY <2>2, <3>1, <3>2, Zenon
  <2>4. Unread'
    BY <2>1, Zenon DEF ReadInv, Unread
  <2>. QED BY <2>1, <2>3, <2>4, Zenon DEF ReadInv, Follows
<1>3. ASSUME NEW src \in Peers, Receive(src), Fresh(src, seen + 1)
      PROVE  ReadInv' /\ \A c \in Ids : Follows(c)
  <2>1. /\ UNCHANGED <<rx, pending, got, len>> /\ seen' = seen + 1 /\ next_id' = next_id + 1
        /\ demux'.n = seen + 1 /\ demux'.id = next_id
    BY <1>3, Zenon DEF Receive, Fresh
  <2>2. next_id \in Ids
    BY <1>3, UdpConstants DEF Receive, Typed, RoutingTyped, Ids
  <2>. QED BY <1>0, <1>1, <2>1, <2>2
<1>4. CASE ReceiveError \/ BackoffEnds \/ Cancelled \/ Insert \/ Drain
  <2>1. /\ UNCHANGED <<rx, pending, got, len, next_id>> /\ seen <= seen'
        /\ demux'.pc \notin {"offer", "first"}
    BY <1>0, <1>4 DEF ReceiveError, BackoffEnds, Cancelled, Insert, Drain, Idle, reading
  <2>. QED BY <1>0, <1>1, <2>1
<1>5. CASE Offer
  <2>1. /\ UNCHANGED <<rx, pending, got, len, next_id, seen>> /\ demux.pc = "offer"
        /\ demux'.pc \in {"offer", "first"} => demux'.id = demux.id /\ demux'.n = demux.n
    BY <1>5, Zenon DEF Offer, Idle, reading, Typed, RoutingTyped
  <2>. QED BY <1>0, <1>1, <2>1 DEF ReadInv, Unread
<1>6. CASE FirstDatagram
  <2>. DEFINE d == demux.id
              n == demux.n
  <2>1. /\ UNCHANGED <<next_id, seen, pending, got, len>>
        /\ demux.pc = "first" /\ demux'.pc = "insert" /\ d \in Ids /\ n \in Ids
        /\ rx' = [rx EXCEPT ![d] = IF conn[d] = "gone" THEN @ ELSE Append(@, n)]
        /\ rx \in [Ids -> Seq(Ids)] /\ rx[d] = <<>> /\ got[d][1] = 0 /\ n <= seen
    BY <1>0, <1>6, Zenon DEF FirstDatagram, Typed, RoutingTyped, ReadingTyped, Queues, FreshQueue, ReadInv, Unread
  <2>. HIDE DEF d, n
  <2>2. \A c \in Ids : rx'[c] = rx[c] \/ (c = d /\ rx'[c] = Append(rx[c], n))
    BY <2>1, Zenon
  <2>3. ASSUME NEW c \in Ids PROVE InOrder(c)' /\ Whole(c)'
    <3>0. InOrder(c) /\ Whole(c) /\ got'[c] = got[c] /\ pending'[c] = pending[c] /\ seen <= seen'
      BY <1>0, <2>1 DEF ReadInv
    <3>1. CASE rx'[c] = rx[c]
      BY <1>0, <2>1, <3>0, <3>1, ReadStays, Zenon
    <3>2. CASE c = d /\ rx'[c] = Append(rx[c], n)
      <4>1. got[c][1] < n /\ \A i \in 1 .. Len(rx[c]) : rx[c][i] < n
        <5>1. n \in Nat /\ n # 0
          BY <2>1, ReadTypes, Zenon
        <5>2. Len(rx[c]) = 0
          BY <2>1, <3>2, Zenon
        <5>3. \A m \in Nat : m # 0 => 0 < m
          OBVIOUS
        <5>. QED BY <2>1, <3>2, <5>1, <5>2, <5>3
      <4>. QED BY <2>1, <3>0, <3>2, <4>1, QueueGrows, Zenon
    <3>. QED BY <2>2, <3>1, <3>2, Zenon
  <2>4. Unread'
    BY <2>1, Zenon DEF ReadInv, Unread
  <2>. QED BY <2>1, <2>3, <2>4, Zenon DEF ReadInv, Follows
<1>7. CASE Serve \/ Shutdown \/ UNCHANGED vars
  <2>1. UNCHANGED <<rx, pending, got, len, next_id, seen, demux>>
    BY <1>7, Zenon DEF Serve, Shutdown, Accept, ServeBreaks, ServeReturns, routing, reading, vars
  <2>. QED BY <1>0, <1>1, <2>1 DEF ReadInv, Unread
<1>8. ASSUME NEW c \in Ids,
             \/ Elapse(c) \/ ttl_watch(c) \/ poll_write(c) \/ poll_shutdown(c) \/ Return(c)
             \/ BeginClose(c, "discarded", "dropping") \/ EndClose(c, "closing", "open")
      PROVE  ReadInv' /\ \A d \in Ids : Follows(d)
  <2>1. UNCHANGED <<rx, pending, got, len, next_id, seen, demux>>
    BY <1>8, Zenon DEF Elapse, ttl_watch, Expires, WatchReturns, Unregister, CancelExpired, poll_write,
                poll_shutdown, Return, BeginClose, EndClose, routing, reading
  <2>. QED BY <1>0, <1>1, <2>1 DEF ReadInv, Unread
<1>9. ASSUME NEW c \in Ids, EndClose(c, "dropping", "gone")
      PROVE  ReadInv' /\ \A d \in Ids : conn[d] = "open" => Follows(d)
  <2>1. /\ UNCHANGED <<len, next_id, seen, demux>> /\ conn[c] = "dropping"
        /\ rx' = [rx EXCEPT ![c] = <<>>] /\ pending' = [pending EXCEPT ![c] = <<0, 0>>]
        /\ got' = [got EXCEPT ![c] = <<0, 0, 0>>]
    BY <1>9, Zenon DEF EndClose
  <2>2. /\ rx \in [Ids -> Seq(Ids)] /\ pending \in [Ids -> (Ids \X Nat) \cup {<<0, 0>>}]
    BY Zenon DEF Typed, ReadingTyped
  <2>3. /\ rx'[c] = <<>> /\ pending'[c] = <<0, 0>> /\ got'[c] = <<0, 0, 0>>
        /\ \A d \in Ids : d # c => rx'[d] = rx[d] /\ pending'[d] = pending[d] /\ got'[d] = got[d]
    BY <1>0, <2>1, <2>2, Zenon
  <2>4. pending'[c][2] = 0 /\ got'[c][1] = 0 /\ Len(rx'[c]) = 0
    BY <2>3
  <2>5. \A d \in Ids : InOrder(d)' /\ Whole(d)'
    <3>1. InOrder(c)' /\ Whole(c)'
      BY <1>0, <2>1, <2>4 DEF InOrder, Whole
    <3>. QED BY <1>0, <2>1, <2>3, <3>1, ReadStays DEF ReadInv
  <2>6. Unread'
    <3>1. \A d \in Ids : got[d][1] = 0 => got'[d][1] = 0
      BY <2>3, <2>4, Zenon
    <3>. QED BY <1>0, <2>1, <3>1, Zenon DEF ReadInv, Unread
  <2>. QED BY <2>1, <2>3, <2>5, <2>6, Zenon DEF ReadInv, Follows
<1>. QED BY <1>2, <1>3, <1>4, <1>5, <1>6, <1>7, <1>8, <1>9, PollReads, Zenon DEF Next, Demux, Receive, CloseSteps

\* What a handler reads is the queued datagrams in the order of their arrival,
\* each from its first byte to its last before the next one begins, whatever
\* the sizes of the datagrams, of its buffers and of the queue (poll_read and
\* the remainder it keeps).
THEOREM UdpReadsWhole == Spec => NothingTruncated
<1>1. Init => ReadInv
  BY DEF Init, ReadInv, Unread, InOrder, Whole, Idle
<1>2. ASSUME IInv, IInv', ReadInv, [Next]_vars
      PROVE  \A c \in Ids : LET last == got[c]
                                new == got'[c]
                            IN last # new /\ conn[c] = "open" =>
                                 \/ new[1] = last[1] /\ new[2] = last[3]
                                 \/ /\ new[1] > last[1] /\ new[2] = 0
                                    /\ last[1] # 0 => last[3] = len[last[1]]
  BY <1>2, ReadNext, Zenon DEF Follows
<1>3. IInv /\ IInv' /\ ReadInv /\ [Next]_vars => ReadInv'
  BY ReadNext, Zenon
<1>. QED BY <1>1, <1>2, <1>3, Inductive, PTL DEF Spec, NothingTruncated

=============================================================================
