--------------------------------- MODULE Kcp ---------------------------------
(***************************************************************************)
(* A KCP session from a client to a listener (kcp.rs): the stream façade   *)
(* and the driver task of the client, error correction over datagrams that *)
(* are lost, repeated and reordered, the listener that sorts datagrams     *)
(* into sessions, replaces and reaps them and drains at shutdown, and the  *)
(* driver and handler of each session there.  Bytes flow from the client   *)
(* to the listener; acknowledgements flow back and may be lost.  The ARQ   *)
(* core is the kcp crate; what it does is taken from how it is used.       *)
(***************************************************************************)
EXTENDS KcpFec

CONSTANTS
  Bounds,       \* bounds of the model, chosen together: writes on a client stream,
                \* sessions the client opens, packets of each and where their
                \* numbers start, sessions the listener builds, whether error
                \* correction is on, and which end goes through its teardown
  SndWnd,       \* the send window, in segments
  DeadLink,     \* transmissions without progress until the link counts as dead
  AppCap,       \* capacity of the channels between stream and driver (8)
  InCap,        \* capacity of a session's inbound channel (256)
  ClosedCap     \* capacity of serve's channel of closed sessions (64)

ASSUME KcpConstants ==
  /\ Bounds \subseteq [writes : Nat, convs : Nat, packets : Nat, sessions : Nat,
                       start : {n \in 0..(paws - 1) : n % shard_size = 0},
                       fec : BOOLEAN, ends : {"none", "client", "listener"}]
  /\ {SndWnd, DeadLink, AppCap, InCap, ClosedCap} \subseteq Nat \ {0}

VARIABLES
  bound,    \* the bounds in force
  cl,       \* the client's stream and driver
  enc,      \* its FecEncoder
  net,      \* shards sent: each may arrive never, once or often, in any order
  acks,     \* the highest acknowledgement sent for each conversation
  fec,      \* the listener's decoder window for the client's address
  peer,     \* the session serve has for that address, 0 if none
  sess,     \* all sessions built so far
  closed,   \* channel of sessions whose task has ended
  serve,    \* "run", "drain" or "returned"
  cancel,   \* the shutdown token
  arrived,  \* history: shards that were received since the decoder was made
  given     \* history: packets the decoder handed on since then

vars == <<bound, cl, enc, net, acks, fec, peer, sess, closed, serve, cancel, arrived, given>>
clientVars == <<bound, cl, enc, net>>
listenVars == <<fec, peer, sess, closed, serve, cancel, arrived, given>>

Slots == 1..Max({b.sessions : b \in Bounds})
Block(conv, sn) == [conv |-> conv, sn |-> sn]

\* kcp_connect and spawn_session: a fresh conversation.
kcp_connect(conv) ==
  [conv |-> conv, written |-> 0, chan |-> 0, snd |-> 0, una |-> 0, tries |-> 0,
   packets |-> 0, held |-> TRUE, wclosed |-> FALSE, up |-> TRUE]

spawn_session(conv, first) ==
  [conv |-> conv, in |-> <<first>>, nxt |-> 0, ahead |-> {},
   up |-> TRUE, task |-> "run"]

Init ==
  /\ bound \in Bounds
  /\ cl = kcp_connect(1) /\ enc = [next |-> bound.start, cache |-> <<>>]
  /\ net = {} /\ acks = [c \in 0..bound.convs |-> 0] /\ fec = <<>> /\ peer = 0 /\ sess = <<>> /\ closed = <<>>
  /\ serve = "run" /\ cancel = FALSE /\ arrived = {} /\ given = {}

-------------------------------------------------------------------------------
(* The client: KcpStream and its SessionDriver.                            *)

\* KcpStream::poll_write.
poll_write ==
  /\ cl.up /\ cl.held /\ cl.chan < AppCap /\ cl.written < bound.writes
  /\ cl' = [cl EXCEPT !.written = @ + 1, !.chan = @ + 1]
  /\ UNCHANGED <<bound, enc, net, acks>> /\ UNCHANGED listenVars

\* The stream is shut down and dropped.
CloseStream ==
  /\ cl.held /\ bound.ends = "client" /\ cl' = [cl EXCEPT !.held = FALSE]
  /\ UNCHANGED <<bound, enc, net, acks>> /\ UNCHANGED listenVars

can_send == cl.snd - cl.una < SndWnd

\* pump_out: what the core wrote goes to the socket.
pump_out(sn) ==
  LET w == framer_write(enc, Block(cl.conv, sn))
      bare == [seq |-> 0, flag |-> "none", of |-> <<Block(cl.conv, sn)>>]
  IN IF cl.packets >= bound.packets THEN UNCHANGED <<enc, net>>
     ELSE IF bound.fec THEN enc' = w.enc /\ net' = net \cup w.out
     ELSE enc' = enc /\ net' = net \cup {bare}

\* SessionDriver::send, on data from the application.
driver_send ==
  /\ cl.up /\ can_send /\ ~cl.wclosed /\ cl.chan > 0
  /\ pump_out(cl.snd)
  /\ cl' = [cl EXCEPT !.chan = @ - 1, !.snd = @ + 1, !.packets = @ + 1]
  /\ UNCHANGED <<bound, acks>> /\ UNCHANGED listenVars

\* app_rx yields None: the application is gone and all it wrote is taken.
writer_closed ==
  /\ cl.up /\ can_send /\ ~cl.wclosed /\ cl.chan = 0 /\ ~cl.held
  /\ cl' = [cl EXCEPT !.wclosed = TRUE]
  /\ UNCHANGED <<bound, enc, net, acks>> /\ UNCHANGED listenVars

\* An acknowledgement that says something new reaches the core.
client_input ==
  /\ cl.up
  /\ \E una \in (cl.una + 1)..acks[cl.conv] : cl' = [cl EXCEPT !.una = una, !.tries = 0]
  /\ UNCHANGED <<bound, enc, net, acks>> /\ UNCHANGED listenVars

\* The tick: update retransmits what is not acknowledged.
tick ==
  /\ cl.up /\ cl.una < cl.snd /\ cl.tries < DeadLink /\ bound.ends # "listener"
  /\ pump_out(cl.una)
  /\ cl' = [cl EXCEPT !.tries = @ + 1,
                      !.packets = IF @ < bound.packets THEN @ + 1 ELSE @]
  /\ UNCHANGED <<bound, acks>> /\ UNCHANGED listenVars

\* A variant: a dead link does not end the driver.
driver_ends_not_dead ==
  /\ cl.up /\ cl.wclosed /\ ~cl.held
  /\ cl' = [cl EXCEPT !.up = FALSE]
  /\ UNCHANGED <<bound, enc, net, acks>> /\ UNCHANGED listenVars

\* The driver ends on a dead link, or when both halves of the stream are gone.
driver_ends ==
  /\ cl.up /\ (cl.tries = DeadLink \/ (cl.wclosed /\ ~cl.held))
  /\ cl' = [cl EXCEPT !.up = FALSE]
  /\ UNCHANGED <<bound, enc, net, acks>> /\ UNCHANGED listenVars

\* A new session from the same address, after the old one or after a crash: a
\* conversation and an encoder of its own.
Reconnect ==
  /\ cl.conv < bound.convs
  /\ cl' = kcp_connect(cl.conv + 1) /\ enc' = [next |-> 0, cache |-> <<>>]
  /\ UNCHANGED <<bound, net, acks>> /\ UNCHANGED listenVars

-------------------------------------------------------------------------------
(* The listener's loop.                                                    *)

\* One block of segments: the session's, a stale one, or the start of a session.
dispatch(st, b) ==
  LET s == st.sess[st.peer]
      known == st.peer # 0
      fits == Len(s.in) < InCap
      fresh == [peer |-> Len(st.sess) + 1, sess |-> Append(st.sess, spawn_session(b.conv, b))]
  IN IF known /\ s.conv = b.conv
     THEN IF ~s.up THEN [st EXCEPT !.peer = 0]
          ELSE IF fits THEN [st EXCEPT !.sess[st.peer].in = Append(@, b)]
          ELSE st
     ELSE IF known /\ b.sn # 0 THEN st
     ELSE fresh

\* recv_from yields a datagram.
RecvDatagram ==
  /\ serve = "run"
  /\ \E s \in net, old \in 0..1 :
       LET u == IF bound.fec THEN packet_unframe_fec(fec, s) ELSE [rx |-> fec, blocks |-> s.of]
           st == FoldLeft(dispatch, [peer |-> peer, sess |-> sess], u.blocks)
       IN /\ old <= Len(fec) /\ Len(st.sess) <= bound.sessions
          /\ fec' = bounded(u.rx, old)
          /\ peer' = st.peer /\ sess' = st.sess
          /\ arrived' = (arrived \cup (IF bound.fec THEN {s} ELSE {}))
                       \ (Range(u.rx) \ Range(bounded(u.rx, old)))
          /\ given' = IF bound.fec THEN given \cup Range(u.blocks) ELSE {}
  /\ UNCHANGED <<acks, closed, serve, cancel>> /\ UNCHANGED clientVars

\* A variant: the entry goes whichever session it is of.
RecvClosed_any ==
  /\ serve = "run" /\ closed # <<>> /\ closed' = Tail(closed)
  /\ peer' = 0 /\ fec' = <<>> /\ arrived' = {} /\ given' = {}
  /\ UNCHANGED <<acks, sess, serve, cancel>> /\ UNCHANGED clientVars

\* A session's task has ended: its entry goes, unless it has been replaced.
RecvClosed ==
  /\ serve = "run" /\ closed # <<>>
  /\ closed' = Tail(closed)
  /\ IF peer = Head(closed)
     THEN peer' = 0 /\ fec' = <<>> /\ arrived' = {} /\ given' = {}
     ELSE UNCHANGED <<peer, fec, arrived, given>>
  /\ UNCHANGED <<acks, sess, serve, cancel>> /\ UNCHANGED clientVars

Cancel ==
  /\ ~cancel /\ bound.ends = "listener" /\ cancel' = TRUE
  /\ UNCHANGED <<acks, fec, peer, sess, closed, serve, arrived, given>>
  /\ UNCHANGED clientVars

\* The loop is left; dropping the peers drops every session's inbound sender.
Drain ==
  /\ serve = "run" /\ cancel /\ serve' = "drain" /\ peer' = 0
  /\ UNCHANGED <<acks, fec, sess, closed, cancel, arrived, given>> /\ UNCHANGED clientVars

\* A variant: the tasks' messages have to be received first.
Return_closed_received ==
  /\ serve = "drain" /\ \A i \in DOMAIN sess : sess[i].task = "done"
  /\ closed = <<>> /\ serve' = "returned"
  /\ UNCHANGED <<acks, fec, peer, sess, closed, cancel, arrived, given>>
  /\ UNCHANGED clientVars

\* tracker.wait returns once every task has ended.
Return ==
  /\ serve = "drain" /\ \A i \in DOMAIN sess : sess[i].task = "done"
  /\ serve' = "returned"
  /\ UNCHANGED <<acks, fec, peer, sess, closed, cancel, arrived, given>>
  /\ UNCHANGED clientVars

-------------------------------------------------------------------------------
(* A session of the listener: its driver and the task that runs the smux   *)
(* pipeline over its stream.                                               *)

SessionStep(i, s) ==
  /\ sess' = [sess EXCEPT ![i] = s]
  /\ UNCHANGED <<fec, peer, closed, serve, cancel, arrived, given>> /\ UNCHANGED clientVars

\* SessionDriver::input: the core takes what fits its conversation, and
\* acknowledges at once (flush_ack) or with the next tick.
driver_input(i) ==
  LET s == sess[i]
      b == Head(s.in)
      ahead == IF b.conv = s.conv /\ b.sn >= s.nxt THEN s.ahead \cup {b.sn} ELSE s.ahead
      nxt == CHOOSE n \in s.nxt..(s.nxt + bound.writes + 1) :
               n \notin ahead /\ \A k \in s.nxt..(n - 1) : k \in ahead
  IN /\ s.up /\ s.in # <<>> /\ bound.ends # "none"
     /\ SessionStep(i, [s EXCEPT !.in = Tail(@), !.nxt = nxt,
                                 !.ahead = {k \in ahead : k > nxt}])
     /\ acks' = [acks EXCEPT ![s.conv] = nxt]

\* The driver of a session ends when its inbound sender is gone, or the stream.
driver_breaks(i) ==
  LET s == sess[i] IN
  /\ s.up /\ ((peer # i /\ s.in = <<>>) \/ s.task # "run")
  /\ SessionStep(i, [s EXCEPT !.up = FALSE])
  /\ UNCHANGED acks

\* The pipeline returns: at end of file, on an error of its own, or cancelled.
PipelineEnds(i) ==
  /\ sess[i].task = "run" /\ bound.ends = "listener"
  /\ SessionStep(i, [sess[i] EXCEPT !.task = "send"])
  /\ UNCHANGED acks

\* A variant: the message is not sent when the channel has something in it.
send_closed_try(i) ==
  /\ sess[i].task = "send"
  /\ closed' = IF closed = <<>> THEN <<i>> ELSE closed
  /\ sess' = [sess EXCEPT ![i].task = "done"]
  /\ UNCHANGED <<acks, fec, peer, serve, cancel, arrived, given>> /\ UNCHANGED clientVars

\* closed.send waits for a place in the channel.
send_closed(i) ==
  /\ sess[i].task = "send" /\ Len(closed) < ClosedCap
  /\ closed' = Append(closed, i) /\ sess' = [sess EXCEPT ![i].task = "done"]
  /\ UNCHANGED <<acks, fec, peer, serve, cancel, arrived, given>> /\ UNCHANGED clientVars

-------------------------------------------------------------------------------

Client == poll_write \/ CloseStream \/ Reconnect
ClientDriver == driver_send \/ writer_closed \/ client_input \/ tick \/ driver_ends
Session(i) == driver_input(i) \/ driver_breaks(i)

Next ==
  \/ Client \/ ClientDriver
  \/ RecvDatagram \/ RecvClosed \/ Cancel \/ Drain \/ Return
  \/ \E i \in DOMAIN sess : Session(i) \/ PipelineEnds(i) \/ send_closed(i)

Spec == Init /\ [][Next]_vars

\* The tasks run; a pipeline is bound to end only at end of file or cancelled.
FairSpec ==
  /\ Spec
  /\ WF_vars(driver_send) /\ WF_vars(writer_closed) /\ WF_vars(tick) /\ WF_vars(driver_ends)
  /\ WF_vars(RecvClosed) /\ WF_vars(Drain) /\ WF_vars(Return)
  /\ \A i \in Slots :
       /\ WF_vars(i \in DOMAIN sess /\ driver_breaks(i))
       /\ WF_vars(i \in DOMAIN sess /\ send_closed(i))
       /\ WF_vars(/\ i \in DOMAIN sess /\ (cancel \/ ~sess[i].up)
                  /\ PipelineEnds(i))

-------------------------------------------------------------------------------

\* Type correctness; the channels keep their bounds and the window its limit.
TypeOK ==
  /\ cl.chan \in 0..AppCap /\ cl.una <= cl.snd /\ cl.snd <= cl.written
  /\ enc.next \in 0..(paws - 1) /\ Len(enc.cache) < DataShards
  /\ Len(fec) <= rxlimit /\ peer \in 0..Len(sess) /\ Len(closed) <= ClosedCap
  /\ serve \in {"run", "drain", "returned"} /\ cancel \in BOOLEAN
  /\ \A i \in DOMAIN sess :
       /\ Len(sess[i].in) <= InCap
       /\ sess[i].task \in {"run", "send", "done"}

\* Whatever the order, loss and repetition of datagrams, and across the wrap of
\* the numbers: once any DataShards shards of a group are there, every packet of
\* the group has been handed on.  (The address is used by one session.)
FecRecovers ==
  \A p \in arrived :
    LET group == {s \in arrived : s.seq \div shard_size = p.seq \div shard_size} IN
    (cl.conv = 1 /\ p.flag = "parity" /\ Cardinality(group) >= DataShards) => Range(p.of) \subseteq given

\* While one session uses the address, the decoder hands on nothing that the
\* client did not send.
NoGarbage == Garbage \in given => cl.conv > 1

\* An entry of the listener goes only when its own session is over; the late end
\* of a session that was replaced does not take its successor along.
NewcomerStays ==
  [][(peer # 0 /\ peer' = 0 /\ serve' = "run") =>
       (~sess[peer].up \/ sess[peer].task = "done")]_vars

\* The driver of a stream that was dropped ends, also when the peer is gone and
\* the send window full.
DriverEnds == ~cl.held ~> ~cl.up

\* A session whose task has ended is taken out of the listener.
SessionsReaped ==
  \A i \in Slots :
    (i \in DOMAIN sess /\ sess[i].task = "done") ~> peer # i

\* serve drains its sessions and returns once it is told to stop, as long as
\* the channel of closed sessions has room for all of them: nobody reads it any
\* more, and with one session too many its task and serve wait for ever.
Unreported == {i \in DOMAIN sess : sess[i].task # "done"}
ServeReturns ==
  cancel /\ serve = "drain" /\ Len(closed) + Cardinality(Unreported) <= ClosedCap ~> serve = "returned"

\* Error correction gives back the packets of a group from enough of its shards,
\* also across the wrap of the numbers, and hands on nothing else.
FecSound == TypeOK /\ FecRecovers /\ NoGarbage

\* Sessions end: the driver of a dropped stream, the listener's entry of an ended
\* session, and serve once it is told to stop.
SessionsEnd == DriverEnds /\ SessionsReaped /\ ServeReturns

===============================================================================
