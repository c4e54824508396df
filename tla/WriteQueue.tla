------------------------------ MODULE WriteQueue ------------------------------
(***************************************************************************)
(* The outbound frame queue of a smux session (src/src/mux.rs, WriteQueue) *)
(* together with everything that touches it: the streams that write, flush *)
(* and shut down through it, the keepalive task that pushes NOPs, and the  *)
(* writer task that drains it to the transport.                            *)
(*                                                                         *)
(* Every step is one acquisition of the queue's mutex, so poll_write is    *)
(* two steps: poll_reserve, then force_push_data.  A waker list is the set *)
(* of streams parked in it; a stream that is in no list may be polled.     *)
(***************************************************************************)
EXTENDS Integers, Sequences, FiniteSets

CONSTANTS
  Streams,      \* the streams that share the session
  Limit,        \* WriteQueue.limit: bytes of PSH payload that close the gate
  MaxFrame,     \* MuxConfig.max_frame_size: largest payload of one frame
  MaxPush       \* bound of the model: frames pushed in one behaviour

ASSUME QueueConstants ==
  /\ IsFiniteSet(Streams)
  /\ Limit    \in Nat \ {0}
  /\ MaxFrame \in Nat \ {0}
  /\ MaxPush  \in Nat

VARIABLES
  ctrl,         \* NOP frames waiting, written before any data frame
  data,         \* SYN, PSH and FIN frames waiting, in push order
  data_bytes,   \* payload bytes counted against Limit
  pushed,       \* frames ever pushed
  written,      \* frames reported written and flushed
  closed,       \* the queue refuses new frames
  space_wakers, \* streams parked in poll_reserve
  flush_wakers, \* streams parked in poll_flushed
  ready,        \* the permit stored in the Notify the writer task waits on
  batch,        \* frames the writer task has drained and not yet marked
  wpc,          \* control point of the writer task
  wire,         \* frames the transport has accepted
  spc,          \* control point of each stream
  last_push,    \* sequence number of the stream's latest frame
  fin_sent      \* the stream has queued (or given up on) its FIN

queueVars  == <<ctrl, data, data_bytes, pushed>>
writerVars == <<written, batch, wpc, wire>>
streamVars == <<spc, last_push, fin_sent>>
wakerVars  == <<space_wakers, flush_wakers>>
vars == <<queueVars, writerVars, streamVars, wakerVars, closed, ready>>

\* A frame; seq is its place in the order of pushes, the number that
\* force_push_data returns.  Only PSH frames carry bytes.
Frame == [cmd : {"SYN", "PSH", "FIN"}, sid : Streams, len : Nat, seq : Nat]
Nop   == [cmd : {"NOP"}, seq : Nat]

NewFrame(cmd, s, len) == [cmd |-> cmd, sid |-> s, len |-> len, seq |-> pushed + 1]

Init ==
  /\ ctrl = <<>> /\ data = <<>> /\ data_bytes = 0 /\ pushed = 0
  /\ written = 0 /\ batch = <<>> /\ wpc = "drain" /\ wire = <<>>
  /\ spc = [s \in Streams |-> "new"]
  /\ last_push = [s \in Streams |-> 0]
  /\ fin_sent = [s \in Streams |-> FALSE]
  /\ space_wakers = {} /\ flush_wakers = {}
  /\ closed = FALSE /\ ready = FALSE

-------------------------------------------------------------------------------
(* The queue's own operations.                                             *)

\* force_push_data on an open queue: the frame is queued whatever the limit.
force_push_data(frame) ==
  /\ ~closed
  /\ pushed < MaxPush
  /\ data' = Append(data, frame)
  /\ data_bytes' = data_bytes + frame.len
  /\ pushed' = pushed + 1
  /\ ready' = TRUE
  /\ UNCHANGED ctrl

\* push_ctrl: the keepalive task's NOP.  On a closed queue the task returns.
push_ctrl ==
  /\ ~closed
  /\ pushed < MaxPush
  /\ ctrl' = Append(ctrl, [cmd |-> "NOP", seq |-> pushed + 1])
  /\ pushed' = pushed + 1
  /\ ready' = TRUE
  /\ UNCHANGED <<data, data_bytes, writerVars, streamVars, wakerVars, closed>>

\* Mutant of close: the writer task is not notified.
close_silent ==
  /\ ~closed
  /\ closed' = TRUE
  /\ space_wakers' = {} /\ flush_wakers' = {}
  /\ UNCHANGED <<queueVars, writerVars, streamVars, ready>>

\* close: SessionShared::fail reaches the queue; everyone parked is woken.
close ==
  /\ ~closed
  /\ closed' = TRUE
  /\ space_wakers' = {} /\ flush_wakers' = {}
  /\ ready' = TRUE
  /\ UNCHANGED <<queueVars, writerVars, streamVars>>

-------------------------------------------------------------------------------
(* The streams.                                                            *)

\* A task polls a stream only when no waker holds it.
Polled(s, at) == spc[s] = at /\ s \notin space_wakers \cup flush_wakers

Goto(s, at) == spc' = [spc EXCEPT ![s] = at]

\* open_stream: the SYN, or an error when the queue is already closed.
OpenStream(s) ==
  /\ Polled(s, "new")
  /\ \/ /\ force_push_data(NewFrame("SYN", s, 0))
        /\ last_push' = [last_push EXCEPT ![s] = pushed']
        /\ Goto(s, "open")
     \/ /\ closed
        /\ Goto(s, "gone")
        /\ UNCHANGED <<queueVars, ready, last_push>>
  /\ UNCHANGED <<writerVars, wakerVars, closed, fin_sent>>

\* Mutant of poll_reserve: the limit test is off by one.
poll_reserve_at_limit(s) ==
  /\ Polled(s, "open")
  /\ ~fin_sent[s]
  /\ ~closed
  /\ \/ data_bytes <= Limit /\ Goto(s, "reserved") /\ UNCHANGED space_wakers
     \/ data_bytes > Limit  /\ space_wakers' = space_wakers \cup {s} /\ UNCHANGED spc
  /\ UNCHANGED <<queueVars, writerVars, last_push, fin_sent, flush_wakers, closed, ready>>

\* poll_reserve, the first half of poll_write: room, an error, or parked.
poll_reserve(s) ==
  /\ Polled(s, "open")
  /\ ~fin_sent[s]
  /\ ~closed
  /\ \/ data_bytes < Limit  /\ Goto(s, "reserved") /\ UNCHANGED space_wakers
     \/ data_bytes >= Limit /\ space_wakers' = space_wakers \cup {s} /\ UNCHANGED spc
  /\ UNCHANGED <<queueVars, writerVars, last_push, fin_sent, flush_wakers, closed, ready>>

\* The second half of poll_write: at most one frame's worth of the caller's
\* bytes; the queue may have closed since poll_reserve said there was room.
PushPsh(s) ==
  /\ Polled(s, "reserved")
  /\ Goto(s, "open")
  /\ \/ \E n \in 1..MaxFrame :
          /\ force_push_data(NewFrame("PSH", s, n))
          /\ last_push' = [last_push EXCEPT ![s] = pushed']
     \/ closed /\ UNCHANGED <<queueVars, ready, last_push>>
  /\ UNCHANGED <<writerVars, wakerVars, closed, fin_sent>>

\* poll_flush begins: the stream is going to wait for its latest frame.
StartFlush(s) ==
  /\ Polled(s, "open")
  /\ Goto(s, "flushing")
  /\ UNCHANGED <<queueVars, writerVars, wakerVars, last_push, fin_sent, closed, ready>>

\* Mutant of send_fin: the FIN travels with the control frames.
send_fin_ctrl(s) ==
  /\ Polled(s, "open")
  /\ ~fin_sent[s] /\ ~closed /\ pushed < MaxPush
  /\ fin_sent' = [fin_sent EXCEPT ![s] = TRUE]
  /\ ctrl' = Append(ctrl, NewFrame("FIN", s, 0))
  /\ pushed' = pushed + 1
  /\ last_push' = [last_push EXCEPT ![s] = pushed']
  /\ ready' = TRUE
  /\ Goto(s, "flushing")
  /\ UNCHANGED <<data, data_bytes, writerVars, wakerVars, closed>>

\* send_fin: the FIN queues behind the data.  poll_shutdown goes on to wait for
\* it to be written; Drop, and poll_shutdown on a closed session, do not.
send_fin(s) ==
  /\ Polled(s, "open")
  /\ ~fin_sent[s]
  /\ fin_sent' = [fin_sent EXCEPT ![s] = TRUE]
  /\ \/ /\ force_push_data(NewFrame("FIN", s, 0))
        /\ last_push' = [last_push EXCEPT ![s] = pushed']
     \/ closed /\ UNCHANGED <<queueVars, ready, last_push>>
  /\ \E at \in {"flushing", "gone"} : Goto(s, at)
  /\ UNCHANGED <<writerVars, wakerVars, closed>>

\* poll_flushed: done once `written` has reached the stream's latest frame,
\* an error on a closed queue, parked otherwise.  "written" is tested first.
poll_flushed(s) ==
  /\ Polled(s, "flushing")
  /\ \/ /\ written >= last_push[s]
        /\ Goto(s, "open")
        /\ UNCHANGED flush_wakers
     \/ /\ written < last_push[s]
        /\ closed
        /\ Goto(s, "gone")
        /\ UNCHANGED flush_wakers
     \/ /\ written < last_push[s]
        /\ ~closed
        /\ flush_wakers' = flush_wakers \cup {s}
        /\ UNCHANGED spc
  /\ UNCHANGED <<queueVars, writerVars, last_push, fin_sent, space_wakers, closed, ready>>

-------------------------------------------------------------------------------
(* The writer task.                                                        *)

\* The writer holds the lock and finds something queued.
BatchReady ==
  /\ wpc = "drain"
  /\ ctrl # <<>> \/ data # <<>>
  /\ wpc' = "write"
  /\ UNCHANGED <<pushed, written, wire, streamVars, flush_wakers, closed, ready>>

\* Mutant of take_batch: pending NOPs are written in a batch of their own.
take_batch_ctrl_alone ==
  /\ BatchReady
  /\ batch' = IF ctrl # <<>> THEN ctrl ELSE data
  /\ ctrl' = <<>> /\ data' = IF ctrl # <<>> THEN data ELSE <<>>
  /\ data_bytes' = 0 /\ space_wakers' = {}

\* Mutant of take_batch: the byte count is reduced instead of cleared.
take_batch_subtract ==
  /\ BatchReady
  /\ batch' = ctrl \o data
  /\ ctrl' = <<>> /\ data' = <<>>
  /\ data_bytes' = data_bytes - Limit /\ space_wakers' = {}

\* Mutant of take_batch: the streams waiting for space stay parked.
take_batch_no_wake ==
  /\ BatchReady
  /\ batch' = ctrl \o data
  /\ ctrl' = <<>> /\ data' = <<>> /\ data_bytes' = 0
  /\ UNCHANGED space_wakers

\* take_batch: everything queued, control frames first; writers are woken.
take_batch ==
  /\ BatchReady
  /\ batch' = ctrl \o data
  /\ ctrl' = <<>> /\ data' = <<>> /\ data_bytes' = 0
  /\ space_wakers' = {}

\* take_batch found nothing.
DrainEmpty ==
  /\ wpc = "drain" /\ ctrl = <<>> /\ data = <<>>
  /\ wpc' = "closed?"
  /\ UNCHANGED <<queueVars, written, batch, wire, streamVars, wakerVars, closed, ready>>

\* The is_closed test after an empty drain: shut the transport down and
\* return, or wait on the Notify.
CheckClosed ==
  /\ wpc = "closed?"
  /\ wpc' = IF closed THEN "done" ELSE "wait"
  /\ UNCHANGED <<queueVars, written, batch, wire, streamVars, wakerVars, closed, ready>>

\* ready.notified().await returns once it can consume the stored permit.
Notified ==
  /\ wpc = "wait" /\ ready
  /\ ready' = FALSE /\ wpc' = "drain"
  /\ UNCHANGED <<queueVars, written, batch, wire, streamVars, wakerVars, closed>>

\* write_all and flush succeed: the whole batch is with the transport.
WriteBatch ==
  /\ wpc = "write"
  /\ wire' = wire \o batch
  /\ wpc' = "mark"
  /\ UNCHANGED <<queueVars, written, batch, streamVars, wakerVars, closed, ready>>

\* Mutant of mark_written: one frame is counted, however long the batch.
mark_written_once ==
  /\ wpc = "mark"
  /\ written' = written + 1
  /\ batch' = <<>>
  /\ flush_wakers' = {}
  /\ wpc' = "drain"
  /\ UNCHANGED <<queueVars, wire, streamVars, space_wakers, closed, ready>>

\* mark_written: the batch is counted and everyone waiting in flush is woken.
mark_written ==
  /\ wpc = "mark"
  /\ written' = written + Len(batch)
  /\ batch' = <<>>
  /\ flush_wakers' = {}
  /\ wpc' = "drain"
  /\ UNCHANGED <<queueVars, wire, streamVars, space_wakers, closed, ready>>

\* The transport fails, or MuxSession::close aborts the task at an await;
\* both have closed (or now close) the queue.
WriterStops ==
  /\ wpc \in {"write", "wait"}
  /\ wpc' = "done"
  /\ closed' = TRUE
  /\ IF closed THEN UNCHANGED <<wakerVars, ready>>
     ELSE /\ wpc = "write"
          /\ space_wakers' = {} /\ flush_wakers' = {} /\ ready' = TRUE
  /\ UNCHANGED <<queueVars, written, batch, wire, streamVars>>

Writer == take_batch \/ DrainEmpty \/ CheckClosed \/ Notified \/ WriteBatch \/ mark_written

Stream(s) ==
  OpenStream(s) \/ poll_reserve(s) \/ PushPsh(s) \/ StartFlush(s) \/ send_fin(s)
    \/ poll_flushed(s)

Next ==
  \/ \E s \in Streams : Stream(s)
  \/ push_ctrl
  \/ close
  \/ Writer
  \/ WriterStops

Spec == Init /\ [][Next]_vars

\* tokio keeps polling the writer task when it is woken.  Nothing obliges the
\* transport to accept the bytes of a write_all, or the application to write,
\* flush or close.
FairSpec ==
  /\ Spec
  /\ WF_vars(take_batch \/ DrainEmpty \/ CheckClosed \/ Notified \/ mark_written)

-------------------------------------------------------------------------------
(* What must hold.                                                         *)

TypeOK ==
  /\ ctrl \in Seq(Nop)
  /\ data \in Seq(Frame)
  /\ batch \in Seq(Frame \cup Nop) /\ wire \in Seq(Frame \cup Nop)
  /\ data_bytes \in Nat /\ pushed \in Nat /\ written \in Nat
  /\ closed \in BOOLEAN /\ ready \in BOOLEAN
  /\ space_wakers \subseteq Streams /\ flush_wakers \subseteq Streams
  /\ wpc \in {"drain", "closed?", "wait", "write", "mark", "done"}
  /\ spc \in [Streams -> {"new", "open", "reserved", "flushing", "gone"}]
  /\ last_push \in [Streams -> Nat]
  /\ fin_sent \in [Streams -> BOOLEAN]

\* poll_reserve and force_push_data take the lock separately, so several
\* streams can pass the limit test before any of them pushes.  The send queue
\* is still bounded: less than Limit bytes plus one frame per stream.
SendQueueBounded ==
  data_bytes + MaxFrame * Cardinality({s \in Streams : spc[s] = "reserved"})
    < Limit + MaxFrame * Cardinality(Streams)

\* Sequence numbers count pushes while `written` counts frames in wire order,
\* and NOPs overtake data.  A flush that sees written >= seq is still right:
\* every frame numbered up to `written` is with the transport.
FlushedMeansWritten ==
  \A n \in 1..written : \E i \in DOMAIN wire : wire[i].seq = n

\* Per stream the wire carries SYN, then PSHs in the order of the writes, then
\* at most one FIN and nothing after it.
StreamOrderOnWire ==
  \A i, j \in DOMAIN wire :
    i < j /\ wire[i].cmd # "NOP" /\ wire[j].cmd # "NOP" /\ wire[i].sid = wire[j].sid
      => /\ wire[i].seq < wire[j].seq
         /\ wire[i].cmd # "FIN"
         /\ wire[j].cmd # "SYN"

\* The sequence numbers of the frames in q.
Nums(q) == {q[i].seq : i \in DOMAIN q}

\* No frame is lost, invented or counted twice on the way through the queue:
\* the writer's batch holds exactly the numbers after `written`, the two queues
\* exactly the numbers after those, and what is marked has been written.  This
\* is why the FlushedMeansWritten test of poll_flushed may compare counters.
FrameLedger ==
  /\ pushed = written + Len(batch) + Len(ctrl) + Len(data)
  /\ Nums(batch) = (written + 1)..(written + Len(batch))
  /\ Nums(ctrl) \cup Nums(data) = (written + Len(batch) + 1)..pushed
  /\ wpc \in {"drain", "closed?", "wait"} => batch = <<>>
  /\ wpc = "mark" => Nums(batch) \subseteq Nums(wire)
  /\ 1..written \subseteq Nums(wire)

\* The peer takes what is written to the transport, or the transport fails.
NoWriteHangs == []<>(wpc # "write")

\* No lost wakeup: while no write hangs, a stream parked for space or for a
\* flush is polled again, because the writer drains, marks, or the queue closes.
ParkedStreamsWake ==
  NoWriteHangs => \A s \in Streams : s \in space_wakers \cup flush_wakers
                                        ~> s \notin space_wakers \cup flush_wakers

\* While no write hangs, closing the queue ends the writer task once what was
\* queued has been written: it is never left waiting on the Notify of a closed
\* queue.
ClosedWriterReturns == NoWriteHangs => (closed ~> wpc = "done")

\* From push to write the queue keeps its frames: none is lost, doubled or
\* counted twice, a stream's frames leave in its order, and a flush returns only
\* when all that was pushed before it has been written (push, take_batch,
\* mark_written, poll_flushed).
FramesKept == TypeOK /\ FrameLedger /\ FlushedMeansWritten /\ StreamOrderOnWire

\* Nobody sleeps through what it waits for: neither a stream that is parked for
\* space or a flush, nor the writer task when the queue is closed.
TasksWake == ParkedStreamsWake /\ ClosedWriterReturns

===============================================================================
