------------------------------ MODULE MuxChannel ------------------------------
(***************************************************************************)
(* One direction of a smux session, end to end (src/src/mux.rs): streams   *)
(* of one endpoint write into the shared queue, the writer task moves      *)
(* batches to the transport, the other endpoint's reader task demultiplexes*)
(* them into stream buffers under the credit gate, and its application     *)
(* reads.  Here each endpoint's operations are atomic (WriteQueue and      *)
(* MuxReceive look inside them); the subject is what crosses from one end  *)
(* to the other, also when the session dies half way.                      *)
(***************************************************************************)
EXTENDS Integers, Sequences, FiniteSets, Functions

CONSTANTS
  Streams,    \* streams the sending end opens
  MaxBytes,   \* bound of the model: bytes written to each stream
  MaxFrame,   \* MuxConfig.max_frame_size
  Limit,      \* WriteQueue.limit
  MaxBuf      \* MuxConfig.max_receive_buffer

ASSUME ChannelConstants ==
  /\ IsFiniteSet(Streams)
  /\ MaxBytes \in [Streams -> Nat]
  /\ MaxFrame \in Nat \ {0} /\ Limit \in Nat \ {0} /\ MaxBuf \in Nat \ {0}

VARIABLES
  tx,         \* sending side of each stream: "new", "open" or "closed"
  sent, shut, \* bytes accepted from the writer; its FIN has been accepted
  queue,      \* frames queued
  tx_closed,  \* the sending session has failed: its queue is closed
  transport,  \* "up", "eof" once the sender's half is shut, "cut" after a loss
  wire,       \* frames on the transport, not yet read by the peer
  rx,         \* receiving side of each stream: "none", "open" or "dropped"
  buffer,     \* StreamState.chunks as a sequence of byte numbers
  fin,        \* the peer sent FIN
  bucket,     \* receive credit
  rx_closed,  \* the receiving session has failed
  received,   \* bytes the receiving application has read
  ended       \* what its last read returned: "no" more, "eof" or "error"

txVars == <<tx, sent, shut, queue, tx_closed>>
rxVars == <<rx, buffer, fin, bucket, rx_closed, received, ended>>
netVars == <<transport, wire>>
vars == <<txVars, netVars, rxVars>>

\* first is the number of the first byte of a PSH payload.
Frame(cmd, s, first, len) == [cmd |-> cmd, sid |-> s, first |-> first, len |-> len]

Payload(f) == [i \in 1..f.len |-> f.first + i - 1]

Init ==
  /\ tx = [s \in Streams |-> "new"]
  /\ sent = [s \in Streams |-> 0] /\ shut = [s \in Streams |-> FALSE]
  /\ queue = <<>> /\ tx_closed = FALSE
  /\ transport = "up" /\ wire = <<>>
  /\ rx = [s \in Streams |-> "none"] /\ buffer = [s \in Streams |-> <<>>]
  /\ fin = [s \in Streams |-> FALSE] /\ bucket = MaxBuf /\ rx_closed = FALSE
  /\ received = [s \in Streams |-> <<>>] /\ ended = [s \in Streams |-> "no"]

-------------------------------------------------------------------------------
(* The sending end.                                                        *)

open_stream(s) ==
  /\ tx[s] = "new" /\ ~tx_closed
  /\ queue' = Append(queue, Frame("SYN", s, 0, 0))
  /\ tx' = [tx EXCEPT ![s] = "open"]
  /\ UNCHANGED <<sent, shut, tx_closed, netVars, rxVars>>

QueuedBytes == SumFunction([i \in DOMAIN queue |-> queue[i].len])

\* poll_write accepts at most one frame's worth while the queue has room.
poll_write(s) ==
  /\ tx[s] = "open" /\ ~tx_closed
  /\ QueuedBytes < Limit
  /\ \E n \in 1..MaxFrame :
       /\ sent[s] + n <= MaxBytes[s]
       /\ queue' = Append(queue, Frame("PSH", s, sent[s] + 1, n))
       /\ sent' = [sent EXCEPT ![s] = @ + n]
  /\ UNCHANGED <<tx, shut, tx_closed, netVars, rxVars>>

\* poll_shutdown or Drop: the FIN, unless the queue is closed already.
send_fin(s) ==
  /\ tx[s] = "open"
  /\ tx' = [tx EXCEPT ![s] = "closed"]
  /\ shut' = [shut EXCEPT ![s] = ~tx_closed]
  /\ queue' = IF tx_closed THEN queue ELSE Append(queue, Frame("FIN", s, 0, 0))
  /\ UNCHANGED <<sent, tx_closed, netVars, rxVars>>

\* The writer task: take_batch, write_all, flush.
WriteBatch ==
  /\ queue # <<>> /\ transport = "up"
  /\ wire' = wire \o queue /\ queue' = <<>>
  /\ UNCHANGED <<tx, sent, shut, tx_closed, transport, rxVars>>

\* fail at the sending end: nothing more is queued.  The writer task still
\* writes what is, and then shuts the transport down.
FailTx ==
  /\ ~tx_closed
  /\ tx_closed' = TRUE
  /\ UNCHANGED <<tx, sent, shut, queue, netVars, rxVars>>

WriterShutdown ==
  /\ tx_closed /\ transport = "up" /\ queue = <<>>
  /\ transport' = "eof"
  /\ UNCHANGED <<txVars, wire, rxVars>>

\* The transport breaks, or close aborts the writer task with a batch half
\* written: the peer gets a prefix of what was written, possibly ending inside
\* a frame (which read_exact then refuses as a whole), and no more.
Cut ==
  /\ transport = "up"
  /\ transport' = "cut"
  /\ \E n \in 0..Len(wire \o queue) : wire' = SubSeq(wire \o queue, 1, n)
  /\ UNCHANGED <<txVars, rxVars>>

\* write_all on a broken transport: fail.
WriterFails ==
  /\ transport = "cut" /\ queue # <<>>
  /\ queue' = <<>> /\ tx_closed' = TRUE
  /\ UNCHANGED <<tx, sent, shut, netVars, rxVars>>

-------------------------------------------------------------------------------
(* The receiving end.                                                      *)

\* The reader task takes the next frame off the transport when it has credit.
NextFrame(f) ==
  /\ ~rx_closed /\ bucket > 0 /\ wire # <<>> /\ f = Head(wire)
  /\ wire' = Tail(wire)
  /\ UNCHANGED <<txVars, transport, rx_closed, received, ended>>

OnSyn ==
  /\ \E f \in Range(wire) : NextFrame(f) /\ f.cmd = "SYN" /\ rx' = [rx EXCEPT ![f.sid] = "open"]
  /\ UNCHANGED <<buffer, fin, bucket>>

\* Mutant of OnFin: the stream's state is replaced, with what it had buffered.
OnFin_clears ==
  /\ \E f \in Range(wire) :
       /\ NextFrame(f) /\ f.cmd = "FIN"
       /\ fin' = [fin EXCEPT ![f.sid] = rx[f.sid] = "open"]
       /\ buffer' = [buffer EXCEPT ![f.sid] = <<>>]
  /\ UNCHANGED <<rx, bucket>>

OnFin ==
  /\ \E f \in Range(wire) :
       NextFrame(f) /\ f.cmd = "FIN" /\ fin' = [fin EXCEPT ![f.sid] = rx[f.sid] = "open"]
  /\ UNCHANGED <<rx, buffer, bucket>>

\* The payload joins the stream's buffer, or is discarded if it was dropped.
OnPsh ==
  /\ \E f \in Range(wire) :
       /\ NextFrame(f) /\ f.cmd = "PSH"
       /\ IF rx[f.sid] = "open"
          THEN /\ buffer' = [buffer EXCEPT ![f.sid] = @ \o Payload(f)]
               /\ bucket' = bucket - f.len
          ELSE UNCHANGED <<buffer, bucket>>
  /\ UNCHANGED <<rx, fin>>

\* read_exact fails at the end of what the transport delivers: fail.
FailRx ==
  /\ ~rx_closed /\ bucket > 0 /\ wire = <<>> /\ transport # "up"
  /\ rx_closed' = TRUE
  /\ UNCHANGED <<txVars, netVars, rx, buffer, fin, bucket, received, ended>>

\* The receiving session fails on its own account (keepalive, a failed write of
\* its own, close): what is on the transport is never read.
CloseRx ==
  /\ ~rx_closed
  /\ rx_closed' = TRUE
  /\ UNCHANGED <<txVars, netVars, rx, buffer, fin, bucket, received, ended>>

Reading(s) == rx[s] = "open" /\ ended[s] = "no"

\* Mutant of poll_read: bytes are taken but their credit stays spent.
poll_read_no_refund(s) ==
  /\ Reading(s) /\ buffer[s] # <<>>
  /\ \E n \in 1..Len(buffer[s]) :
       /\ received' = [received EXCEPT ![s] = @ \o SubSeq(buffer[s], 1, n)]
       /\ buffer' = [buffer EXCEPT ![s] = SubSeq(@, n + 1, Len(@))]
  /\ UNCHANGED <<txVars, netVars, rx, fin, bucket, rx_closed, ended>>

\* poll_read with bytes buffered: they are handed out, also after the session
\* has failed, and their credit goes back.
poll_read(s) ==
  /\ Reading(s) /\ buffer[s] # <<>>
  /\ \E n \in 1..Len(buffer[s]) :
       /\ received' = [received EXCEPT ![s] = @ \o SubSeq(buffer[s], 1, n)]
       /\ buffer' = [buffer EXCEPT ![s] = SubSeq(@, n + 1, Len(@))]
       /\ bucket' = bucket + n
  /\ UNCHANGED <<txVars, netVars, rx, fin, rx_closed, ended>>

\* Mutant of ReadEnd: a dead session reads as end of file.
ReadEnd_clean(s) ==
  /\ Reading(s) /\ buffer[s] = <<>>
  /\ fin[s] \/ rx_closed
  /\ ended' = [ended EXCEPT ![s] = "eof"]
  /\ UNCHANGED <<txVars, netVars, rx, buffer, fin, bucket, rx_closed, received>>

\* poll_read on an empty buffer: FIN wins over the death of the session.
ReadEnd(s) ==
  /\ Reading(s) /\ buffer[s] = <<>>
  /\ fin[s] \/ rx_closed
  /\ ended' = [ended EXCEPT ![s] = IF fin[s] THEN "eof" ELSE "error"]
  /\ UNCHANGED <<txVars, netVars, rx, buffer, fin, bucket, rx_closed, received>>

\* Drop: the stream leaves the table and its credit is returned.
DropRx(s) ==
  /\ rx[s] = "open"
  /\ rx' = [rx EXCEPT ![s] = "dropped"]
  /\ buffer' = [buffer EXCEPT ![s] = <<>>]
  /\ bucket' = bucket + Len(buffer[s])
  /\ UNCHANGED <<txVars, netVars, fin, rx_closed, received, ended>>

-------------------------------------------------------------------------------
Sender == WriteBatch \/ WriterFails \/ WriterShutdown
Receiver == OnSyn \/ OnPsh \/ OnFin \/ FailRx
Reader(s) == poll_read(s) \/ ReadEnd(s)

Next ==
  \/ \E s \in Streams : open_stream(s) \/ poll_write(s) \/ send_fin(s) \/ Reader(s) \/ DropRx(s)
  \/ Sender \/ Receiver \/ FailTx \/ Cut \/ CloseRx

Spec == Init /\ [][Next]_vars

\* The tasks run, and the receiving application reads every stream it holds.
FairSpec ==
  /\ Spec
  /\ WF_vars(Sender) /\ WF_vars(Receiver)
  /\ \A s \in Streams : WF_vars(Reader(s))

-------------------------------------------------------------------------------
(* What must hold.                                                         *)

Pipe == INSTANCE StreamPipe WITH
  Streams <- Streams, sent <- sent, shut <- shut, received <- received, ended <- ended

\* Each stream is the reliable pipe StreamPipe describes, over a transport that
\* can break at any point and sessions that can fail at any point: no gap, no
\* reordering, no byte of another stream, and end of file only when it is true.
PipeKept == Pipe!Spec

\* The transport broke, or the receiving session failed with frames to come.
Broken == transport = "cut" \/ (rx_closed /\ (transport = "up" \/ wire # <<>>))

\* Streams share one credit bucket, and an unread stream can hold all of it, but
\* as long as every stream is read its reader catches up with what was written,
\* and sees end of file once the FIN was accepted.  The sending session may
\* fail: what poll_write and send_fin put in the queue is still written.
Delivered(s) == Len(received[s]) = sent[s] /\ (shut[s] => ended[s] = "eof")

StreamDelivered ==
  \A s \in Streams : ~Delivered(s) ~> Delivered(s) \/ Broken \/ rx[s] = "dropped"
===============================================================================
