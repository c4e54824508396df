------------------------------ MODULE MuxReceive ------------------------------
(***************************************************************************)
(* The receive side of one smux session (src/src/mux.rs): the reader task  *)
(* with its credit gate, the stream table, the accept backlog, the         *)
(* keepalive task, SessionShared::fail, and the application that opens,    *)
(* accepts, reads and drops streams and closes the session.                *)
(*                                                                         *)
(* A step is one critical section or atomic operation of the source, so    *)
(* fail, open_stream, poll_read and Drop are several steps each.  The peer *)
(* never uses a stream id twice, so a stream is named by its id.  Payload  *)
(* is a number of bytes.  The queue towards the peer is module WriteQueue; *)
(* here only whether it has been closed matters.                           *)
(***************************************************************************)
EXTENDS Integers, Sequences, FiniteSets, FiniteSetsExt

CONSTANTS
  OwnSids,      \* ids this end opens
  PeerSids,     \* ids the peer opens
  MaxBuf,       \* MuxConfig.max_receive_buffer
  MaxLen,       \* largest payload a PSH header can announce
  Backlog,      \* capacity of the accept channel
  KeepAlive,    \* ~MuxConfig.keep_alive_disabled
  MaxFrames     \* bound of the model: frames the peer sends

ASSUME ReceiveConstants ==
  /\ IsFiniteSet(OwnSids) /\ IsFiniteSet(PeerSids) /\ OwnSids \cap PeerSids = {}
  /\ MaxBuf \in Nat \ {0} /\ MaxLen \in Nat \ {0} /\ Backlog \in Nat \ {0}
  /\ KeepAlive \in BOOLEAN /\ MaxFrames \in Nat

Sids == OwnSids \cup PeerSids

VARIABLES
  bucket,        \* session-wide receive credit in bytes
  bucket_notify, \* the permit stored in the Notify the reader waits on
  streams,       \* ids in the stream table
  buffered,      \* bytes queued on each stream and not read
  fin, dead,     \* per stream: the peer sent FIN, the session died
  parked,        \* streams whose reader registered read_waker
  owed,          \* bytes taken off a stream whose credit is not yet returned
  handle,        \* life of each stream's MuxStream
  accept,        \* the accept channel
  accept_open,   \* its receiver exists: the MuxSession has not been dropped
  rpc, cur,      \* control point of the reader task and the frame it holds
  kpc,           \* control point of the keepalive task
  data_ready,    \* a header arrived since the last deadline tick
  closed,        \* SessionShared.closed
  error,         \* what fail recorded first
  queue_closed,  \* WriteQueue.close has run
  failing,       \* <<task running fail, its next step>>
  dying,         \* streams fail has drained and not yet marked dead
  aborted,       \* close has aborted the tasks
  frames,        \* frames received
  lost           \* history: streams a payload was discarded for

creditVars == <<bucket, bucket_notify>>
streamVars == <<streams, buffered, fin, dead, parked, owed, handle>>
readerVars == <<rpc, cur, frames, lost>>
failVars   == <<closed, error, queue_closed, failing, dying, aborted>>
aliveVars  == <<kpc, data_ready>>
acceptVars == <<accept, accept_open>>
vars == <<creditVars, streamVars, readerVars, failVars, aliveVars, acceptVars>>

NoFrame == [cmd |-> "none", sid |-> "none", len |-> 0]

Init ==
  /\ bucket = MaxBuf /\ bucket_notify = FALSE
  /\ streams = {} /\ parked = {}
  /\ buffered = [s \in Sids |-> 0] /\ owed = [s \in Sids |-> 0]
  /\ fin = [s \in Sids |-> FALSE] /\ dead = [s \in Sids |-> FALSE]
  /\ handle = [s \in Sids |-> "none"]
  /\ accept = <<>> /\ accept_open = TRUE
  /\ rpc = "gate" /\ cur = NoFrame /\ frames = 0 /\ lost = {}
  /\ kpc = IF KeepAlive THEN "select" ELSE "done"
  /\ data_ready = FALSE
  /\ closed = FALSE /\ error = "none" /\ queue_closed = FALSE
  /\ failing = <<"nobody", "done">> /\ dying = {} /\ aborted = FALSE

-------------------------------------------------------------------------------
(* SessionShared.                                                          *)

\* fail(err), up to and including closed.swap: a second caller returns.
Fail(task, err) ==
  IF closed
  THEN UNCHANGED failVars
  ELSE /\ closed' = TRUE
       /\ error' = err
       /\ failing' = <<task, "queue">>
       /\ UNCHANGED <<queue_closed, dying, aborted>>

FailDone == failing[2] = "done"

\* The rest of fail, by whichever task got there first.
CloseQueue ==
  /\ failing[2] = "queue"
  /\ queue_closed' = TRUE
  /\ failing' = <<failing[1], "drain">>
  /\ UNCHANGED <<creditVars, streamVars, readerVars, aliveVars, acceptVars,
                 closed, error, dying, aborted>>

DrainStreams ==
  /\ failing[2] = "drain"
  /\ dying' = streams /\ streams' = {}
  /\ failing' = <<failing[1], "kill">>
  /\ UNCHANGED <<creditVars, buffered, fin, dead, parked, owed, handle, readerVars,
                 aliveVars, acceptVars, closed, error, queue_closed, aborted>>

set_dead(s) ==
  /\ failing[2] = "kill" /\ s \in dying
  /\ dead' = [dead EXCEPT ![s] = TRUE]
  /\ parked' = parked \ {s}
  /\ dying' = dying \ {s}
  /\ UNCHANGED <<creditVars, streams, buffered, fin, owed, handle, readerVars,
                 aliveVars, acceptVars, closed, error, queue_closed, failing, aborted>>

\* Mutant of NotifyReader: notify_waiters alone, which leaves no permit behind
\* for a reader that is about to wait.
NotifyReader_waiters_only ==
  /\ failing[2] = "kill" /\ dying = {}
  /\ bucket_notify' = (bucket_notify \/ rpc = "wait")
  /\ failing' = <<failing[1], "done">>
  /\ aborted' = (aborted \/ failing[1] = "app")
  /\ UNCHANGED <<bucket, streamVars, readerVars, aliveVars, acceptVars,
                 closed, error, queue_closed, dying>>

\* fail ends by unparking the reader.  MuxSession::close then aborts the tasks.
NotifyReader ==
  /\ failing[2] = "kill" /\ dying = {}
  /\ bucket_notify' = TRUE
  /\ failing' = <<failing[1], "done">>
  /\ aborted' = (aborted \/ failing[1] = "app")
  /\ UNCHANGED <<bucket, streamVars, readerVars, aliveVars, acceptVars,
                 closed, error, queue_closed, dying>>

FailStep == CloseQueue \/ DrainStreams \/ (\E s \in Sids : set_dead(s)) \/ NotifyReader

\* Mutant of return_tokens: credit coming back to exactly zero is mistaken for
\* the moment the gate reopens.
return_tokens_below_zero(n) ==
  /\ bucket' = bucket + n
  /\ bucket_notify' = (bucket_notify \/ (bucket < 0 /\ bucket' >= 0))

\* return_tokens: the reader is notified when the credit becomes positive.
return_tokens(n) ==
  /\ bucket' = bucket + n
  /\ bucket_notify' = (bucket_notify \/ (bucket <= 0 /\ bucket' > 0))


-------------------------------------------------------------------------------
(* reader_task.                                                            *)

Goto(pc) == rpc' = pc

\* The reader is done with the frame in hand.
NextFrame == Goto("gate") /\ cur' = NoFrame

\* Mutant of ReadGate: the gate lets the reader through with no credit left.
ReadGate_at_zero ==
  /\ rpc = "gate"
  /\ Goto(IF bucket >= 0 THEN "header" ELSE "parking")
  /\ UNCHANGED <<creditVars, streamVars, cur, frames, lost, failVars, aliveVars,
                 acceptVars>>

\* The gate: the reader goes to the socket only with credit in the bucket.
ReadGate ==
  /\ rpc = "gate"
  /\ Goto(IF bucket > 0 THEN "header" ELSE "parking")
  /\ UNCHANGED <<creditVars, streamVars, cur, frames, lost, failVars, aliveVars,
                 acceptVars>>

\* is_closed is tested before waiting for credit and again after.
CheckBeforeWait ==
  /\ rpc = "parking"
  /\ Goto(IF closed THEN "done" ELSE "wait")
  /\ UNCHANGED <<creditVars, streamVars, cur, frames, lost, failVars, aliveVars, acceptVars>>

Notified ==
  /\ rpc = "wait" /\ bucket_notify
  /\ bucket_notify' = FALSE
  /\ Goto("woken")
  /\ UNCHANGED <<bucket, streamVars, cur, frames, lost, failVars, aliveVars, acceptVars>>

CheckAfterWait ==
  /\ rpc = "woken"
  /\ Goto(IF closed THEN "done" ELSE "gate")
  /\ UNCHANGED <<creditVars, streamVars, cur, frames, lost, failVars, aliveVars, acceptVars>>

\* A header has been read.  What follows is the match on its command, up to the
\* next await.  The peer opens each of its ids once, and sends on ids it has
\* opened or has been offered by a SYN, until it has sent a FIN.
HeaderRead ==
  /\ rpc = "header" /\ frames < MaxFrames
  /\ frames' = frames + 1
  /\ data_ready' = TRUE
  /\ UNCHANGED <<creditVars, buffered, dead, owed, lost, kpc, acceptVars>>

OnNop ==
  /\ HeaderRead
  /\ \E pc \in {"gate", "upd"} : Goto(pc)      \* NOP; UPD still has a payload
  /\ UNCHANGED <<cur, streams, fin, parked, handle, failVars>>

OnSyn(s) ==
  /\ HeaderRead
  /\ handle[s] = "none"
  /\ streams' = streams \cup {s}
  /\ handle' = [handle EXCEPT ![s] = "delivering"]
  /\ cur' = [cmd |-> "SYN", sid |-> s, len |-> 0]
  /\ Goto("deliver")
  /\ UNCHANGED <<fin, parked, failVars>>

Offered(s) == handle[s] \notin {"none", "opening", "inserted"}

set_fin(s) ==
  /\ HeaderRead
  /\ Offered(s)
  /\ fin' = [fin EXCEPT ![s] = @ \/ s \in streams]
  /\ parked' = IF s \in streams THEN parked \ {s} ELSE parked
  /\ Goto("gate")
  /\ UNCHANGED <<cur, streams, handle, failVars>>

OnPsh(s) ==
  /\ HeaderRead
  /\ Offered(s) /\ ~fin[s]
  /\ \E n \in 0..MaxLen :
       IF n = 0 THEN Goto("gate") /\ UNCHANGED cur
       ELSE Goto("payload") /\ cur' = [cmd |-> "PSH", sid |-> s, len |-> n]
  /\ UNCHANGED <<streams, fin, parked, handle, failVars>>

\* A wrong version or an unknown command.
OnInvalid ==
  /\ HeaderRead
  /\ Goto("failing")
  /\ Fail("reader", "protocol")
  /\ UNCHANGED <<cur, streams, fin, parked, handle>>

\* read_exact fails: the transport has ended, with the frame half read or not.
ReadError ==
  /\ rpc \in {"header", "upd", "payload"}
  /\ Goto("failing") /\ cur' = NoFrame
  /\ Fail("reader", "transport")
  /\ UNCHANGED <<creditVars, streamVars, frames, lost, aliveVars, acceptVars>>

UpdRead ==
  /\ rpc = "upd"
  /\ Goto("gate")
  /\ UNCHANGED <<creditVars, streamVars, cur, frames, lost, failVars, aliveVars, acceptVars>>

\* The payload is here; look the stream up.
PayloadRead ==
  /\ rpc = "payload"
  /\ IF cur.sid \in streams
     THEN Goto("spend") /\ UNCHANGED <<cur, lost>>
     ELSE NextFrame /\ lost' = lost \cup {cur.sid}
  /\ UNCHANGED <<creditVars, streamVars, frames, failVars, aliveVars, acceptVars>>

spend_tokens ==
  /\ rpc = "spend"
  /\ bucket' = bucket - cur.len
  /\ Goto("push")
  /\ UNCHANGED <<bucket_notify, streamVars, cur, frames, lost, failVars, aliveVars, acceptVars>>

push_bytes ==
  /\ rpc = "push"
  /\ buffered' = [buffered EXCEPT ![cur.sid] = @ + cur.len]
  /\ parked' = parked \ {cur.sid}
  /\ NextFrame
  /\ UNCHANGED <<creditVars, streams, fin, dead, owed, handle, frames, lost, failVars,
                 aliveVars, acceptVars>>

\* deliver_accept: try_send, and when the channel is full a closed test and a
\* sleep.  Giving up drops the stream that was to be delivered.
GiveUp ==
  /\ Goto("done") /\ cur' = NoFrame
  /\ handle' = [handle EXCEPT ![cur.sid] = "drop"]
  /\ UNCHANGED accept

deliver_accept ==
  /\ \/ /\ rpc = "deliver" /\ accept_open
        /\ IF Len(accept) < Backlog
           THEN /\ accept' = Append(accept, cur.sid)
                /\ handle' = [handle EXCEPT ![cur.sid] = "backlog"]
                /\ NextFrame
           ELSE Goto("full") /\ UNCHANGED <<handle, accept, cur>>
     \/ rpc = "deliver" /\ ~accept_open /\ GiveUp
     \/ rpc = "full" /\ closed /\ GiveUp
     \/ rpc = "full" /\ ~closed /\ Goto("sleep") /\ UNCHANGED <<handle, accept, cur>>
     \/ rpc = "sleep" /\ Goto("deliver") /\ UNCHANGED <<handle, accept, cur>>
  /\ UNCHANGED <<creditVars, streams, buffered, fin, dead, parked, owed, frames, lost,
                 failVars, aliveVars, accept_open>>

\* fail has returned to the reader, which returns and drops the accept sender.
ReaderReturns ==
  /\ rpc = "failing"
  /\ failing[1] = "reader" => FailDone
  /\ Goto("done")
  /\ UNCHANGED <<creditVars, streamVars, cur, frames, lost, failVars, aliveVars, acceptVars>>

\* JoinHandle::abort takes effect at an await.
ReaderAborted ==
  /\ aborted
  /\ \/ rpc \in {"wait", "header", "upd", "payload"} /\ Goto("done") /\ cur' = NoFrame
        /\ UNCHANGED <<handle, accept>>
     \/ rpc = "sleep" /\ GiveUp
  /\ UNCHANGED <<creditVars, streams, buffered, fin, dead, parked, owed, frames, lost,
                 failVars, aliveVars, accept_open>>

\* What the reader does without waiting for the peer.
ReaderStep ==
  \/ ReadGate \/ CheckBeforeWait \/ Notified \/ CheckAfterWait
  \/ spend_tokens \/ push_bytes \/ deliver_accept \/ ReaderReturns \/ ReaderAborted

\* What it does when the peer's bytes, or the end of the transport, arrive.
Receive ==
  \/ OnNop \/ OnInvalid \/ ReadError \/ UpdRead \/ PayloadRead
  \/ \E s \in PeerSids : OnSyn(s)
  \/ \E s \in Sids : set_fin(s) \/ OnPsh(s)

-------------------------------------------------------------------------------
(* keepalive_task.                                                         *)

Ping ==
  /\ kpc = "select"
  /\ IF queue_closed
     THEN kpc' = "done" /\ UNCHANGED bucket_notify
     ELSE kpc' = "check" /\ bucket_notify' = TRUE
  /\ UNCHANGED <<bucket, streamVars, readerVars, failVars, data_ready, acceptVars>>

\* data_ready.swap(false) and the load of the bucket are two steps.
Deadline ==
  /\ kpc = "select"
  /\ data_ready' = FALSE
  /\ kpc' = IF data_ready THEN "check" ELSE "expired"
  /\ UNCHANGED <<creditVars, streamVars, readerVars, failVars, acceptVars>>

Expired ==
  /\ kpc = "expired"
  /\ IF bucket > 0
     THEN kpc' = "done" /\ Fail("keepalive", "timeout")
     ELSE kpc' = "check" /\ UNCHANGED failVars
  /\ UNCHANGED <<creditVars, streamVars, readerVars, data_ready, acceptVars>>

\* The closed test at the end of the loop; or the abort, at the select.
KeepaliveLoops ==
  /\ \/ kpc = "check" /\ kpc' = IF closed THEN "done" ELSE "select"
     \/ kpc = "select" /\ aborted /\ kpc' = "done"
  /\ UNCHANGED <<creditVars, streamVars, readerVars, failVars, data_ready, acceptVars>>

Keepalive == Ping \/ Deadline \/ Expired \/ KeepaliveLoops

-------------------------------------------------------------------------------
(* The application and the streams it holds.                               *)

Holds(s, h) == handle' = [handle EXCEPT ![s] = h]

\* open_stream: closed is tested, the stream is put in the table, the SYN is
\* queued; if the queue has closed in between the stream is taken out again.
OpenCheck(s) ==
  /\ handle[s] = "none" /\ ~closed /\ accept_open
  /\ Holds(s, "opening")
  /\ UNCHANGED <<creditVars, streams, buffered, fin, dead, parked, owed, readerVars, failVars,
                 aliveVars, acceptVars>>

\* Mutant of OpenInsert: the SYN is queued first, the stream registered later.
OpenInsert_after_syn(s) ==
  /\ \/ handle[s] = "opening" /\ ~queue_closed /\ Holds(s, "open") /\ UNCHANGED streams
     \/ handle[s] = "open" /\ streams' = streams \cup {s} /\ UNCHANGED handle
  /\ UNCHANGED <<creditVars, buffered, fin, dead, parked, owed, readerVars, failVars,
                 aliveVars, acceptVars>>

OpenInsert(s) ==
  /\ handle[s] = "opening"
  /\ streams' = streams \cup {s}
  /\ Holds(s, "inserted")
  /\ UNCHANGED <<creditVars, buffered, fin, dead, parked, owed, readerVars, failVars,
                 aliveVars, acceptVars>>

OpenPush(s) ==
  /\ handle[s] = "inserted"
  /\ \/ ~queue_closed /\ Holds(s, "open") /\ UNCHANGED streams
     \/ queue_closed /\ Holds(s, "dropped") /\ streams' = streams \ {s}
  /\ UNCHANGED <<creditVars, buffered, fin, dead, parked, owed, readerVars, failVars,
                 aliveVars, acceptVars>>

accept_stream ==
  /\ accept_open /\ accept # <<>>
  /\ accept' = Tail(accept)
  /\ Holds(Head(accept), "open")
  /\ UNCHANGED <<creditVars, streams, buffered, fin, dead, parked, owed, readerVars, failVars,
                 aliveVars, accept_open>>

\* The stream's owner is between calls, and not parked in poll_read.
Polled(s) == handle[s] = "open" /\ s \notin parked /\ owed[s] = 0

\* Mutant of TakeBytes: the length of the last chunk is not checked.
TakeBytes_unchecked(s) ==
  /\ buffered[s] > 0
  /\ \E n \in 1..MaxLen :
       /\ buffered' = [buffered EXCEPT ![s] = @ - n]
       /\ owed' = [owed EXCEPT ![s] = n]
  /\ UNCHANGED parked

\* The copy loop of poll_read: as much as the caller's buffer has room for.
TakeBytes(s) ==
  /\ buffered[s] > 0
  /\ \E n \in 1..buffered[s] :
       /\ buffered' = [buffered EXCEPT ![s] = @ - n]
       /\ owed' = [owed EXCEPT ![s] = n]
  /\ UNCHANGED parked

\* Mutant of poll_read: only the stream's own flags are looked at.
poll_read_own_flags(s) ==
  /\ Polled(s)
  /\ \/ TakeBytes(s)
     \/ /\ buffered[s] = 0 /\ ~fin[s] /\ ~dead[s]
        /\ parked' = parked \cup {s}
        /\ UNCHANGED <<buffered, owed>>
  /\ UNCHANGED <<creditVars, streams, fin, dead, handle, readerVars, failVars, aliveVars,
                 acceptVars>>

\* poll_read under the stream's lock: bytes, or registering the waker.  The
\* end-of-file and error answers change nothing.
poll_read(s) ==
  /\ Polled(s)
  /\ \/ TakeBytes(s)
     \/ /\ buffered[s] = 0 /\ ~fin[s] /\ ~dead[s] /\ ~closed
        /\ parked' = parked \cup {s}
        /\ UNCHANGED <<buffered, owed>>
  /\ UNCHANGED <<creditVars, streams, fin, dead, handle, readerVars, failVars, aliveVars,
                 acceptVars>>

\* The second half of poll_read, or of Drop.
Refund(s) ==
  /\ \/ handle[s] = "open" /\ owed[s] > 0 /\ UNCHANGED handle
     \/ handle[s] = "refund" /\ Holds(s, "dropped")
  /\ return_tokens(owed[s])
  /\ owed' = [owed EXCEPT ![s] = 0]
  /\ UNCHANGED <<streams, buffered, fin, dead, parked, readerVars, failVars, aliveVars,
                 acceptVars>>

\* Drop: send_fin, then remove_stream, then recycle, then return_tokens.
DropStream(s) ==
  /\ handle[s] = "open" /\ owed[s] = 0
  /\ Holds(s, "drop")
  /\ parked' = parked \ {s}
  /\ UNCHANGED <<creditVars, streams, buffered, fin, dead, owed, readerVars, failVars,
                 aliveVars, acceptVars>>

remove_stream(s) ==
  /\ handle[s] = "drop"
  /\ Holds(s, IF s \in streams THEN "recycle" ELSE "dropped")
  /\ streams' = streams \ {s}
  /\ UNCHANGED <<creditVars, buffered, fin, dead, parked, owed, readerVars, failVars,
                 aliveVars, acceptVars>>

\* Mutant of recycle: the bytes are discarded and not reported.
recycle_silent(s) ==
  /\ handle[s] = "recycle"
  /\ buffered' = [buffered EXCEPT ![s] = 0]
  /\ Holds(s, "refund")
  /\ UNCHANGED <<creditVars, streams, fin, dead, parked, owed, readerVars, failVars,
                 aliveVars, acceptVars>>

recycle(s) ==
  /\ handle[s] = "recycle"
  /\ owed' = [owed EXCEPT ![s] = buffered[s]]
  /\ buffered' = [buffered EXCEPT ![s] = 0]
  /\ Holds(s, "refund")
  /\ UNCHANGED <<creditVars, streams, fin, dead, parked, readerVars, failVars,
                 aliveVars, acceptVars>>

\* MuxSession::close: fail, then abort (NotifyReader); on a session that has
\* already failed, the abort at once.
CloseSession ==
  /\ accept_open /\ ~aborted
  /\ \/ ~closed /\ Fail("app", "closed")
     \/ closed /\ aborted' = TRUE /\ UNCHANGED <<closed, error, queue_closed, failing, dying>>
  /\ UNCHANGED <<creditVars, streamVars, readerVars, aliveVars, acceptVars>>

\* Dropping the MuxSession: after close, the accept channel and every stream
\* waiting in it.
DropSession ==
  /\ accept_open /\ aborted
  /\ accept_open' = FALSE
  /\ accept' = <<>>
  /\ handle' = [s \in Sids |-> IF handle[s] = "backlog" THEN "drop" ELSE handle[s]]
  /\ UNCHANGED <<creditVars, streams, buffered, fin, dead, parked, owed, readerVars, failVars,
                 aliveVars>>

\* The parts of a call that run to its end without awaiting anything.
Finish(s) == OpenInsert(s) \/ OpenPush(s) \/ Refund(s) \/ remove_stream(s) \/ recycle(s)

Application ==
  \/ \E s \in OwnSids : OpenCheck(s)
  \/ \E s \in Sids : Finish(s) \/ poll_read(s) \/ DropStream(s)
  \/ accept_stream \/ CloseSession \/ DropSession

Next == ReaderStep \/ Receive \/ FailStep \/ Keepalive \/ Application

Spec == Init /\ [][Next]_vars

-------------------------------------------------------------------------------
(* What must hold.                                                         *)

Handles == {"none", "opening", "inserted", "delivering", "backlog", "open", "drop",
            "recycle", "refund", "dropped"}

CreditTyped == bucket \in Int /\ bucket_notify \in BOOLEAN

StreamsTyped ==
  /\ streams \subseteq Sids /\ parked \subseteq Sids
  /\ buffered \in [Sids -> Nat] /\ owed \in [Sids -> Nat]
  /\ fin \in [Sids -> BOOLEAN] /\ dead \in [Sids -> BOOLEAN]
  /\ handle \in [Sids -> Handles]

ReaderTyped ==
  /\ rpc \in {"gate", "parking", "wait", "woken", "header", "upd", "payload", "spend", "push",
              "deliver", "full", "sleep", "failing", "done"}
  /\ rpc \in {"payload", "spend", "push", "deliver", "full", "sleep"}
       => cur.sid \in Sids /\ cur.len \in 0..MaxLen
  /\ frames \in Nat /\ lost \subseteq Sids

FailTyped ==
  /\ closed \in BOOLEAN /\ queue_closed \in BOOLEAN /\ aborted \in BOOLEAN
  /\ error \in {"none", "transport", "protocol", "timeout", "closed"}
  /\ failing \in {"nobody", "reader", "keepalive", "app"} \X {"queue", "drain", "kill", "done"}
  /\ dying \subseteq Sids

AliveTyped ==
  /\ kpc \in {"select", "check", "expired", "done"}
  /\ data_ready \in BOOLEAN

AcceptTyped == accept \in Seq(Sids) /\ accept_open \in BOOLEAN

TypeOK ==
  CreditTyped /\ StreamsTyped /\ ReaderTyped /\ FailTyped /\ AliveTyped /\ AcceptTyped

Total(f) == MapThenSumSet(LAMBDA s : f[s], Sids)

\* Every byte of receive credit is accounted for: in the bucket, on a stream,
\* taken off a stream by a call that is about to return it, or in the reader's
\* hand between spend_tokens and push_bytes.
CreditConserved ==
  bucket + Total(buffered) + Total(owed) + (IF rpc = "push" THEN cur.len ELSE 0) = MaxBuf

\* The reader spends only after finding the gate open and nobody else spends, so
\* the bucket never goes further below zero than one payload.
BucketFloor ==
  /\ bucket > -MaxLen
  /\ rpc \in {"header", "upd", "payload", "spend"} => bucket > 0

\* "A stream that is never read therefore cannot grow the process's memory
\* without bound": however many streams there are and whether or not they are
\* read, what they buffer stays within one payload of max_receive_buffer.
MemoryBounded == Total(buffered) < MaxBuf + MaxLen

\* Once fail has run no application task is left parked in poll_read, also on
\* streams the reader or open_stream put in the table after it was drained.
NobodyStranded == closed /\ FailDone => parked = {}

\* A payload is discarded only for a stream the application has let go of, or
\* after the session was closed: open_stream registers the stream before the
\* peer can know of it.
NoPayloadLost ==
  closed \/ \A s \in lost : handle[s] \in {"drop", "recycle", "refund", "dropped"}

\* Why the two hold.  Until fail has drained the table every stream somebody
\* holds is in it; whoever is parked is parked on such a stream, and once it has
\* been drained is among those still to be woken.
Drained == closed /\ failing[2] \in {"kill", "done"}

FailOrder == (~FailDone => closed) /\ (FailDone => dying = {})

InTable ==
  ~Drained => \A s \in Sids :
    handle[s] \in {"inserted", "delivering", "backlog", "open"} => s \in streams

ParkedInTable == \A s \in parked : handle[s] = "open" /\ (Drained => s \in dying)

ReaderHolds ==
  /\ rpc = "payload" => Offered(cur.sid)
  /\ rpc \in {"deliver", "full", "sleep"} => handle[cur.sid] = "delivering"

BacklogHolds ==
  /\ \A i \in DOMAIN accept : handle[accept[i]] = "backlog"
  /\ \A i, j \in DOMAIN accept : accept[i] = accept[j] => i = j

Registered == FailOrder /\ InTable /\ ParkedInTable /\ ReaderHolds /\ BacklogHolds

\* No lost wakeup at the gate: a reader that waits for credit, or is about to,
\* has a permit to go on as soon as the credit is back, and one that waits has a
\* permit when fail has run.  The code notifies from return_tokens and fail.
GateWakes ==
  /\ rpc \in {"parking", "wait"} /\ bucket > 0 => bucket_notify
  /\ rpc = "wait" /\ closed /\ FailDone => bucket_notify

\* The account of receive credit is right: every byte of it is in one place, the
\* overdraft stays below one payload, and with it the memory above the configured
\* buffer (spend_tokens, return_tokens, recycle).
CreditKept == TypeOK /\ CreditConserved /\ BucketFloor /\ MemoryBounded

\* Nobody who reads is left behind: fail finds every stream that somebody holds,
\* no reader stays parked when it is done, and the reader task does not sleep
\* through returned credit.
ReadersWake == Registered /\ NobodyStranded /\ GateWakes

===============================================================================
