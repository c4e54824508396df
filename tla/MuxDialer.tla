----------------------------- MODULE MuxDialer -----------------------------
(***************************************************************************)
(* The client half of the multiplexed transports (mux_transport.rs): a     *)
(* dialer that caches one smux session and opens a stream on it for every  *)
(* dial, building a session only when there is none or the cached one      *)
(* refuses.  With it, the parts of a session the dialer depends on: the    *)
(* allocation of stream ids (mux.rs, next_id) with its wrapping counter,   *)
(* and the reference counting that closes a session when its last holder,  *)
(* the cache, a dial in progress or a stream, lets go of it.               *)
(*                                                                         *)
(* A caller repeats: dial, use the stream, drop it.  Sessions are numbered *)
(* in the order they are built.                                            *)
(***************************************************************************)
EXTENDS Integers

CONSTANTS
    Callers,        \* tasks that dial
    Modulus,        \* the number of stream ids, 2^32 in the code
    MaxSessions     \* bound: sessions the factory manages to build

ASSUME DialerConstants ==
    /\ Callers # {}
    /\ Modulus \in Nat /\ Modulus % 2 = 0 /\ Modulus > 2
    /\ MaxSessions \in Nat

Sessions == 1 .. MaxSessions
None == 0
StreamIds == 0 .. Modulus - 1

VARIABLES
    cached,     \* the cached session, or None
    lock,       \* TRUE while some dial holds build_lock
    built,      \* the number of sessions built
    up,         \* the sessions that are not closed
    failed,     \* the sessions that were closed by a failure or by close()
    counter,    \* next_stream_id of each session
    go_away,    \* the sessions whose ids have run out
    pc,         \* where each caller is in dial(), or in using its stream
    phase,      \* its session: met without the lock, met under it, or just built
    ses,        \* the session each caller holds
    sid         \* the stream id each caller holds

dialer == <<cached, lock, built>>
session == <<up, failed, counter, go_away>>
caller == <<pc, phase, ses, sid>>
dialerVars == <<dialer, session, caller>>

DialerInit ==
    /\ cached = None
    /\ lock = FALSE
    /\ built = 0
    /\ up = {}
    /\ failed = {}
    /\ counter = [s \in Sessions |-> 1]      \* client ids start at 1
    /\ go_away = {}
    /\ pc = [k \in Callers |-> "idle"]
    /\ phase = [k \in Callers |-> "warm"]
    /\ ses = [k \in Callers |-> None]
    /\ sid = [k \in Callers |-> 0]

-----------------------------------------------------------------------------
(* Reference counts.                                                       *)

\* The sessions held with a stream that does not keep its session.
Held_by_dials == {cached} \cup {ses[k] : k \in {j \in Callers : pc[j] # "stream"}}

\* The sessions somebody holds: the cache, the dials in progress, and the
\* streams, each of which carries its session (MuxStreamConn).
Held == {cached} \cup {ses[k] : k \in Callers}

\* Dropping the last reference closes a session.
Reap == up' = up \cap Held'

-----------------------------------------------------------------------------
(* MuxDialer::dial.                                                        *)

\* live_session(): the cached session if it is open; a dead one is evicted.
Live == IF cached \in up THEN cached ELSE None

CallerGoto(k, label) == pc' = [pc EXCEPT ![k] = label]

\* The dial ends; the guard of build_lock, if it was taken, is dropped.
Unlock(k) ==
    /\ phase' = [phase EXCEPT ![k] = "warm"]
    /\ lock' = (lock /\ phase[k] = "warm")

\* The dial ends with an error.
GivesUp(k) ==
    /\ CallerGoto(k, "idle")
    /\ ses' = [ses EXCEPT ![k] = None]
    /\ Unlock(k)

\* The warm path: look at the cache without the lock.
Dial(k) ==
    /\ pc[k] = "idle"
    /\ cached' = Live
    /\ ses' = [ses EXCEPT ![k] = Live]
    /\ CallerGoto(k, IF Live # None THEN "open" ELSE "wait")
    /\ Reap
    /\ UNCHANGED <<lock, built, failed, counter, go_away, phase, sid>>

\* The lock is acquired and the session built without looking again.
Acquire_blind(k) ==
    /\ pc[k] = "wait"
    /\ ~lock
    /\ lock' = TRUE
    /\ phase' = [phase EXCEPT ![k] = "recheck"]
    /\ CallerGoto(k, "build")
    /\ UNCHANGED <<cached, built, session, ses, sid>>

\* The build lock is acquired, and the cache looked at again.
Acquire(k) ==
    /\ pc[k] = "wait"
    /\ ~lock
    /\ lock' = TRUE
    /\ phase' = [phase EXCEPT ![k] = "recheck"]
    /\ cached' = Live
    /\ ses' = [ses EXCEPT ![k] = Live]
    /\ CallerGoto(k, IF Live # None THEN "open" ELSE "build")
    /\ Reap
    /\ UNCHANGED <<built, failed, counter, go_away, sid>>

\* open_stream failed: without the lock, wait for it; with it, build; with a
\* session just built, give up.
Refused(k) ==
    \/ /\ phase[k] # "fresh"
       /\ CallerGoto(k, IF phase[k] = "warm" THEN "wait" ELSE "build")
       /\ ses' = [ses EXCEPT ![k] = None]
       /\ UNCHANGED <<phase, lock>>
    \/ phase[k] = "fresh" /\ GivesUp(k)

\* open_stream looks at the closed flag, and next_id at go_away.
OpenCheck(k) ==
    /\ pc[k] = "open"
    /\ UNCHANGED <<cached, built, failed, counter, go_away, sid>>
    /\ \/ /\ ses[k] \in up \ go_away
          /\ CallerGoto(k, "alloc")
          /\ UNCHANGED <<lock, up, phase, ses>>
       \/ /\ ses[k] \notin up \ go_away
          /\ Refused(k)
          /\ Reap

\* The next id, without a look at whether the counter has wrapped.
next_id_unchecked(k) ==
    LET id == (counter[ses[k]] + 2) % Modulus IN
    /\ counter' = [counter EXCEPT ![ses[k]] = id]
    /\ sid' = [sid EXCEPT ![k] = id]
    /\ CallerGoto(k, "push")
    /\ UNCHANGED <<lock, up, go_away, phase, ses>>

\* The next id, computed past the width of the field.
next_id_wide(k) ==
    LET id == counter[ses[k]] + 2 IN
    /\ counter' = [counter EXCEPT ![ses[k]] = id]
    /\ sid' = [sid EXCEPT ![k] = id]
    /\ CallerGoto(k, "push")
    /\ UNCHANGED <<lock, up, go_away, phase, ses>>

\* next_id: under the mutex of the counter, the next id or the end of ids.
next_id(k) ==
    LET id == (counter[ses[k]] + 2) % Modulus IN
    /\ counter' = [counter EXCEPT ![ses[k]] = id]
    /\ \/ /\ id # id % 2
          /\ sid' = [sid EXCEPT ![k] = id]
          /\ CallerGoto(k, "push")
          /\ UNCHANGED <<lock, up, go_away, phase, ses>>
       \/ /\ id = id % 2
          /\ go_away' = go_away \cup {ses[k]}
          /\ Refused(k)
          /\ Reap
          /\ UNCHANGED sid

Alloc(k) ==
    /\ pc[k] = "alloc"
    /\ UNCHANGED <<cached, built, failed>>
    /\ next_id(k)

\* The SYN is queued, unless the session has been closed meanwhile.  A dial
\* that built the session publishes it now.
OpenPush(k) ==
    /\ pc[k] = "push"
    /\ \/ /\ ses[k] \in up
          /\ CallerGoto(k, "stream")
          /\ cached' = IF phase[k] = "fresh" THEN ses[k] ELSE cached
          /\ Unlock(k)
          /\ UNCHANGED <<ses, sid>>
       \/ /\ ses[k] \notin up
          /\ Refused(k)
          /\ sid' = [sid EXCEPT ![k] = 0]
          /\ UNCHANGED cached
    /\ Reap
    /\ UNCHANGED <<built, failed, counter, go_away>>

\* The factory has produced a transport: a session starts on it.
BuildDone(k) ==
    /\ pc[k] = "build"
    /\ built < MaxSessions
    /\ built' = built + 1
    /\ up' = up \cup {built + 1}
    /\ ses' = [ses EXCEPT ![k] = built + 1]
    /\ phase' = [phase EXCEPT ![k] = "fresh"]
    /\ CallerGoto(k, "open")
    /\ UNCHANGED <<cached, lock, failed, counter, go_away, sid>>

\* A failing build that leaves the lock taken.
BuildFails_keeps_lock(k) ==
    /\ pc[k] \in {"wait", "build"}
    /\ CallerGoto(k, "idle")
    /\ phase' = [phase EXCEPT ![k] = "warm"]
    /\ UNCHANGED <<dialer, session, ses, sid>>

\* The factory fails, or the dial is cancelled while it waits.
BuildFails(k) ==
    /\ pc[k] \in {"wait", "build"}
    /\ GivesUp(k)
    /\ UNCHANGED <<cached, built, session, sid>>

\* The caller drops its stream, and with it a reference to the session.
DropStream(k) ==
    /\ pc[k] = "stream"
    /\ CallerGoto(k, "idle")
    /\ ses' = [ses EXCEPT ![k] = None]
    /\ sid' = [sid EXCEPT ![k] = 0]
    /\ UNCHANGED cached
    /\ Reap
    /\ UNCHANGED <<dialer, failed, counter, go_away, phase>>

\* A session fails (its peer goes away), or close() ends the cached one.
Fails(s) ==
    /\ s \in up
    /\ up' = up \ {s}
    /\ failed' = failed \cup {s}
    /\ UNCHANGED <<dialer, counter, go_away, caller>>

Step(k) ==
    \/ Dial(k)
    \/ Acquire(k)
    \/ OpenCheck(k)
    \/ Alloc(k)
    \/ OpenPush(k)
    \/ BuildDone(k)
    \/ BuildFails(k)
    \/ DropStream(k)

DialerNext ==
    \/ \E k \in Callers : Step(k)
    \/ \E s \in Sessions : Fails(s)

DialerSpec == DialerInit /\ [][DialerNext]_dialerVars

\* Tasks are scheduled, and tokio's mutex is fair: it serves its waiters in
\* order, so a waiter that could get the lock again and again gets it.
\* Nothing makes the factory return.
FairDialerSpec ==
    /\ DialerSpec
    /\ \A k \in Callers :
        /\ WF_dialerVars(OpenCheck(k) \/ Alloc(k) \/ OpenPush(k))
        /\ SF_dialerVars(Acquire(k))

-----------------------------------------------------------------------------
(* Properties.                                                             *)

DialerTypeOK ==
    /\ cached \in Sessions \cup {None}
    /\ lock \in BOOLEAN
    /\ built \in 0 .. MaxSessions
    /\ up \in SUBSET (1 .. built)
    /\ failed \in SUBSET (1 .. built)
    /\ counter \in [Sessions -> StreamIds]
    /\ go_away \in SUBSET (1 .. built)
    /\ pc \in [Callers -> {"idle", "wait", "open", "alloc", "push", "build", "stream"}]
    /\ phase \in [Callers -> {"warm", "recheck", "fresh"}]
    /\ ses \in [Callers -> Sessions \cup {None}]
    /\ sid \in [Callers -> StreamIds]

\* Concurrent dials share one session: there are never two that could both
\* serve a dial.  This is what build_lock and the second look at the cache
\* under it are for.
OneUsableSession == \A s, t \in up \ go_away : s = t

\* A session that has been replaced in the cache, or whose dialer moved on,
\* still serves the streams opened on it: only a failure ends a stream's
\* session before the stream is dropped.
StreamsKeepSession ==
    \A k \in Callers : pc[k] = "stream" => ses[k] \in up \cup failed

\* Two streams of one session have different ids, up to the moment the
\* session notices that its ids have run out.  (Afterwards they may not:
\* next_id looks at go_away before it takes the mutex.)
UniqueUntilExhausted ==
    \A j, k \in Callers :
        /\ j # k /\ pc[j] \in {"push", "stream"} /\ pc[k] \in {"push", "stream"}
        /\ ses[j] = ses[k] /\ ses[j] \notin go_away
        => sid[j] # sid[k]

\* Every dial ends, with a stream or an error, as long as no transport
\* factory hangs: nobody waits forever for build_lock.
DialEnds ==
    (\A k \in Callers : []<>(pc[k] # "build"))
        => \A k \in Callers : (pc[k] = "wait") ~> (pc[k] \in {"idle", "stream"})

\* Concurrent dials share one session, streams keep theirs when it is replaced,
\* and no two streams of a session have one id before its ids run out
\* (MuxDialer::dial, next_id).
SessionsSound ==
    DialerTypeOK /\ OneUsableSession /\ StreamsKeepSession /\ UniqueUntilExhausted

=============================================================================
