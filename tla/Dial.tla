-------------------------------- MODULE Dial --------------------------------
(***************************************************************************)
(* How a forwarder picks a target and reaches it.                          *)
(*                                                                         *)
(* TcpDirectForwardHandler (forward.rs) runs once per connection, all of   *)
(* them sharing one NodeGroup (node.rs): it asks the group's               *)
(* FilterSelector (selector.rs) for a target, dials it through the chain,  *)
(* marks it dead when that fails, and tries again.  The marks are two      *)
(* atomics read and written one at a time; the latencies of the            *)
(* FastestFilter come from probes in the background.                       *)
(*                                                                         *)
(* The chain's first hop may be one that keeps a session for all dials:    *)
(* QUIC, with the double-checked cache of QuicDialer (quic_transport.rs),  *)
(* or SSH, whose SshForwardTransporter (ssh.rs) holds its map locked while *)
(* it builds a session.  The smux dialer is the subject of MuxDialer.      *)
(***************************************************************************)
EXTENDS Integers, Sequences, FiniteSets

CONSTANTS
    Handlers,           \* connections being served at the same time
    FAIL_TIMEOUT,       \* fail_timeout, in ticks of the clock
    PING_TIMEOUT,       \* DEFAULT_PING_TIMEOUT
    PING_HOLD,          \* how long a probe keeps others from starting
    PING_TTL,           \* how long a measurement lasts
    MaxSessions,        \* bound: sessions built
    Setups              \* bound: the configurations to look at

\* A setup: the hop of the chain, the targets with a valid port and those
\* that do not answer at first, the settings of the selector, the handler's
\* retries, and bounds on requests, on the
\* clock and on the faults of the network.
ASSUME DialConstants ==
    /\ Handlers # {} /\ Handlers \subseteq Nat \ {0}
    /\ FAIL_TIMEOUT \in Nat /\ PING_TIMEOUT \in Nat /\ PING_HOLD \in Nat /\ PING_TTL \in Nat
    /\ PING_TIMEOUT <= PING_HOLD       \* three and five seconds
    /\ MaxSessions \in Nat
    /\ \A u \in Setups :
          /\ u.hop \in {"none", "quic", "ssh"} /\ u.strategy \in {"round", "random", "fifo"}
          /\ u.nodes \in Nat \ {0} /\ u.valid \subseteq 1 .. u.nodes /\ u.down \subseteq 1 .. u.nodes
          /\ u.max_fails \in Nat \ {0} /\ u.fastest \in Nat /\ u.retries \in Nat
          /\ u.requests \in Nat /\ u.ticks \in Nat /\ u.faults \in Nat

VARIABLES
    setup,          \* the setup of this behaviour
    now,            \* the clock
    up,             \* the targets that answer
    fail_time, fail_count,      \* the FailMarker of each target
    counter,        \* the round-robin counter
    results,        \* FastestFilter's cache
    probes,         \* probes under way
    cached,         \* the session in the cache, or 0
    lock,           \* the handler that holds build_lock, or the SSH map
    live,           \* the sessions that are alive
    built,          \* sessions built so far
    h,              \* the handlers
    faults, served, \* faults so far; requests begun so far
    clean,          \* history: failures of each target since it last succeeded, but
                    \* for those whose mark a reset came in between
    last            \* history: when each target last failed

marker == <<fail_time, fail_count>>
pool == <<cached, lock, live, built>>
history == <<clean, last>>
vars == <<setup, now, up, marker, counter, results, probes, pool, h, faults, served, history>>

Nodes == 1 .. setup.nodes
None == 0
Unmeasured == [latency |-> 0, expires_at |-> 0 - 1]

\* A handler: where it is, the attempts left, the clock it saw, the targets
\* still to be looked at and kept, the count just read, its target, session
\* and stage in the cache, how its last dial went, and (history) the targets
\* that were dead before it began to select and whether no success interfered
\* with the mark it is making.
Idle == [pc |-> "idle", left |-> 0, seen |-> 0, todo |-> {}, kept |-> {}, count |-> 0,
         node |-> 0, ses |-> 0, stage |-> "warm", why |-> "", shun |-> {}, alone |-> TRUE]

Init ==
    /\ setup \in Setups
    /\ now = FAIL_TIMEOUT                   \* long after the epoch
    /\ up = (1 .. setup.nodes) \ setup.down
    /\ fail_time = [n \in Nodes |-> 0]
    /\ fail_count = [n \in Nodes |-> 0]
    /\ counter = 0
    /\ results = [n \in Nodes |-> Unmeasured]
    /\ probes = [n \in Nodes |-> <<>>]
    /\ cached = None /\ lock = None /\ live = {} /\ built = 0
    /\ h = [k \in Handlers |-> Idle]
    /\ faults = 0 /\ served = 0
    /\ clean = [n \in Nodes |-> 0]
    /\ last = [n \in Nodes |-> 0 - FAIL_TIMEOUT]

-----------------------------------------------------------------------------
(* Selection.                                                              *)

\* mutant: no setting means no attempt.
Retries_none == setup.retries

Retries == IF setup.retries > 0 THEN setup.retries ELSE 1

Request(k) ==
    /\ h[k].pc = "idle" /\ served < setup.requests
    /\ served' = served + 1
    /\ h' = [h EXCEPT ![k] = [Idle EXCEPT !.pc = "next", !.left = Retries]]
    /\ UNCHANGED <<setup, now, up, marker, counter, results, probes, pool, faults, history>>

InvalidFilter(ns) == {n \in ns : n \in setup.valid}

\* NodeGroup::next, up to the FailFilter: one candidate is not looked at.
next(k) ==
    /\ h[k].pc = "next"
    /\ LET cand == InvalidFilter(Nodes)
           one == Cardinality(cand) = 1
       IN h' = [h EXCEPT ![k].seen = now, ![k].todo = cand, ![k].why = "",
                         ![k].kept = IF one THEN cand ELSE {},
                         ![k].pc = IF cand = {} THEN "failed"
                                   ELSE IF one THEN "strategy" ELSE "count",
                         ![k].shun = {n \in cand : /\ ~one
                                                 /\ clean[n] >= setup.max_fails
                                                 /\ now - last[n] < FAIL_TIMEOUT}]
    /\ UNCHANGED <<setup, now, up, marker, counter, results, probes, pool, faults, served, history>>

\* The targets are looked at in the order of the list.
First(ns) == CHOOSE n \in ns : \A m \in ns : n <= m

FilterCount(k) ==
    /\ h[k].pc = "count"
    /\ h' = [h EXCEPT ![k].pc = "time", ![k].count = fail_count[First(h[k].todo)]]
    /\ UNCHANGED <<setup, now, up, marker, counter, results, probes, pool, faults, served, history>>

\* mutant: one failure more than max_fails is allowed.
Keeps_one_more(count, time, seen) == count <= setup.max_fails \/ seen - time >= FAIL_TIMEOUT

\* mutant: a failure is held against a target for ever.
Keeps_forever(count, time, seen) == count < setup.max_fails

Keeps(count, time, seen) == count < setup.max_fails \/ seen - time >= FAIL_TIMEOUT

FilterTime(k) ==
    /\ h[k].pc = "time"
    /\ LET n == First(h[k].todo)
           kept == IF Keeps(h[k].count, fail_time[n], h[k].seen) THEN h[k].kept \cup {n} ELSE h[k].kept
           rest == h[k].todo \ {n}
       IN h' = [h EXCEPT ![k].kept = kept, ![k].todo = rest,
                         ![k].why = IF rest = {} /\ kept = {} THEN "none available" ELSE @,
                         ![k].pc = IF rest # {} THEN "count"
                                   ELSE IF kept = {} THEN "failed" ELSE "strategy"]
    /\ UNCHANGED <<setup, now, up, marker, counter, results, probes, pool, faults, served, history>>

\* FastestFilter: the best of those kept, unmeasured ones first; whoever has
\* no fresh measurement is probed.
latency(n) == results[n].latency

\* mutant: the measurement that a probe is to replace counts as stale again
\* before the probe has to be over.
hold_short == PING_TIMEOUT - 2

hold == PING_HOLD

Stale(ns) == {n \in ns : setup.fastest > 0 /\ results[n].expires_at < now}

latency_of(ns) ==
    /\ results' = [n \in Nodes |-> IF n \in Stale(ns) THEN [latency |-> latency(n), expires_at |-> now + hold]
                                   ELSE results[n]]
    /\ probes' = [n \in Nodes |-> IF n \in Stale(ns) THEN Append(probes[n], now + PING_TIMEOUT) ELSE probes[n]]

\* The place of n among ns, from 0: by latency if the FastestFilter sorts
\* them, which leaves those that are equally fast in the order of the list.
Before(m, n) == IF setup.fastest > 0 /\ latency(m) # latency(n) THEN latency(m) < latency(n) ELSE m < n
Place(ns, n) == Cardinality({m \in ns : Before(m, n)})

Fastest(ns) == {n \in ns : setup.fastest = 0 \/ Place(ns, n) < setup.fastest}

\* The choices the strategy leaves.
apply(ns) ==
    CASE setup.strategy = "round"  -> {n \in ns : Place(ns, n) = counter % Cardinality(ns)}
      [] setup.strategy = "random" -> ns
      [] setup.strategy = "fifo"   -> {n \in ns : Place(ns, n) = 0}

Strategy(k) ==
    /\ h[k].pc = "strategy"
    /\ latency_of(h[k].kept)
    /\ counter' = IF setup.strategy = "round" THEN counter + 1 ELSE counter
    /\ \E n \in apply(Fastest(h[k].kept)) :
          h' = [h EXCEPT ![k].node = n, ![k].stage = "warm", ![k].ses = 0,
                         ![k].pc = CASE setup.hop = "none" -> "target"
                                     [] setup.hop = "quic" -> "session"
                                     [] setup.hop = "ssh"  -> "lock"]
    /\ UNCHANGED <<setup, now, up, marker, pool, faults, served, history>>

\* A probe ends: a target that does not answer counts as slow as the timeout.
ProbeEnds(n) ==
    /\ probes[n] # <<>>
    /\ \/ /\ n \in up
          /\ \E l \in 1 .. PING_TIMEOUT - 1 :
                results' = [results EXCEPT ![n] = [latency |-> l, expires_at |-> now + PING_TTL]]
       \/ /\ n \notin up
          /\ results' = [results EXCEPT ![n] = [latency |-> PING_TIMEOUT, expires_at |-> now + PING_TTL]]
    /\ probes' = [probes EXCEPT ![n] = Tail(@)]
    /\ UNCHANGED <<setup, now, up, marker, counter, pool, h, faults, served, history>>
-----------------------------------------------------------------------------
(* The session of the first hop.                                           *)

Outside == <<setup, now, up, marker, counter, results, probes, served, history>>

\* mutant: the lock that was held is kept.
Fails_locked(k, why) ==
    /\ h' = [h EXCEPT ![k].pc = "mark1", ![k].why = why]
    /\ UNCHANGED lock

\* The dial has failed; a lock that was held is dropped.
Fails(k, why) ==
    /\ h' = [h EXCEPT ![k].pc = "mark1", ![k].why = why]
    /\ lock' = IF lock = k THEN None ELSE lock

\* live_session, or a look into the SSH map: a dead session is evicted.  With
\* SSH the lock is held from here until a session is in the map.
live_session(k) ==
    /\ h[k].pc = "session"
    /\ IF cached \in live
       THEN /\ h' = [h EXCEPT ![k].pc = "open", ![k].ses = cached]
            /\ lock' = IF setup.hop = "ssh" THEN None ELSE lock
            /\ UNCHANGED cached
       ELSE /\ h' = [h EXCEPT ![k].pc = IF h[k].stage = "warm" THEN "lock" ELSE "connect"]
            /\ cached' = None
            /\ UNCHANGED lock
    /\ UNCHANGED <<Outside, live, built, faults>>

\* mutant: the cache is not looked at again under the lock.
Locks_unchecked(k) ==
    /\ h[k].pc = "lock" /\ lock = None
    /\ lock' = k
    /\ h' = [h EXCEPT ![k].pc = "connect", ![k].stage = "locked"]
    /\ UNCHANGED <<Outside, cached, live, built, faults>>

Locks(k) ==
    /\ h[k].pc = "lock" /\ lock = None
    /\ lock' = k
    /\ h' = [h EXCEPT ![k].pc = "session", ![k].stage = "locked"]
    /\ UNCHANGED <<Outside, cached, live, built, faults>>

\* The handshake of a new session.  QuicDialer tries it out before it is put
\* into the cache, SshForwardTransporter puts it into the map at once.
connect(k) ==
    /\ h[k].pc = "connect"
    /\ \/ /\ built < MaxSessions
          /\ built' = built + 1
          /\ live' = live \cup {built + 1}
          /\ h' = [h EXCEPT ![k].pc = "open", ![k].ses = built + 1, ![k].stage = "built"]
          /\ IF setup.hop = "ssh" THEN cached' = built + 1 /\ lock' = None
             ELSE UNCHANGED <<cached, lock>>
          /\ UNCHANGED faults
       \/ /\ faults < setup.faults
          /\ faults' = faults + 1
          /\ Fails(k, "connect")
          /\ UNCHANGED <<cached, live, built>>
    /\ UNCHANGED Outside

\* mutant: a stale session is the caller's problem.
Refused_at_once(k) == Fails(k, h[k].stage)

\* The session in hand is dead.  QuicDialer goes on to build one unless it
\* just has; on an SSH hop the dial fails.
Refused(k) ==
    IF setup.hop = "ssh" \/ h[k].stage = "built" THEN Fails(k, h[k].stage)
    ELSE /\ h' = [h EXCEPT ![k].pc = IF h[k].stage = "warm" THEN "lock" ELSE "connect"]
         /\ UNCHANGED lock

\* A stream on the session, which is published once that works.
open_bi(k) ==
    /\ h[k].pc = "open"
    /\ \/ /\ h[k].ses \in live
          /\ h' = [h EXCEPT ![k].pc = "target"]
          /\ cached' = IF setup.hop = "quic" /\ h[k].stage = "built" THEN h[k].ses ELSE cached
          /\ lock' = IF lock = k THEN None ELSE lock
       \/ /\ h[k].ses \notin live
          /\ Refused(k)
          /\ UNCHANGED cached
    /\ UNCHANGED <<Outside, live, built, faults>>

\* The target is reached, over the stream if there is a hop.
Reaches(k) ==
    /\ h[k].pc = "target"
    /\ \/ /\ h[k].node \in up /\ (setup.hop # "none" => h[k].ses \in live)
          /\ h' = [h EXCEPT ![k].pc = "reset1"]
       \/ /\ h[k].node \notin up \/ (setup.hop # "none" /\ h[k].ses \notin live)
          /\ h' = [h EXCEPT ![k].pc = "mark1", ![k].why = "target"]
    /\ UNCHANGED <<Outside, pool, faults>>

-----------------------------------------------------------------------------
(* The marks.                                                              *)

At(pc, n) == {j \in Handlers : h[j].pc = pc /\ h[j].node = n}
Rest == <<setup, now, up, counter, results, probes, pool, faults, served>>

\* FailMarker::mark, the time and then the count.
MarkTime(k) ==
    LET n == h[k].node
    IN /\ h[k].pc = "mark1"
       /\ fail_time' = [fail_time EXCEPT ![n] = now]
       /\ last' = [last EXCEPT ![n] = now]
       /\ h' = [h EXCEPT ![k].pc = "mark2", ![k].alone = (At("reset2", n) = {})]
       /\ UNCHANGED <<Rest, fail_count, clean>>

MarkCount(k) ==
    LET n == h[k].node
    IN /\ h[k].pc = "mark2"
       /\ fail_count' = [fail_count EXCEPT ![n] = @ + 1]
       /\ clean' = [clean EXCEPT ![n] = IF h[k].alone THEN @ + 1 ELSE @]
       /\ h' = [h EXCEPT ![k].left = @ - 1, ![k].pc = IF h[k].left > 1 THEN "next" ELSE "failed"]
       /\ UNCHANGED <<Rest, fail_time, last>>

\* FailMarker::reset.
ResetTime(k) ==
    LET n == h[k].node
    IN /\ h[k].pc = "reset1"
       /\ fail_time' = [fail_time EXCEPT ![n] = 0]
       /\ clean' = [clean EXCEPT ![n] = 0]
       /\ h' = [j \in Handlers |->
                   [h[j] EXCEPT !.pc = IF j = k THEN "reset2" ELSE @,
                                !.alone = IF j \in At("mark2", n) THEN FALSE ELSE @,
                                !.shun = @ \ {n}]]
       /\ UNCHANGED <<Rest, fail_count, last>>

ResetCount(k) ==
    /\ h[k].pc = "reset2"
    /\ fail_count' = [fail_count EXCEPT ![h[k].node] = 0]
    /\ h' = [h EXCEPT ![k].pc = "relay"]
    /\ UNCHANGED <<Rest, fail_time, history>>

\* The splice is over, or the connection was given up.
Ends(k) ==
    /\ h[k].pc \in {"relay", "failed"}
    /\ h' = [h EXCEPT ![k] = Idle]
    /\ UNCHANGED <<Rest, marker, history>>

-----------------------------------------------------------------------------
(* The clock and the network.                                              *)

\* A probe is over when its timeout has passed.
Tick ==
    /\ now < FAIL_TIMEOUT + setup.ticks
    /\ \A n \in Nodes : \A i \in DOMAIN probes[n] : now < probes[n][i]
    /\ now' = now + 1
    /\ UNCHANGED <<setup, up, marker, counter, results, probes, pool, h, faults, served, history>>

Fault ==
    /\ faults < setup.faults
    /\ faults' = faults + 1
    /\ \/ /\ \E n \in Nodes : up' = IF n \in up THEN up \ {n} ELSE up \cup {n}
          /\ UNCHANGED live
       \/ /\ \E s \in live : live' = live \ {s}
          /\ UNCHANGED up
    /\ UNCHANGED <<setup, now, marker, counter, results, probes, cached, lock, built, h, served, history>>

Handles(k) ==
    \/ next(k) \/ FilterCount(k) \/ FilterTime(k) \/ Strategy(k)
    \/ live_session(k) \/ Locks(k) \/ connect(k) \/ open_bi(k) \/ Reaches(k)
    \/ MarkTime(k) \/ MarkCount(k) \/ ResetTime(k) \/ ResetCount(k) \/ Ends(k)

Next ==
    \/ \E k \in Handlers : Request(k) \/ Handles(k)
    \/ \E n \in Nodes : ProbeEnds(n)
    \/ Tick \/ Fault

Spec == Init /\ [][Next]_vars
FairSpec == Spec /\ WF_vars(\E k \in Handlers : Handles(k))

-----------------------------------------------------------------------------
(* Properties.                                                             *)

\* The shape of the state; whoever holds the lock is on its way to a session.
TypeOK ==
    /\ setup \in Setups /\ up \subseteq Nodes /\ live \subseteq 1 .. built
    /\ cached \in 0 .. built /\ lock \in Handlers \cup {None}
    /\ fail_time \in [Nodes -> Nat] /\ fail_count \in [Nodes -> Nat]
    /\ \A k \in Handlers : /\ h[k].left \in 0 .. Retries /\ h[k].node \in Nodes \cup {0}
                           /\ lock = k => h[k].pc \in {"session", "connect", "open"}

Picked == {"session", "lock", "connect", "open", "target"}

\* A target that had failed max_fails times when a selection began, the last
\* time within fail_timeout, is not selected: not even when other handlers
\* mark targets meanwhile, between the two reads of the filter or with their
\* own marks half done.  (A success meanwhile does clear the target, a failure
\* whose mark overlaps a reset does not count, and one target alone is never
\* left out.)
DeadAvoided == \A k \in Handlers : h[k].pc \in Picked => h[k].node \notin h[k].shun

\* A selection finds nobody only if every target with a valid port has failed
\* within fail_timeout: marks expire, and no interleaving of a mark with a
\* success leaves a target out longer.
NotShutOut ==
    \A k \in Handlers : h[k].why = "none available" =>
        \A n \in setup.valid : h[k].seen - last[n] < FAIL_TIMEOUT

\* At most one probe of a target is under way: the hold on the entry outlasts
\* the probe's timeout, so no old measurement arrives after a newer one.
OneProbe == \A n \in Nodes : Len(probes[n]) <= 1

\* However many handlers dial a cold or a dead hop at once, no two sessions to
\* it are alive at the same time (QuicDialer: "two concurrent first dials
\* produce one connection"; SshForwardTransporter: "two concurrent dials to a
\* cold node must produce one session, not two").
OneSession == Cardinality(live) <= 1

\* A dial through QUIC does not fail because the cached connection had died:
\* it builds another one, and fails only if that is not possible or the new
\* one dies at once.
Rebuilds == \A k \in Handlers : setup.hop = "quic" => h[k].why \notin {"warm", "locked"}

\* Every request comes to an end: the selection finishes, attempts run out,
\* and nobody waits for ever behind the lock of somebody whose dial failed.
DialEnds == \A k \in Handlers : []<>(h[k].pc = "idle")

\* A target that has failed is left out of the selection, and only as long as its
\* mark lasts, however marks, successes and selections interleave.
MarksSound == TypeOK /\ DeadAvoided /\ NotShutOut

\* Concurrent dials share what they start: one probe of a target, one session to
\* a hop, which is built again when it has died.
OneAtATime == OneProbe /\ OneSession /\ Rebuilds

====
