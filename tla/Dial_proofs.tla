----------------------------- MODULE Dial_proofs -----------------------------
(***************************************************************************)
(* Proofs about Dial, for any number of handlers and targets, any settings *)
(* of the selector and any faults: failed targets are left out, and only   *)
(* as long as their marks last (MarksSound), and concurrent dials share    *)
(* one probe of a target and one session to a hop (OneAtATime).            *)
(*                                                                         *)
(* Neither is inductive.  That a mark read in two steps means what it says *)
(* needs to know how the marks relate to what really happened: the count   *)
(* is at least the failures since the last success, but for those whose    *)
(* mark a reset overlaps, and the time is the last failure's or 0.  One    *)
(* session needs to know who can be building one: the holder of the        *)
(* lock, which found nothing alive in the cache when it began.             *)
(***************************************************************************)
EXTENDS Dial, TLAPS, FiniteSetTheorems, WellFoundedInduction

Pcs == {"idle", "next", "count", "time", "strategy", "session", "lock", "connect", "open", "target",
        "mark1", "mark2", "reset1", "reset2", "relay", "failed"}
Stages == {"warm", "locked", "built"}
Whys == {"", "none available", "connect", "warm", "locked", "built", "target"}
Handler == [pc : Pcs, left : Nat, seen : Nat, todo : SUBSET Nat, kept : SUBSET Nat, count : Nat,
            node : Nat, ses : Nat, stage : Stages, why : Whys, shun : SUBSET Nat, alone : BOOLEAN]

Typed ==
    /\ setup \in Setups /\ now \in Nat /\ FAIL_TIMEOUT <= now /\ up \subseteq Nodes
    /\ fail_time \in [Nodes -> Nat] /\ fail_count \in [Nodes -> Nat]
    /\ results \in [Nodes -> [latency : Nat, expires_at : Int]]
    /\ probes \in [Nodes -> Seq(Nat)]
    /\ built \in Nat /\ live \subseteq 1 .. built /\ cached \in 0 .. built
    /\ lock \in Handlers \cup {None}
    /\ clean \in [Nodes -> Nat] /\ last \in [Nodes -> Int]
    /\ h \in [Handlers -> Handler]

-----------------------------------------------------------------------------
(* The marks.                                                              *)

\* The time is that of the last failure, or zero; the count is not behind.
Marked(n) ==
    /\ last[n] <= now
    /\ fail_time[n] \in {0, last[n]}
    /\ clean[n] <= fail_count[n]
    /\ clean[n] > 0 => fail_time[n] = last[n]

\* A reset half done, and a mark half done that no reset has touched.
Marking(k) ==
    /\ h[k].pc = "reset2" => clean[h[k].node] = 0
    /\ h[k].pc = "mark2" /\ h[k].alone =>
          /\ fail_time[h[k].node] = last[h[k].node]
          /\ \A j \in Handlers : h[j].pc = "reset2" => h[j].node # h[k].node

Chosen == Picked \cup {"mark1", "mark2", "reset1", "reset2"}
Selecting == {"count", "time", "strategy"}

\* What a selection knows: the targets that were dead when it began are dead
\* still and not among those kept, and all that were looked at and not kept
\* have failed recently.
Narrows(k) ==
    /\ h[k].pc \in Selecting =>
          /\ FAIL_TIMEOUT <= h[k].seen /\ h[k].seen <= now
          /\ h[k].kept \subseteq setup.valid
          /\ \A n \in h[k].shun : /\ n \in Nodes /\ n \notin h[k].kept
                                  /\ clean[n] >= setup.max_fails /\ h[k].seen - last[n] < FAIL_TIMEOUT
    /\ h[k].pc \in {"count", "time"} =>
          /\ h[k].todo # {} /\ h[k].todo \subseteq setup.valid
          /\ \A n \in setup.valid \ h[k].todo : n \in h[k].kept \/ h[k].seen - last[n] < FAIL_TIMEOUT
    /\ h[k].pc = "time" /\ First(h[k].todo) \in h[k].shun => h[k].count >= setup.max_fails

\* Its outcome: a target that was not dead, or none because all have failed.
Aims(k) ==
    /\ h[k].pc \in Chosen => h[k].node \in Nodes
    /\ h[k].node \in Nodes \cup {0}
    /\ h[k].pc \in Picked => h[k].node \notin h[k].shun
    /\ h[k].why = "none available" => \A n \in setup.valid : h[k].seen - last[n] < FAIL_TIMEOUT

\* The attempts that are left.
Tries(k) ==
    /\ h[k].left <= Retries
    /\ h[k].pc \notin {"idle", "failed"} => h[k].left >= 1

Selects(k) == Narrows(k) /\ Aims(k) /\ Tries(k)

MarksInv == /\ \A n \in Nodes : Marked(n)
            /\ \A k \in Handlers : Marking(k) /\ Selects(k)

-----------------------------------------------------------------------------
(* Probes and sessions.                                                    *)

\* The entry is fresh as long as a probe may run.
Probed(n) ==
    /\ Len(probes[n]) <= 1
    /\ Len(probes[n]) = 1 => now <= probes[n][1] /\ probes[n][1] <= results[n].expires_at

\* Who holds the lock, and what it knows of the cache.
Dials(k) ==
    /\ lock = k => h[k].pc \in {"session", "connect", "open"}
    /\ h[k].pc \in {"session", "lock", "connect", "open"} => setup.hop \in {"quic", "ssh"}
    /\ h[k].pc = "session" => \/ h[k].stage = "warm" /\ lock # k /\ setup.hop = "quic"
                              \/ h[k].stage = "locked" /\ lock = k
    /\ h[k].pc = "connect" => lock = k /\ cached \notin live
    /\ h[k].pc = "open" /\ setup.hop = "quic" =>
          \/ h[k].stage = "warm" /\ lock # k
          \/ h[k].stage = "locked" /\ lock = k /\ (cached \in live => cached = h[k].ses)
          \/ h[k].stage = "built" /\ lock = k /\ cached \notin live
    /\ setup.hop = "quic" => h[k].why \notin {"warm", "locked"}

\* A session that lives is the one in the cache, or is being tried out by the
\* holder of the lock.
Alive(s) ==
    \/ s = cached
    \/ /\ setup.hop = "quic"
       /\ \E k \in Handlers : lock = k /\ h[k].pc = "open" /\ h[k].stage = "built" /\ h[k].ses = s

SessionInv == /\ \A n \in Nodes : Probed(n)
              /\ \A k \in Handlers : Dials(k)
              /\ \A s \in live : Alive(s)

IInv == Typed /\ MarksInv /\ SessionInv
-----------------------------------------------------------------------------
(* The handlers.                                                           *)

\* What the settings of a behaviour are.
LEMMA SetupTyped ==
    ASSUME Typed
    PROVE  /\ Nodes \subseteq Nat \ {0} /\ setup.valid \subseteq Nodes
           /\ setup.max_fails \in Nat /\ setup.max_fails >= 1
           /\ setup.fastest \in Nat
           /\ Retries \in Nat /\ Retries >= 1
           /\ setup.hop \in {"none", "quic", "ssh"} /\ setup.strategy \in {"round", "random", "fifo"}
<1>1. setup \in Setups
  BY Zenon DEF Typed
<1>2. /\ setup.nodes \in Nat /\ setup.valid \subseteq 1 .. setup.nodes
      /\ setup.max_fails \in Nat \ {0} /\ setup.fastest \in Nat /\ setup.retries \in Nat
      /\ setup.hop \in {"none", "quic", "ssh"} /\ setup.strategy \in {"round", "random", "fifo"}
  BY <1>1, DialConstants, Zenon
<1> QED
  BY <1>2 DEF Nodes, Retries

\* Only handler k moves.
Others(k) == h' \in [Handlers -> Handler] /\ \A j \in Handlers : j # k => h'[j] = h[j]

\* What the start of a selection leaves: an empty set ends it, one target
\* skips the filters.
LEMMA NextMoves ==
    ASSUME Typed, NEW k \in Handlers, next(k)
    PROVE  /\ Others(k)
           /\ h'[k].pc \in {"failed", "strategy", "count"}
           /\ h'[k].seen = now /\ h'[k].todo = setup.valid /\ h'[k].why = ""
           /\ h'[k].left = h[k].left /\ h'[k].node = h[k].node /\ h'[k].ses = h[k].ses
           /\ h'[k].pc = "count" => h'[k].kept = {} /\ setup.valid # {}
           /\ h'[k].pc = "strategy" => h'[k].kept = setup.valid /\ h'[k].shun = {}
           /\ h'[k].shun \subseteq {n \in setup.valid : clean[n] >= setup.max_fails /\ now - last[n] < FAIL_TIMEOUT}
<1> DEFINE cand == InvalidFilter(Nodes)
           one == Cardinality(cand) = 1
           shun == {n \in cand : ~one /\ clean[n] >= setup.max_fails /\ now - last[n] < FAIL_TIMEOUT}
           pc == IF cand = {} THEN "failed" ELSE IF one THEN "strategy" ELSE "count"
           kept == IF one THEN cand ELSE {}
           r == [h[k] EXCEPT !.seen = now, !.todo = cand, !.why = "", !.kept = kept, !.pc = pc, !.shun = shun]
<1>1. h' = [h EXCEPT ![k] = r]
  BY Zenon DEF next, Typed
<1>2. cand = setup.valid /\ cand \subseteq Nat
  BY SetupTyped, Zenon DEF InvalidFilter
<1>3. shun \subseteq Nat /\ kept \subseteq Nat /\ pc \in {"failed", "strategy", "count"} /\ now \in Nat
  BY <1>2, Zenon DEF Typed
<1>4. /\ pc = "count" => kept = {} /\ cand # {}
      /\ pc = "strategy" => kept = cand /\ shun = {}
      /\ shun \subseteq {n \in cand : clean[n] >= setup.max_fails /\ now - last[n] < FAIL_TIMEOUT}
  BY Zenon
<1>5. h[k] \in Handler
  BY Zenon DEF Typed
<1> HIDE DEF cand, shun, pc, kept
<1>6. /\ r \in Handler
      /\ r.seen = now /\ r.todo = cand /\ r.why = "" /\ r.kept = kept /\ r.pc = pc /\ r.shun = shun
      /\ r.left = h[k].left /\ r.node = h[k].node /\ r.ses = h[k].ses
  BY <1>2, <1>3, <1>5, Zenon DEF Handler, Pcs, Whys
<1> HIDE DEF r
<1>7. Others(k) /\ h'[k] = r
  BY <1>1, <1>6, Zenon DEF Others, Typed
<1> QED
  BY <1>2, <1>3, <1>4, <1>6, <1>7, Zenon

\* What a selection has gathered stays as it is.
Data(k) ==
    /\ h'[k].seen = h[k].seen /\ h'[k].todo = h[k].todo /\ h'[k].kept = h[k].kept
    /\ h'[k].node = h[k].node /\ h'[k].shun = h[k].shun /\ h'[k].left = h[k].left

\* A handler that is overwritten changes and the others do not.
LEMMA Moves ==
    ASSUME Typed, NEW k \in Handlers, NEW r \in Handler, h' = [h EXCEPT ![k] = r]
    PROVE  Others(k) /\ h'[k] = r
  BY Zenon DEF Others, Typed

\* A handler that only goes on.
LEMMA PcMoves ==
    ASSUME Typed, NEW k \in Handlers, NEW p \in Pcs, h' = [h EXCEPT ![k].pc = p]
    PROVE  /\ Others(k) /\ Data(k) /\ h'[k].pc = p
           /\ h'[k].ses = h[k].ses /\ h'[k].stage = h[k].stage /\ h'[k].why = h[k].why
<1> DEFINE r == [h[k] EXCEPT !.pc = p]
<1>1. h' = [h EXCEPT ![k] = r] /\ h[k] \in Handler
  BY Zenon DEF Typed
<1>2. /\ r \in Handler /\ r.pc = p /\ r.ses = h[k].ses /\ r.stage = h[k].stage /\ r.why = h[k].why
      /\ r.seen = h[k].seen /\ r.todo = h[k].todo /\ r.kept = h[k].kept
      /\ r.node = h[k].node /\ r.shun = h[k].shun /\ r.left = h[k].left
  BY <1>1, Zenon DEF Handler
<1> HIDE DEF r
<1> QED
  BY <1>1, <1>2, Moves, Zenon DEF Data

\* A handler that goes on with a session.
LEMMA SesMoves ==
    ASSUME Typed, NEW k \in Handlers, NEW p \in Pcs, NEW s \in Nat, h' = [h EXCEPT ![k].pc = p, ![k].ses = s]
    PROVE  /\ Others(k) /\ Data(k) /\ h'[k].pc = p
           /\ h'[k].ses = s /\ h'[k].stage = h[k].stage /\ h'[k].why = h[k].why
<1> DEFINE r == [h[k] EXCEPT !.pc = p, !.ses = s]
<1>1. h' = [h EXCEPT ![k] = r] /\ h[k] \in Handler
  BY Zenon DEF Typed
<1>2. /\ r \in Handler /\ r.pc = p /\ r.ses = s /\ r.stage = h[k].stage /\ r.why = h[k].why
      /\ r.seen = h[k].seen /\ r.todo = h[k].todo /\ r.kept = h[k].kept
      /\ r.node = h[k].node /\ r.shun = h[k].shun /\ r.left = h[k].left
  BY <1>1, Zenon DEF Handler
<1> HIDE DEF r
<1> QED
  BY <1>1, <1>2, Moves, Zenon DEF Data

\* A handler that goes on to another stage of its dial.
LEMMA StageMoves ==
    ASSUME Typed, NEW k \in Handlers, NEW p \in Pcs, NEW g \in Stages, h' = [h EXCEPT ![k].pc = p, ![k].stage = g]
    PROVE  /\ Others(k) /\ Data(k) /\ h'[k].pc = p
           /\ h'[k].ses = h[k].ses /\ h'[k].stage = g /\ h'[k].why = h[k].why
<1> DEFINE r == [h[k] EXCEPT !.pc = p, !.stage = g]
<1>1. h' = [h EXCEPT ![k] = r] /\ h[k] \in Handler
  BY Zenon DEF Typed
<1>2. /\ r \in Handler /\ r.pc = p /\ r.ses = h[k].ses /\ r.stage = g /\ r.why = h[k].why
      /\ r.seen = h[k].seen /\ r.todo = h[k].todo /\ r.kept = h[k].kept
      /\ r.node = h[k].node /\ r.shun = h[k].shun /\ r.left = h[k].left
  BY <1>1, Zenon DEF Handler
<1> HIDE DEF r
<1> QED
  BY <1>1, <1>2, Moves, Zenon DEF Data

\* A handler that has built a session.
LEMMA BuiltMoves ==
    ASSUME Typed, NEW k \in Handlers, NEW s \in Nat,
           h' = [h EXCEPT ![k].pc = "open", ![k].ses = s, ![k].stage = "built"]
    PROVE  /\ Others(k) /\ Data(k) /\ h'[k].pc = "open"
           /\ h'[k].ses = s /\ h'[k].stage = "built" /\ h'[k].why = h[k].why
<1> DEFINE r == [h[k] EXCEPT !.pc = "open", !.ses = s, !.stage = "built"]
<1>1. h' = [h EXCEPT ![k] = r] /\ h[k] \in Handler
  BY Zenon DEF Typed
<1>2. /\ r \in Handler /\ r.pc = "open" /\ r.ses = s /\ r.stage = "built" /\ r.why = h[k].why
      /\ r.seen = h[k].seen /\ r.todo = h[k].todo /\ r.kept = h[k].kept
      /\ r.node = h[k].node /\ r.shun = h[k].shun /\ r.left = h[k].left
  BY <1>1, Zenon DEF Handler, Pcs, Stages
<1> HIDE DEF r
<1> QED
  BY <1>1, <1>2, Moves, Zenon DEF Data

\* A handler whose dial has failed.
LEMMA WhyMoves ==
    ASSUME Typed, NEW k \in Handlers, NEW w \in Whys, h' = [h EXCEPT ![k].pc = "mark1", ![k].why = w]
    PROVE  /\ Others(k) /\ Data(k) /\ h'[k].pc = "mark1"
           /\ h'[k].ses = h[k].ses /\ h'[k].stage = h[k].stage /\ h'[k].why = w
<1> DEFINE r == [h[k] EXCEPT !.pc = "mark1", !.why = w]
<1>1. h' = [h EXCEPT ![k] = r] /\ h[k] \in Handler
  BY Zenon DEF Typed
<1>2. /\ r \in Handler /\ r.pc = "mark1" /\ r.ses = h[k].ses /\ r.stage = h[k].stage /\ r.why = w
      /\ r.seen = h[k].seen /\ r.todo = h[k].todo /\ r.kept = h[k].kept
      /\ r.node = h[k].node /\ r.shun = h[k].shun /\ r.left = h[k].left
  BY <1>1, Zenon DEF Handler, Pcs
<1> HIDE DEF r
<1> QED
  BY <1>1, <1>2, Moves, Zenon DEF Data

\* Fails, Refused and the steps that dial: what each does to its handler.
Dialled(k, p, s, g, w) ==
    /\ Others(k) /\ Data(k)
    /\ h'[k].pc = p /\ h'[k].ses = s /\ h'[k].stage = g /\ h'[k].why = w

\* A failed dial gives the lock back.
LEMMA FailsMoves ==
    ASSUME Typed, NEW k \in Handlers, NEW w \in Whys, Fails(k, w)
    PROVE  Dialled(k, "mark1", h[k].ses, h[k].stage, w) /\ lock' = (IF lock = k THEN None ELSE lock)
  BY WhyMoves, Zenon DEF Fails, Dialled

\* live_session takes the session of the cache if it lives, and empties the
\* cache if not.
LEMMA SessionMoves ==
    ASSUME Typed, NEW k \in Handlers, live_session(k)
    PROVE  \/ /\ cached \in live /\ Dialled(k, "open", cached, h[k].stage, h[k].why)
              /\ lock' = (IF setup.hop = "ssh" THEN None ELSE lock) /\ UNCHANGED cached
           \/ /\ cached \notin live
              /\ Dialled(k, IF h[k].stage = "warm" THEN "lock" ELSE "connect", h[k].ses, h[k].stage, h[k].why)
              /\ cached' = None /\ UNCHANGED lock
<1>1. CASE cached \in live
  <2>1. cached \in Nat
    BY DEF Typed
  <2> QED
    BY <1>1, <2>1, SesMoves, Zenon DEF live_session, Dialled, Pcs
<1>2. CASE cached \notin live
  <2> DEFINE p == IF h[k].stage = "warm" THEN "lock" ELSE "connect"
  <2>1. p \in Pcs
    BY Zenon DEF Pcs
  <2>2. h' = [h EXCEPT ![k].pc = p] /\ cached' = None /\ UNCHANGED lock
    BY <1>2, Zenon DEF live_session
  <2> HIDE DEF p
  <2>3. Dialled(k, p, h[k].ses, h[k].stage, h[k].why)
    BY <2>1, <2>2, PcMoves, Zenon DEF Dialled
  <2> QED
    BY <1>2, <2>2, <2>3, Zenon DEF p
<1> QED
  BY <1>1, <1>2, Zenon

\* connect builds a session or fails; SSH puts it into the cache at once, QUIC
\* not yet.
LEMMA ConnectMoves ==
    ASSUME Typed, NEW k \in Handlers, connect(k)
    PROVE  \/ /\ built' = built + 1 /\ live' = live \cup {built + 1}
              /\ Dialled(k, "open", built + 1, "built", h[k].why)
              /\ IF setup.hop = "ssh" THEN cached' = built + 1 /\ lock' = None
                 ELSE UNCHANGED <<cached, lock>>
           \/ /\ Dialled(k, "mark1", h[k].ses, h[k].stage, "connect")
              /\ lock' = (IF lock = k THEN None ELSE lock) /\ UNCHANGED <<cached, live, built>>
<1>1. built + 1 \in Nat /\ "connect" \in Whys
  BY DEF Typed, Whys
<1>2. CASE Fails(k, "connect") /\ UNCHANGED <<cached, live, built>>
  BY <1>1, <1>2, FailsMoves, Zenon
<1>3. CASE /\ built' = built + 1 /\ live' = live \cup {built + 1}
           /\ h' = [h EXCEPT ![k].pc = "open", ![k].ses = built + 1, ![k].stage = "built"]
           /\ IF setup.hop = "ssh" THEN cached' = built + 1 /\ lock' = None
              ELSE UNCHANGED <<cached, lock>>
  <2>1. Dialled(k, "open", built + 1, "built", h[k].why)
    BY <1>1, <1>3, BuiltMoves, Zenon DEF Dialled
  <2> QED
    BY <1>3, <2>1, Zenon
<1> QED
  BY <1>2, <1>3, Zenon DEF connect

\* open_bi works on a live session, and on a dead one fails or falls back to
\* the lock.
LEMMA OpenMoves ==
    ASSUME Typed, NEW k \in Handlers, open_bi(k)
    PROVE  \/ /\ h[k].ses \in live /\ Dialled(k, "target", h[k].ses, h[k].stage, h[k].why)
              /\ cached' = (IF setup.hop = "quic" /\ h[k].stage = "built" THEN h[k].ses ELSE cached)
              /\ lock' = (IF lock = k THEN None ELSE lock)
           \/ /\ h[k].ses \notin live /\ UNCHANGED cached
              /\ setup.hop = "ssh" \/ h[k].stage = "built"
              /\ Dialled(k, "mark1", h[k].ses, h[k].stage, h[k].stage)
              /\ lock' = (IF lock = k THEN None ELSE lock)
           \/ /\ h[k].ses \notin live /\ UNCHANGED <<cached, lock>>
              /\ setup.hop # "ssh" /\ h[k].stage # "built"
              /\ Dialled(k, IF h[k].stage = "warm" THEN "lock" ELSE "connect", h[k].ses, h[k].stage, h[k].why)
<1>1. CASE h[k].ses \in live
  BY <1>1, PcMoves, Zenon DEF open_bi, Dialled, Pcs
<1>2. CASE h[k].ses \notin live /\ (setup.hop = "ssh" \/ h[k].stage = "built")
  <2>1. h[k].stage \in Whys
    BY Zenon DEF Typed, Handler, Stages, Whys
  <2>2. Fails(k, h[k].stage) /\ UNCHANGED cached
    BY <1>2, Zenon DEF open_bi, Refused
  <2> QED
    BY <1>2, <2>1, <2>2, FailsMoves, Zenon
<1>3. CASE h[k].ses \notin live /\ ~(setup.hop = "ssh" \/ h[k].stage = "built")
  <2> DEFINE p == IF h[k].stage = "warm" THEN "lock" ELSE "connect"
  <2>1. p \in Pcs
    BY Zenon DEF Pcs
  <2>2. h' = [h EXCEPT ![k].pc = p] /\ UNCHANGED <<cached, lock>>
    BY <1>3, Zenon DEF open_bi, Refused
  <2> HIDE DEF p
  <2>3. Dialled(k, p, h[k].ses, h[k].stage, h[k].why)
    BY <2>1, <2>2, PcMoves, Zenon DEF Dialled
  <2> QED
    BY <1>3, <2>2, <2>3, Zenon DEF p
<1> QED
  BY <1>1, <1>2, <1>3, Zenon

\* The target is reached or not.
LEMMA ReachMoves ==
    ASSUME Typed, NEW k \in Handlers, Reaches(k)
    PROVE  \/ Dialled(k, "reset1", h[k].ses, h[k].stage, h[k].why)
           \/ Dialled(k, "mark1", h[k].ses, h[k].stage, "target")
<1>1. "reset1" \in Pcs /\ "target" \in Whys
  BY Zenon DEF Pcs, Whys
<1>2. \/ h' = [h EXCEPT ![k].pc = "reset1"]
      \/ h' = [h EXCEPT ![k].pc = "mark1", ![k].why = "target"]
  BY Zenon DEF Reaches
<1> QED
  BY <1>1, <1>2, PcMoves, WhyMoves DEF Dialled

\* A set of natural numbers that is not empty has a least element.
LEMMA FirstIn ==
    ASSUME NEW T, T \subseteq Nat, T # {}
    PROVE  First(T) \in T
<1> DEFINE R == {p \in Nat \X Nat : p[1] < p[2]}
<1>1. IsWellFoundedOn(R, Nat)
  BY NatLessThanWellFounded, Zenon DEF OpToRel
<1>2. \A m, n \in T : <<m, n>> \in R <=> m < n
  BY SMT
<1> HIDE DEF R
<1>3. PICK n \in T : \A m \in T : ~(<<m, n>> \in R)
  BY <1>1, WFMin, Zenon
<1>4. ASSUME NEW m \in T PROVE n <= m
  <2>1. ~(m < n)
    BY <1>2, <1>3, Zenon
  <2>2. m \in Nat /\ n \in Nat
    BY Zenon
  <2> QED
    BY <2>1, <2>2
<1> QED
  BY <1>4, Zenon DEF First

\* A request starts with all its attempts.
LEMMA RequestMoves ==
    ASSUME Typed, NEW k \in Handlers, Request(k)
    PROVE  /\ Others(k) /\ h'[k].pc = "next" /\ h'[k].left = Retries /\ h'[k].node = 0
           /\ h'[k].why = ""
<1> DEFINE r == [Idle EXCEPT !.pc = "next", !.left = Retries]
<1>1. h' = [h EXCEPT ![k] = r]
  BY Zenon DEF Request
<1>2. r \in Handler /\ r.pc = "next" /\ r.left = Retries /\ r.node = 0 /\ r.why = ""
  BY SetupTyped, Zenon DEF Handler, Idle, Pcs, Stages, Whys
<1> HIDE DEF r
<1> QED
  BY <1>1, <1>2, Moves, Zenon

\* A request ends with nothing left over.
LEMMA EndsMoves ==
    ASSUME Typed, NEW k \in Handlers, Ends(k)
    PROVE  /\ Others(k) /\ h'[k].pc = "idle" /\ h'[k].left = 0 /\ h'[k].node = 0
           /\ h'[k].why = ""
<1>1. h' = [h EXCEPT ![k] = Idle]
  BY Zenon DEF Ends
<1>2. Idle \in Handler /\ Idle.pc = "idle" /\ Idle.left = 0 /\ Idle.node = 0 /\ Idle.why = ""
  BY Zenon DEF Handler, Idle, Pcs, Stages, Whys
<1> QED
  BY <1>1, <1>2, Moves, Zenon

\* The filter reads the count of the first target that is left.
LEMMA CountMoves ==
    ASSUME Typed, NEW k \in Handlers, Selects(k), FilterCount(k)
    PROVE  /\ Others(k) /\ Data(k) /\ h'[k].pc = "time" /\ h'[k].why = h[k].why
           /\ h'[k].count = fail_count[First(h[k].todo)]
           /\ First(h[k].todo) \in h[k].todo /\ First(h[k].todo) \in Nodes
<1> DEFINE n == First(h[k].todo)
           c == fail_count[n]
           r == [h[k] EXCEPT !.pc = "time", !.count = c]
<1>1. h' = [h EXCEPT ![k] = r] /\ h[k] \in Handler /\ h[k].pc = "count"
  BY Zenon DEF FilterCount, Typed
<1>2. h[k].todo # {} /\ h[k].todo \subseteq Nodes /\ h[k].todo \subseteq Nat
  BY <1>1, SetupTyped, Zenon DEF Selects, Narrows, Aims, Tries
<1>3. n \in h[k].todo
  BY <1>2, FirstIn, Zenon
<1>4. n \in Nodes /\ c \in Nat
  BY <1>2, <1>3, Zenon DEF Typed
<1> HIDE DEF n, c
<1>5. /\ r \in Handler /\ r.pc = "time" /\ r.why = h[k].why /\ r.count = c
      /\ r.seen = h[k].seen /\ r.todo = h[k].todo /\ r.kept = h[k].kept
      /\ r.node = h[k].node /\ r.shun = h[k].shun /\ r.left = h[k].left
  BY <1>1, <1>4, Zenon DEF Handler, Pcs
<1> HIDE DEF r
<1>6. Others(k) /\ h'[k] = r
  BY <1>1, <1>5, Moves, Zenon
<1> QED
  BY <1>3, <1>4, <1>5, <1>6, Zenon DEF Data, n, c

\* The filter then reads its time, and keeps the target or drops it.
LEMMA TimeMoves ==
    ASSUME Typed, NEW k \in Handlers, Selects(k), FilterTime(k)
    PROVE  \E n \in h[k].todo :
             /\ n = First(h[k].todo) /\ n \in Nodes /\ n \in setup.valid /\ Others(k)
             /\ h'[k].seen = h[k].seen /\ h'[k].node = h[k].node /\ h'[k].shun = h[k].shun
             /\ h'[k].left = h[k].left
             /\ h'[k].todo = h[k].todo \ {n}
             /\ \/ /\ Keeps(h[k].count, fail_time[n], h[k].seen)
                   /\ h'[k].kept = h[k].kept \cup {n} /\ h'[k].why = h[k].why
                   /\ h'[k].pc = IF h'[k].todo # {} THEN "count" ELSE "strategy"
                \/ /\ ~Keeps(h[k].count, fail_time[n], h[k].seen)
                   /\ h'[k].kept = h[k].kept
                   /\ h'[k].pc = IF h'[k].todo # {} THEN "count"
                                 ELSE IF h'[k].kept = {} THEN "failed" ELSE "strategy"
                   /\ h'[k].why = IF h'[k].todo = {} /\ h'[k].kept = {} THEN "none available" ELSE h[k].why
<1> DEFINE n == First(h[k].todo)
           keep == Keeps(h[k].count, fail_time[n], h[k].seen)
           kept == IF keep THEN h[k].kept \cup {n} ELSE h[k].kept
           rest == h[k].todo \ {n}
           w == IF rest = {} /\ kept = {} THEN "none available" ELSE h[k].why
           p == IF rest # {} THEN "count" ELSE IF kept = {} THEN "failed" ELSE "strategy"
           r == [h[k] EXCEPT !.kept = kept, !.todo = rest, !.why = w, !.pc = p]
<1>1. h' = [h EXCEPT ![k] = r] /\ h[k] \in Handler /\ h[k].pc = "time"
  BY Zenon DEF FilterTime, Typed
<1>2. h[k].todo # {} /\ h[k].todo \subseteq setup.valid /\ h[k].todo \subseteq Nodes /\ h[k].todo \subseteq Nat
  BY <1>1, SetupTyped, Zenon DEF Selects, Narrows, Aims, Tries
<1>3. n \in h[k].todo
  BY <1>2, FirstIn, Zenon
<1>4. h[k].kept \subseteq Nat /\ h[k].why \in Whys
  BY <1>1, Zenon DEF Handler
<1> HIDE DEF n
<1>5. n \in Nodes /\ n \in setup.valid /\ n \in Nat
  BY <1>2, <1>3, Zenon
<1>6. kept \subseteq Nat /\ rest \subseteq Nat /\ w \in Whys /\ p \in Pcs
  BY <1>2, <1>4, <1>5, Zenon DEF Whys, Pcs
<1>7. \/ keep /\ kept = h[k].kept \cup {n} /\ w = h[k].why /\ p = IF rest # {} THEN "count" ELSE "strategy"
      \/ ~keep /\ kept = h[k].kept
  BY Zenon
<1>8. /\ p = IF rest # {} THEN "count" ELSE IF kept = {} THEN "failed" ELSE "strategy"
      /\ w = IF rest = {} /\ kept = {} THEN "none available" ELSE h[k].why
  BY Zenon
<1> HIDE DEF kept, w, p, keep
<1>9. /\ r \in Handler /\ r.pc = p /\ r.why = w /\ r.kept = kept /\ r.todo = rest
      /\ r.seen = h[k].seen /\ r.node = h[k].node /\ r.shun = h[k].shun /\ r.left = h[k].left
  BY <1>1, <1>6, Zenon DEF Handler
<1> HIDE DEF r
<1>10. Others(k) /\ h'[k] = r
  BY <1>1, <1>9, Moves, Zenon
<1>11. n = First(h[k].todo) /\ keep = Keeps(h[k].count, fail_time[n], h[k].seen)
  BY Zenon DEF n, keep
<1> QED
  BY <1>3, <1>5, <1>7, <1>8, <1>9, <1>10, <1>11, Zenon

\* The strategy picks from what the fastest filter leaves.
LEMMA ApplyIn ==
    ASSUME NEW ns
    PROVE  apply(Fastest(ns)) \subseteq ns \/ setup.strategy \notin {"round", "random", "fifo"}
<1>1. Fastest(ns) \subseteq ns
  BY Zenon DEF Fastest
<1>2. ASSUME NEW T, setup.strategy \in {"round", "random", "fifo"} PROVE apply(T) \subseteq T
  BY <1>2, Zenon DEF apply
<1> QED
  BY <1>1, <1>2

\* The target picked is one the filters kept.
LEMMA StrategyMoves ==
    ASSUME Typed, NEW k \in Handlers, Selects(k), Strategy(k)
    PROVE  /\ Others(k) /\ h'[k].node \in h[k].kept /\ h'[k].node \in Nodes
           /\ h'[k].seen = h[k].seen /\ h'[k].shun = h[k].shun /\ h'[k].left = h[k].left
           /\ h'[k].why = h[k].why /\ h'[k].stage = "warm"
           /\ h'[k].pc = CASE setup.hop = "none" -> "target"
                           [] setup.hop = "quic" -> "session"
                           [] setup.hop = "ssh"  -> "lock"
<1> DEFINE p == CASE setup.hop = "none" -> "target"
                  [] setup.hop = "quic" -> "session"
                  [] setup.hop = "ssh"  -> "lock"
<1>1. PICK n \in apply(Fastest(h[k].kept)) :
          h' = [h EXCEPT ![k].node = n, ![k].stage = "warm", ![k].ses = 0, ![k].pc = p]
  BY Zenon DEF Strategy
<1> DEFINE r == [h[k] EXCEPT !.node = n, !.stage = "warm", !.ses = 0, !.pc = p]
<1>2. p \in Pcs
  BY SetupTyped, Zenon DEF Pcs
<1> HIDE DEF p
<1>3. h' = [h EXCEPT ![k] = r] /\ h[k] \in Handler
  BY <1>1, Zenon DEF Typed
<1>4. n \in h[k].kept /\ h[k].pc = "strategy"
  BY ApplyIn, SetupTyped, Zenon DEF Strategy
<1>7. n \in Nodes /\ n \in Nat
  BY <1>4, SetupTyped, Zenon DEF Selects, Narrows, Aims, Tries, Selecting
<1>5. /\ r \in Handler /\ r.pc = p /\ r.why = h[k].why /\ r.node = n /\ r.stage = "warm"
      /\ r.seen = h[k].seen /\ r.shun = h[k].shun /\ r.left = h[k].left
  BY <1>2, <1>3, <1>7, Zenon DEF Handler, Stages
<1> HIDE DEF r
<1>6. Others(k) /\ h'[k] = r
  BY <1>3, <1>5, Moves, Zenon
<1> QED
  BY <1>4, <1>5, <1>6, <1>7, Zenon DEF p

\* The first half of a mark; alone if no reset of the target is half done.
LEMMA MarkTimeMoves ==
    ASSUME Typed, NEW k \in Handlers, MarkTime(k)
    PROVE  /\ Others(k) /\ Data(k) /\ h'[k].pc = "mark2" /\ h'[k].why = h[k].why
           /\ h'[k].alone = (At("reset2", h[k].node) = {})
<1> DEFINE a == At("reset2", h[k].node) = {}
           r == [h[k] EXCEPT !.pc = "mark2", !.alone = a]
<1>1. h' = [h EXCEPT ![k] = r] /\ h[k] \in Handler
  BY Zenon DEF MarkTime, Typed
<1>2. a \in BOOLEAN
  BY Zenon
<1> HIDE DEF a
<1>3. /\ r \in Handler /\ r.pc = "mark2" /\ r.why = h[k].why /\ r.alone = a
      /\ r.seen = h[k].seen /\ r.todo = h[k].todo /\ r.kept = h[k].kept
      /\ r.node = h[k].node /\ r.shun = h[k].shun /\ r.left = h[k].left
  BY <1>1, <1>2, Zenon DEF Handler, Pcs
<1> HIDE DEF r
<1>4. Others(k) /\ h'[k] = r
  BY <1>1, <1>3, Moves, Zenon
<1> QED
  BY <1>3, <1>4, Zenon DEF Data, a

\* The second half of a mark uses up an attempt.
LEMMA MarkCountMoves ==
    ASSUME Typed, NEW k \in Handlers, Selects(k), MarkCount(k)
    PROVE  /\ Others(k) /\ h'[k].why = h[k].why /\ h'[k].seen = h[k].seen /\ h'[k].node = h[k].node
           /\ h'[k].left \in Nat /\ h'[k].left < Retries
           /\ \/ h'[k].pc = "next" /\ h'[k].left >= 1
              \/ h'[k].pc = "failed"
<1> DEFINE l == h[k].left - 1
           p == IF h[k].left > 1 THEN "next" ELSE "failed"
           r == [h[k] EXCEPT !.left = l, !.pc = p]
<1>1. h' = [h EXCEPT ![k] = r] /\ h[k] \in Handler /\ h[k].pc = "mark2"
  BY Zenon DEF MarkCount, Typed
<1>2. h[k].left \in Nat /\ h[k].left >= 1 /\ h[k].left <= Retries /\ Retries \in Nat
  BY <1>1, SetupTyped, Zenon DEF Handler, Selects, Narrows, Aims, Tries
<1>3. l \in Nat /\ p \in Pcs /\ l < Retries /\ ((p = "next" /\ l >= 1) \/ p = "failed")
  BY <1>2 DEF Pcs
<1> HIDE DEF l, p
<1>4. /\ r \in Handler /\ r.pc = p /\ r.why = h[k].why /\ r.left = l
      /\ r.seen = h[k].seen /\ r.node = h[k].node
  BY <1>1, <1>3, Zenon DEF Handler
<1> HIDE DEF r
<1>5. Others(k) /\ h'[k] = r
  BY <1>1, <1>4, Moves, Zenon
<1> QED
  BY <1>3, <1>4, <1>5, Zenon

\* A success clears its target for everybody who is selecting or marking.
LEMMA ResetTimeMoves ==
    ASSUME Typed, NEW k \in Handlers, ResetTime(k), NEW j \in Handlers
    PROVE  /\ h'[j] \in Handler
           /\ h'[j].pc = (IF j = k THEN "reset2" ELSE h[j].pc)
           /\ h'[j].alone => h[j].alone /\ j \notin At("mark2", h[k].node)
           /\ h'[j].shun = h[j].shun \ {h[k].node}
           /\ h'[j].seen = h[j].seen /\ h'[j].todo = h[j].todo /\ h'[j].kept = h[j].kept
           /\ h'[j].node = h[j].node /\ h'[j].left = h[j].left /\ h'[j].count = h[j].count
           /\ h'[j].ses = h[j].ses /\ h'[j].stage = h[j].stage /\ h'[j].why = h[j].why
<1> DEFINE n == h[k].node
           p == IF j = k THEN "reset2" ELSE h[j].pc
           a == IF j \in At("mark2", n) THEN FALSE ELSE h[j].alone
           s == h[j].shun \ {n}
           r == [h[j] EXCEPT !.pc = p, !.alone = a, !.shun = s]
<1>1. h'[j] = r /\ h[j] \in Handler
  BY Zenon DEF ResetTime, Typed
<1>2. h[j].pc \in Pcs /\ h[j].alone \in BOOLEAN /\ h[j].shun \in SUBSET Nat
  BY <1>1, Zenon DEF Handler
<1>3. p \in Pcs /\ a \in BOOLEAN /\ s \in SUBSET Nat
  BY <1>2, Zenon DEF Pcs
<1>4. a => h[j].alone /\ j \notin At("mark2", n)
  BY <1>2, Zenon
<1> HIDE DEF p, a, s
<1>5. /\ r \in Handler /\ r.pc = p /\ r.alone = a /\ r.shun = s
      /\ r.seen = h[j].seen /\ r.todo = h[j].todo /\ r.kept = h[j].kept
      /\ r.node = h[j].node /\ r.left = h[j].left /\ r.count = h[j].count
      /\ r.ses = h[j].ses /\ r.stage = h[j].stage /\ r.why = h[j].why
  BY <1>1, <1>3, Zenon DEF Handler
<1> HIDE DEF r
<1> QED
  BY <1>1, <1>4, <1>5, Zenon DEF p, s

\* The first half of a reset keeps the shape of the handlers.
LEMMA ResetTimeTyped ==
    ASSUME Typed, NEW k \in Handlers, ResetTime(k)
    PROVE  h' \in [Handlers -> Handler]
<1>1. \A j \in Handlers : h'[j] \in Handler
  BY ResetTimeMoves, Zenon
<1>2. \E f : h' = [j \in Handlers |-> f[j]]
  <2> DEFINE f == [j \in Handlers |->
                   [h[j] EXCEPT !.pc = IF j = k THEN "reset2" ELSE @,
                                !.alone = IF j \in At("mark2", h[k].node) THEN FALSE ELSE @,
                                !.shun = @ \ {h[k].node}]]
  <2>1. h' = f
    BY Zenon DEF ResetTime
  <2>2. f = [j \in Handlers |-> f[j]]
    BY Zenon
  <2> QED
    BY <2>1, <2>2, Zenon
<1> QED
  BY <1>1, <1>2, Zenon

\* The second half of a reset ends the dial.
LEMMA ResetCountMoves ==
    ASSUME Typed, NEW k \in Handlers, ResetCount(k)
    PROVE  Others(k) /\ Data(k) /\ h'[k].pc = "relay" /\ h'[k].why = h[k].why
  BY PcMoves, Zenon DEF ResetCount, Pcs

-----------------------------------------------------------------------------
(* Types.                                                                  *)

\* The start leads to a state of the right shape.
LEMMA TypedInit ==
    ASSUME Init PROVE Typed
<1>1. Idle \in Handler
  BY Zenon DEF Idle, Handler, Pcs, Stages, Whys
<1>2. setup \in Setups /\ Nodes \subseteq Nat
  BY DEF Init, Nodes
<1>3. FAIL_TIMEOUT \in Nat /\ up \subseteq Nodes
  BY DialConstants, Zenon DEF Init, Nodes
<1>4. Unmeasured \in [latency : Nat, expires_at : Int] /\ <<>> \in Seq(Nat)
  BY DEF Unmeasured
<1>5. results \in [Nodes -> [latency : Nat, expires_at : Int]] /\ probes \in [Nodes -> Seq(Nat)]
  BY <1>4, Zenon DEF Init
<1> QED
  BY <1>1, <1>2, <1>3, <1>5 DEF Init, Typed, None

\* Starting probes keeps the shape of the latency entries.
LEMMA ProbesTyped ==
    ASSUME Typed, NEW ns, latency_of(ns)
    PROVE  /\ results' \in [Nodes -> [latency : Nat, expires_at : Int]]
           /\ probes' \in [Nodes -> Seq(Nat)]
<1>1. now \in Nat /\ now + hold \in Int /\ now + PING_TIMEOUT \in Nat
  BY DialConstants DEF Typed, hold
<1>2. ASSUME NEW n \in Nodes
      PROVE  /\ [latency |-> latency(n), expires_at |-> now + hold] \in [latency : Nat, expires_at : Int]
             /\ Append(probes[n], now + PING_TIMEOUT) \in Seq(Nat)
             /\ probes[n] \in Seq(Nat)
             /\ results[n] \in [latency : Nat, expires_at : Int]
  <2>1. probes[n] \in Seq(Nat) /\ results[n] \in [latency : Nat, expires_at : Int]
    BY Zenon DEF Typed
  <2> QED
    BY <1>1, <2>1 DEF latency
<1> QED
  BY <1>2, Zenon DEF latency_of

\* The end of a probe keeps it too.
LEMMA EndsTyped ==
    ASSUME Typed, NEW n \in Nodes, ProbeEnds(n)
    PROVE  /\ results' \in [Nodes -> [latency : Nat, expires_at : Int]]
           /\ probes' \in [Nodes -> Seq(Nat)]
<1>1. now \in Nat /\ now + PING_TTL \in Int /\ PING_TIMEOUT \in Nat
  BY DialConstants DEF Typed
<1>2. PICK l \in Nat : results' = [results EXCEPT ![n] = [latency |-> l, expires_at |-> now + PING_TTL]]
  BY <1>1 DEF ProbeEnds
<1>3. probes[n] \in Seq(Nat) /\ probes[n] # <<>>
  BY Zenon DEF ProbeEnds, Typed
<1>4. Tail(probes[n]) \in Seq(Nat)
  BY <1>3
<1>5. probes' = [probes EXCEPT ![n] = Tail(probes[n])]
  BY Zenon DEF ProbeEnds
<1> QED
  BY <1>1, <1>2, <1>4, <1>5, Zenon DEF Typed

Marks == <<fail_time, fail_count, clean, last>>
Probes == <<results, probes>>
Fixed == <<setup, now, up>>

\* The shape holds after a step of the sessions.
LEMMA TypedPool ==
    ASSUME Typed, UNCHANGED Fixed, UNCHANGED Marks, UNCHANGED Probes, h' \in [Handlers -> Handler],
           built' \in Nat, live' \subseteq 1 .. built', cached' \in 0 .. built', lock' \in Handlers \cup {None}
    PROVE  Typed'
<1>1. Nodes' = Nodes
  BY Zenon DEF Nodes, Fixed
<1> QED
  BY <1>1, Zenon DEF Typed, Fixed, Marks, Probes, None

\* The shape holds after a step of a handler alone.
LEMMA TypedRest ==
    ASSUME Typed, UNCHANGED Fixed, UNCHANGED Marks, UNCHANGED Probes, UNCHANGED pool,
           h' \in [Handlers -> Handler]
    PROVE  Typed'
  BY TypedPool, Zenon DEF Typed, pool

\* The shape holds after a step of the marks.
LEMMA TypedMarks ==
    ASSUME Typed, UNCHANGED Fixed, UNCHANGED Probes, UNCHANGED pool, h' \in [Handlers -> Handler],
           fail_time' \in [Nodes -> Nat], fail_count' \in [Nodes -> Nat],
           clean' \in [Nodes -> Nat], last' \in [Nodes -> Int]
    PROVE  Typed'
<1>1. Nodes' = Nodes
  BY Zenon DEF Nodes, Fixed
<1> QED
  BY <1>1, Zenon DEF Typed, Fixed, pool, Probes, None

\* Every step of a handler keeps the shape.
LEMMA TypedHandles ==
    ASSUME Typed, NEW k \in Handlers, Selects(k), Request(k) \/ Handles(k)
    PROVE  Typed'
<1>1. CASE Request(k)
  BY <1>1, RequestMoves, TypedRest, Zenon DEF Others, Request, Fixed, Marks, Probes, marker, history
<1>2. CASE next(k)
  BY <1>2, NextMoves, TypedRest, Zenon DEF Others, next, Fixed, Marks, Probes, marker, history
<1>3. CASE FilterCount(k)
  BY <1>3, CountMoves, TypedRest, Zenon DEF Others, FilterCount, Fixed, Marks, Probes, marker, history
<1>4. CASE FilterTime(k)
  BY <1>4, TimeMoves, TypedRest, Zenon DEF Others, FilterTime, Fixed, Marks, Probes, marker, history
<1>5. CASE Strategy(k)
  <2>1. Others(k)
    BY <1>5, StrategyMoves, Zenon
  <2>2. UNCHANGED Fixed /\ UNCHANGED Marks /\ UNCHANGED pool /\ latency_of(h[k].kept)
    BY <1>5, Zenon DEF Strategy, Fixed, Marks, marker, history
  <2>3. /\ results' \in [Nodes -> [latency : Nat, expires_at : Int]]
        /\ probes' \in [Nodes -> Seq(Nat)]
    BY <2>2, ProbesTyped, Zenon
  <2>4. Nodes' = Nodes
    BY <2>2, Zenon DEF Nodes, Fixed
  <2> QED
    BY <2>1, <2>2, <2>3, <2>4, Zenon DEF Typed, Others, Fixed, Marks, pool, None
<1>6. CASE live_session(k)
  <2>1. Others(k) /\ UNCHANGED Fixed /\ UNCHANGED Marks /\ UNCHANGED Probes /\ UNCHANGED <<live, built>>
    BY <1>6, SessionMoves, Zenon DEF Dialled, live_session, Outside, Fixed, Marks, Probes, marker, history
  <2>2. cached' \in {cached, None} /\ lock' \in {lock, None}
    BY <1>6, SessionMoves, Zenon
  <2>3. cached' \in 0 .. built /\ lock' \in Handlers \cup {None}
    BY <2>2 DEF Typed, None
  <2>4. built \in Nat /\ live \subseteq 1 .. built
    BY Zenon DEF Typed
  <2> QED
    BY <2>1, <2>3, <2>4, TypedPool, Zenon DEF Others
<1>7. CASE Locks(k)
  <2>1. Others(k)
    BY <1>7, StageMoves, Zenon DEF Locks, Pcs, Stages
  <2>2. UNCHANGED Fixed /\ UNCHANGED Marks /\ UNCHANGED Probes /\ UNCHANGED <<cached, live, built>> /\ lock' = k
    BY <1>7, Zenon DEF Locks, Outside, Fixed, Marks, Probes, marker, history
  <2>3. /\ cached' \in 0 .. built' /\ lock' \in Handlers \cup {None}
        /\ built' \in Nat /\ live' \subseteq 1 .. built'
    BY <2>2, Zenon DEF Typed
  <2> QED
    BY <2>1, <2>2, <2>3, TypedPool, Zenon DEF Others
<1>8. CASE connect(k)
  <2>1. Others(k)
    BY <1>8, ConnectMoves, Zenon DEF Dialled
  <2>2. UNCHANGED Fixed /\ UNCHANGED Marks /\ UNCHANGED Probes
    BY <1>8, Zenon DEF connect, Outside, Fixed, Marks, Probes, marker, history
  <2>6. lock' \in {lock, None}
    BY <1>8, ConnectMoves, Zenon
  <2>3. lock' \in Handlers \cup {None}
    BY <2>6, Zenon DEF Typed
  <2>4. built \in Nat /\ live \subseteq 1 .. built /\ cached \in 0 .. built
    BY Zenon DEF Typed
  <2>5. built' \in Nat /\ live' \subseteq 1 .. built' /\ cached' \in 0 .. built'
    <3>1. CASE UNCHANGED <<cached, live, built>>
      BY <2>4, <3>1, Zenon
    <3>2. CASE built' = built + 1 /\ live' = live \cup {built + 1} /\ cached' \in {cached, built + 1}
      BY <2>4, <3>2
    <3> QED
      BY <1>8, <3>1, <3>2, ConnectMoves, Zenon
  <2> QED
    BY <2>1, <2>2, <2>3, <2>5, TypedPool, Zenon DEF Others
<1>9. CASE open_bi(k)
  <2>1. Others(k) /\ lock' \in {lock, None} /\ (cached' = cached \/ cached' \in live)
    BY <1>9, OpenMoves, Zenon DEF Dialled
  <2>2. UNCHANGED Fixed /\ UNCHANGED Marks /\ UNCHANGED Probes /\ UNCHANGED <<live, built>>
    BY <1>9, Zenon DEF open_bi, Outside, Fixed, Marks, Probes, marker, history
  <2>4. /\ cached \in 0 .. built /\ lock \in Handlers \cup {None}
        /\ built \in Nat /\ live \subseteq 1 .. built
    BY Zenon DEF Typed
  <2>5. cached' \in 0 .. built
    <3>1. \A x \in live : x \in 0 .. built
      BY <2>4
    <3> QED
      BY <2>1, <2>4, <3>1, Zenon
  <2>3. /\ cached' \in 0 .. built' /\ lock' \in Handlers \cup {None}
        /\ built' \in Nat /\ live' \subseteq 1 .. built'
    BY <2>1, <2>2, <2>4, <2>5, Zenon
  <2> QED
    BY <2>1, <2>2, <2>3, TypedPool, Zenon DEF Others
<1>10. CASE Reaches(k)
  BY <1>10, ReachMoves, TypedRest, Zenon DEF Others, Dialled, Reaches, Outside, Fixed, Marks, Probes, marker, history
<1>11. CASE MarkTime(k)
  <2>1. Others(k)
    BY <1>11, MarkTimeMoves, Zenon
  <2>4. now \in Nat /\ now \in Int /\ fail_time \in [Nodes -> Nat] /\ last \in [Nodes -> Int]
    BY DEF Typed
  <2>5. /\ fail_time' = [fail_time EXCEPT ![h[k].node] = now]
        /\ last' = [last EXCEPT ![h[k].node] = now]
    BY <1>11, Zenon DEF MarkTime
  <2>6. fail_time' \in [Nodes -> Nat]
    BY <2>4, <2>5, Zenon
  <2>2. last' \in [Nodes -> Int]
    BY <2>4, <2>5, Zenon
  <2>3. fail_count' \in [Nodes -> Nat] /\ clean' \in [Nodes -> Nat]
    BY <1>11, Zenon DEF MarkTime, Typed
  <2> QED
    BY <1>11, <2>1, <2>2, <2>3, <2>6, TypedMarks, Zenon DEF Others, MarkTime, Rest, Fixed, Probes
<1>12. CASE MarkCount(k)
  <2>1. Others(k)
    BY <1>12, MarkCountMoves, Zenon
  <2>4. fail_count \in [Nodes -> Nat] /\ clean \in [Nodes -> Nat]
    BY Zenon DEF Typed
  <2>5. /\ fail_count' = [fail_count EXCEPT ![h[k].node] = @ + 1]
        /\ clean' \in {clean, [clean EXCEPT ![h[k].node] = @ + 1]}
    <3>1. CASE h[k].alone
      BY <1>12, <3>1, Zenon DEF MarkCount
    <3>2. CASE ~h[k].alone
      BY <1>12, <2>4, <3>2, Zenon DEF MarkCount
    <3> QED
      BY <3>1, <3>2, Zenon
  <2>6. h[k].node \in Nodes
    BY <1>12, Zenon DEF Selects, Narrows, Aims, Tries, Chosen, MarkCount
  <2>2. fail_count' \in [Nodes -> Nat] /\ clean' \in [Nodes -> Nat]
    BY <2>4, <2>5, <2>6
  <2>3. fail_time' \in [Nodes -> Nat] /\ last' \in [Nodes -> Int]
    BY <1>12, Zenon DEF MarkCount, Typed
  <2> QED
    BY <1>12, <2>1, <2>2, <2>3, TypedMarks, Zenon DEF Others, MarkCount, Rest, Fixed, Probes
<1>13. CASE ResetTime(k)
  <2>1. h' \in [Handlers -> Handler]
    BY <1>13, ResetTimeTyped, Zenon
  <2>2. fail_time' \in [Nodes -> Nat] /\ clean' \in [Nodes -> Nat]
    BY <1>13, Zenon DEF ResetTime, Typed
  <2>3. fail_count' \in [Nodes -> Nat] /\ last' \in [Nodes -> Int]
    BY <1>13, Zenon DEF ResetTime, Typed
  <2> QED
    BY <1>13, <2>1, <2>2, <2>3, TypedMarks, Zenon DEF ResetTime, Rest, Fixed, Probes
<1>14. CASE ResetCount(k)
  <2>1. Others(k)
    BY <1>14, ResetCountMoves, Zenon
  <2>2. fail_count' \in [Nodes -> Nat]
    BY <1>14, Zenon DEF ResetCount, Typed
  <2>3. fail_time' \in [Nodes -> Nat] /\ clean' \in [Nodes -> Nat] /\ last' \in [Nodes -> Int]
    BY <1>14, Zenon DEF ResetCount, Typed, history
  <2> QED
    BY <1>14, <2>1, <2>2, <2>3, TypedMarks, Zenon DEF Others, ResetCount, Rest, Fixed, Probes
<1>15. CASE Ends(k)
  BY <1>15, EndsMoves, TypedRest, Zenon DEF Others, Ends, Rest, Fixed, Marks, Probes, marker, history
<1> QED
  BY <1>1, <1>2, <1>3, <1>4, <1>5, <1>6, <1>7, <1>8, <1>9, <1>10, <1>11, <1>12, <1>13, <1>14, <1>15, Zenon
     DEF Handles

\* So do time, faults and probes.
LEMMA TypedWorld ==
    ASSUME Typed, Tick \/ Fault \/ (\E n \in Nodes : ProbeEnds(n)) \/ UNCHANGED vars
    PROVE  Typed'
<1>1. Nodes' = Nodes
  BY Zenon DEF Nodes, Tick, Fault, ProbeEnds, vars
<1>2. CASE Tick
  <2>1. now' \in Nat /\ FAIL_TIMEOUT <= now'
    BY <1>2, DialConstants DEF Tick, Typed
  <2> QED
    BY <1>1, <1>2, <2>1, Zenon DEF Tick, Typed, marker, pool, history, None
<1>3. CASE Fault
  <2>1. up' \subseteq Nodes /\ live' \subseteq live
    BY <1>3, Zenon DEF Fault, Typed
  <2> QED
    BY <1>1, <1>3, <2>1, Zenon DEF Fault, Typed, marker, history, None
<1>4. ASSUME NEW n \in Nodes, ProbeEnds(n) PROVE Typed'
  <2>1. /\ results' \in [Nodes -> [latency : Nat, expires_at : Int]]
        /\ probes' \in [Nodes -> Seq(Nat)]
    BY <1>4, EndsTyped, Zenon
  <2> QED
    BY <1>1, <1>4, <2>1, Zenon DEF ProbeEnds, Typed, marker, pool, history, None
<1>5. CASE UNCHANGED vars
  BY <1>1, <1>5, Zenon DEF vars, Typed, marker, pool, history, None
<1> QED
  BY <1>2, <1>3, <1>4, <1>5, Zenon

-----------------------------------------------------------------------------
(* The marks mean what they say.                                           *)

\* What a selection knows stays true while the target's history grows.
LEMMA SelectsStay ==
    ASSUME Typed, NEW j \in Handlers, Selects(j), h'[j] = h[j], UNCHANGED setup, now <= now', now' \in Nat,
           \A n \in Nodes : last'[n] \in Int /\ last[n] <= last'[n]
                            /\ clean'[n] \in Nat /\ clean[n] <= clean'[n]
    PROVE  Selects(j)'
<1>1. Nodes' = Nodes /\ Retries' = Retries
  BY Zenon DEF Nodes, Retries
<1>2. h[j].seen \in Nat
  BY Zenon DEF Typed, Handler
<1>3. FAIL_TIMEOUT \in Nat /\ setup.max_fails \in Nat /\ setup.valid \subseteq Nodes
  BY SetupTyped, DialConstants, Zenon
<1>4. \A n \in Nodes : last[n] \in Int /\ clean[n] \in Nat
  BY Zenon DEF Typed
<1>5. \A n \in Nodes : /\ h[j].seen - last[n] < FAIL_TIMEOUT => h[j].seen - last'[n] < FAIL_TIMEOUT
                       /\ clean[n] >= setup.max_fails => clean'[n] >= setup.max_fails
  BY <1>2, <1>3, <1>4
<1>6. now \in Nat
  BY Zenon DEF Typed
<1>7. h[j].seen <= now => h[j].seen <= now'
  BY <1>2, <1>6
<1> QED
  BY <1>1, <1>3, <1>5, <1>7, Zenon DEF Selects, Narrows, Aims, Tries

\* A step of a handler that leaves the marks alone keeps what they mean.
LEMMA MarksKept ==
    ASSUME Typed, MarksInv, NEW k \in Handlers, Others(k), UNCHANGED <<setup, now>>, UNCHANGED Marks,
           h'[k].pc \notin {"mark2", "reset2"}, Selects(k)'
    PROVE  MarksInv'
<1>1. Nodes' = Nodes
  BY Zenon DEF Nodes
<1>2. ASSUME NEW n \in Nodes PROVE Marked(n)'
  BY <1>2, Zenon DEF MarksInv, Marked, Marks
<1>3. ASSUME NEW j \in Handlers PROVE Marking(j)'
  <2>1. CASE j = k
    BY <2>1, Zenon DEF Marking
  <2>2. CASE j # k
    <3>1. Marking(j)
      BY Zenon DEF MarksInv
    <3>2. \A i \in Handlers : h'[i].pc = "reset2" => h'[i] = h[i]
      BY Zenon DEF Others
    <3>3. h'[j] = h[j]
      BY <2>2, Zenon DEF Others
    <3> QED
      BY <3>1, <3>2, <3>3, Zenon DEF Marking, Marks
  <2> QED
    BY <2>1, <2>2, Zenon
<1>4. ASSUME NEW j \in Handlers, j # k PROVE Selects(j)'
  <2>1. Selects(j) /\ h'[j] = h[j]
    BY <1>4, Zenon DEF MarksInv, Others
  <2>2. now \in Nat
    BY Zenon DEF Typed
  <2>3. \A n \in Nodes : last[n] \in Int /\ clean[n] \in Nat
    BY Zenon DEF Typed
  <2> QED
    BY <2>1, <2>2, <2>3, SelectsStay DEF Marks
<1> QED
  BY <1>1, <1>2, <1>3, <1>4, Zenon DEF MarksInv

\* Once a target is chosen, the dial goes on with what was selected.
LEMMA DialSelects ==
    ASSUME Typed, NEW k \in Handlers, Selects(k), Data(k), UNCHANGED <<setup, now>>, UNCHANGED Marks,
           h[k].pc \in Picked, h'[k].pc \in Chosen,
           h'[k].why = h[k].why \/ h'[k].why # "none available"
    PROVE  Selects(k)'
<1>1. Nodes' = Nodes /\ Retries' = Retries
  BY Zenon DEF Nodes, Retries
<1>2. h[k].node \in Nodes /\ h[k].node \notin h[k].shun /\ h[k].left >= 1 /\ h[k].left <= Retries
  BY Zenon DEF Selects, Narrows, Aims, Tries, Chosen, Picked
<1>3. h[k].why = "none available" => \A n \in setup.valid : h[k].seen - last[n] < FAIL_TIMEOUT
  BY Zenon DEF Selects, Narrows, Aims, Tries
<1> QED
  BY <1>1, <1>2, <1>3, Zenon DEF Selects, Narrows, Aims, Tries, Data, Marks, Chosen, Picked, Selecting

\* Dialling leaves the marks and the selection alone.
LEMMA SessionSelects ==
    ASSUME Typed, MarksInv, NEW k \in Handlers,
           live_session(k) \/ Locks(k) \/ connect(k) \/ open_bi(k) \/ Reaches(k)
    PROVE  MarksInv'
<1>1. Selects(k)
  BY Zenon DEF MarksInv
<1>2. UNCHANGED <<setup, now>> /\ UNCHANGED Marks /\ h[k].pc \in Picked
  BY Zenon DEF live_session, Locks, connect, open_bi, Reaches, Outside, Marks, marker, history, Picked
<1>3. /\ Others(k) /\ Data(k) /\ h'[k].pc \in Picked \cup {"mark1", "reset1"}
      /\ h'[k].why = h[k].why \/ h'[k].why # "none available"
  <2>1. CASE live_session(k)
    BY <2>1, SessionMoves, Zenon DEF Dialled, Picked
  <2>2. CASE Locks(k)
    BY <2>2, StageMoves, Zenon DEF Locks, Picked, Pcs, Stages
  <2>3. CASE connect(k)
    BY <2>3, ConnectMoves, Zenon DEF Dialled, Picked
  <2>4. CASE open_bi(k)
    <3>1. h[k].stage # "none available"
      BY Zenon DEF Typed, Handler, Stages
    <3> QED
      BY <2>4, <3>1, OpenMoves, Zenon DEF Dialled, Picked
  <2>5. CASE Reaches(k)
    BY <2>5, ReachMoves, Zenon DEF Dialled, Picked
  <2> QED
    BY <2>1, <2>2, <2>3, <2>4, <2>5, Zenon
<1>4. Selects(k)'
  BY <1>1, <1>2, <1>3, DialSelects, Zenon DEF Chosen
<1>5. h'[k].pc \notin {"mark2", "reset2"}
  BY <1>3, Zenon DEF Picked
<1> QED
  BY <1>2, <1>3, <1>4, <1>5, MarksKept, Zenon

\* A count that is read is not behind the failures of a dead target.
LEMMA CountSelects ==
    ASSUME Typed, MarksInv, NEW k \in Handlers, FilterCount(k)
    PROVE  MarksInv'
<1>1. Selects(k) /\ \A n \in Nodes : Marked(n)
  BY Zenon DEF MarksInv
<1>2. UNCHANGED <<setup, now>> /\ UNCHANGED Marks /\ h[k].pc = "count"
  BY Zenon DEF FilterCount, Marks, marker, history
<1> DEFINE n == First(h[k].todo)
<1>3. /\ Others(k) /\ Data(k) /\ h'[k].pc = "time" /\ h'[k].why = h[k].why
      /\ h'[k].count = fail_count[n] /\ n \in Nodes
  BY <1>1, CountMoves, Zenon
<1>4. n \in h[k].shun => fail_count[n] >= setup.max_fails
  <2>1. n \in h[k].shun => clean[n] >= setup.max_fails
    BY <1>1, <1>2, Zenon DEF Selects, Narrows, Aims, Tries, Selecting
  <2>2. clean[n] <= fail_count[n]
    BY <1>1, <1>3, Zenon DEF Marked
  <2>3. clean[n] \in Nat /\ fail_count[n] \in Nat /\ setup.max_fails \in Nat
    BY <1>3, SetupTyped, Zenon DEF Typed
  <2> QED
    BY <2>1, <2>2, <2>3
<1> HIDE DEF n
<1>5. Nodes' = Nodes /\ Retries' = Retries
  BY <1>2, Zenon DEF Nodes, Retries
<1>6. h'[k].todo = h[k].todo /\ First(h'[k].todo) = n
  BY <1>3, Zenon DEF Data, n
<1>7. Selects(k)'
  BY <1>1, <1>2, <1>3, <1>4, <1>5, <1>6, Zenon DEF Selects, Narrows, Aims, Tries, Data, Marks, Chosen, Picked, Selecting
<1> QED
  BY <1>2, <1>3, <1>7, MarksKept, Zenon

\* A selection starts out knowing the targets that are dead.
LEMMA NextSelects ==
    ASSUME Typed, MarksInv, NEW k \in Handlers, next(k)
    PROVE  MarksInv'
<1>1. setup.valid \subseteq Nodes /\ now \in Nat /\ FAIL_TIMEOUT <= now
  BY SetupTyped, Zenon DEF Typed
<1>2. UNCHANGED <<setup, now>> /\ UNCHANGED Marks /\ h[k].pc = "next"
  BY Zenon DEF next, Marks, marker, history
<1>3. Nodes' = Nodes /\ Retries' = Retries
  BY <1>2, Zenon DEF Nodes, Retries
<1>4. h[k].node \in Nodes \cup {0} /\ h[k].left >= 1 /\ h[k].left <= Retries
  BY <1>2, Zenon DEF Selects, Narrows, Aims, Tries, MarksInv
<1>5. h'[k].pc \notin {"mark2", "reset2"} /\ Others(k)
  BY NextMoves, Zenon
<1>6. /\ h'[k].pc \in {"failed", "strategy", "count"}
      /\ h'[k].seen = now /\ h'[k].todo = setup.valid /\ h'[k].why = ""
      /\ h'[k].left = h[k].left /\ h'[k].node = h[k].node
      /\ h'[k].pc = "count" => h'[k].kept = {} /\ setup.valid # {}
      /\ h'[k].pc = "strategy" => h'[k].kept = setup.valid /\ h'[k].shun = {}
      /\ h'[k].shun \subseteq {n \in setup.valid : clean[n] >= setup.max_fails /\ now - last[n] < FAIL_TIMEOUT}
  BY NextMoves, Zenon
<1>7. h'[k].pc \in Selecting =>
          /\ h'[k].kept \subseteq setup.valid
          /\ \A n \in h'[k].shun : /\ n \in Nodes /\ n \notin h'[k].kept
                                   /\ clean[n] >= setup.max_fails /\ h'[k].seen - last[n] < FAIL_TIMEOUT
  BY <1>1, <1>6, Zenon DEF Selecting
<1>10. now <= now
  BY <1>1
<1>8. Narrows(k)'
  <2>1. CASE h'[k].pc = "failed"
    BY <2>1, Zenon DEF Narrows, Selecting
  <2>2. CASE h'[k].pc = "strategy"
    BY <1>1, <1>2, <1>3, <1>6, <1>7, <1>10, <2>2, Zenon DEF Narrows, Marks, Selecting
  <2>3. CASE h'[k].pc = "count"
    BY <1>1, <1>2, <1>3, <1>6, <1>7, <1>10, <2>3, Zenon DEF Narrows, Marks, Selecting
  <2> QED
    BY <1>6, <2>1, <2>2, <2>3, Zenon
<1>9. Aims(k)' /\ Tries(k)'
  BY <1>2, <1>3, <1>4, <1>6, Zenon DEF Aims, Tries, Chosen, Picked
<1> QED
  BY <1>2, <1>5, <1>8, <1>9, MarksKept, Zenon DEF Selects

\* A target that was dead when the selection began is dropped by the filter,
\* and one that is dropped has failed recently.
LEMMA FilterDrops ==
    ASSUME Typed, MarksInv, NEW k \in Handlers, h[k].pc = "time", NEW n \in Nodes, n = First(h[k].todo)
    PROVE  IF Keeps(h[k].count, fail_time[n], h[k].seen) THEN n \notin h[k].shun
           ELSE h[k].seen - last[n] < FAIL_TIMEOUT
<1>1. Selects(k) /\ Marked(n)
  BY Zenon DEF MarksInv
<1>2. /\ h[k].seen \in Nat /\ h[k].count \in Nat /\ fail_time[n] \in Nat /\ last[n] \in Int /\ clean[n] \in Nat
      /\ FAIL_TIMEOUT \in Nat /\ setup.max_fails \in Nat /\ setup.max_fails >= 1
  BY SetupTyped, DialConstants, Zenon DEF Typed, Handler
<1>3. FAIL_TIMEOUT <= h[k].seen
  BY <1>1, Zenon DEF Selects, Narrows, Aims, Tries, Selecting
<1>4. n \in h[k].shun => /\ clean[n] >= setup.max_fails /\ h[k].seen - last[n] < FAIL_TIMEOUT
                         /\ h[k].count >= setup.max_fails
  BY <1>1, Zenon DEF Selects, Narrows, Aims, Tries, Selecting
<1>5. fail_time[n] \in {0, last[n]} /\ (clean[n] > 0 => fail_time[n] = last[n])
  BY <1>1, Zenon DEF Marked
<1>6. CASE Keeps(h[k].count, fail_time[n], h[k].seen)
  BY <1>2, <1>4, <1>5, <1>6 DEF Keeps
<1>7. CASE ~Keeps(h[k].count, fail_time[n], h[k].seen)
  BY <1>2, <1>3, <1>5, <1>7 DEF Keeps
<1> QED
  BY <1>6, <1>7, Zenon

\* A dead target is dropped, and one that is dropped has failed recently.
LEMMA TimeSelects ==
    ASSUME Typed, MarksInv, NEW k \in Handlers, FilterTime(k)
    PROVE  MarksInv'
<1>1. Selects(k)
  BY Zenon DEF MarksInv
<1>2. UNCHANGED <<setup, now>> /\ UNCHANGED Marks /\ h[k].pc = "time"
  BY Zenon DEF FilterTime, Marks, marker, history
<1>3. Nodes' = Nodes /\ Retries' = Retries
  BY <1>2, Zenon DEF Nodes, Retries
<1>4. PICK n \in h[k].todo :
             /\ n = First(h[k].todo) /\ n \in Nodes /\ n \in setup.valid /\ Others(k)
             /\ h'[k].seen = h[k].seen /\ h'[k].node = h[k].node /\ h'[k].shun = h[k].shun
             /\ h'[k].left = h[k].left
             /\ h'[k].todo = h[k].todo \ {n}
             /\ \/ /\ Keeps(h[k].count, fail_time[n], h[k].seen)
                   /\ h'[k].kept = h[k].kept \cup {n} /\ h'[k].why = h[k].why
                   /\ h'[k].pc = IF h'[k].todo # {} THEN "count" ELSE "strategy"
                \/ /\ ~Keeps(h[k].count, fail_time[n], h[k].seen)
                   /\ h'[k].kept = h[k].kept
                   /\ h'[k].pc = IF h'[k].todo # {} THEN "count"
                                 ELSE IF h'[k].kept = {} THEN "failed" ELSE "strategy"
                   /\ h'[k].why = IF h'[k].todo = {} /\ h'[k].kept = {} THEN "none available" ELSE h[k].why
  BY <1>1, TimeMoves, Zenon
<1>5. \/ h'[k].kept = h[k].kept \cup {n} /\ n \notin h[k].shun
      \/ h'[k].kept = h[k].kept /\ h[k].seen - last[n] < FAIL_TIMEOUT
  BY <1>2, <1>4, FilterDrops, Zenon
<1>6. /\ h'[k].pc \in {"count", "strategy", "failed"}
      /\ h'[k].pc = "count" => h'[k].todo # {}
      /\ \/ h'[k].why = h[k].why
         \/ h'[k].todo = {} /\ h'[k].kept = {}
  BY <1>4, Zenon
<1>7. /\ FAIL_TIMEOUT <= h[k].seen /\ h[k].seen <= now /\ h[k].kept \subseteq setup.valid
      /\ \A m \in h[k].shun : /\ m \in Nodes /\ m \notin h[k].kept
                              /\ clean[m] >= setup.max_fails /\ h[k].seen - last[m] < FAIL_TIMEOUT
      /\ h[k].todo \subseteq setup.valid
      /\ \A m \in setup.valid \ h[k].todo : m \in h[k].kept \/ h[k].seen - last[m] < FAIL_TIMEOUT
      /\ h[k].node \in Nodes \cup {0} /\ h[k].left <= Retries /\ h[k].left >= 1
      /\ h[k].why = "none available" => \A m \in setup.valid : h[k].seen - last[m] < FAIL_TIMEOUT
  BY <1>1, <1>2, Zenon DEF Selects, Narrows, Aims, Tries, Selecting
<1>8. /\ h'[k].kept \subseteq setup.valid /\ h'[k].todo \subseteq setup.valid
      /\ \A m \in h[k].shun : m \notin h'[k].kept
      /\ \A m \in setup.valid \ h'[k].todo : m \in h'[k].kept \/ h[k].seen - last[m] < FAIL_TIMEOUT
  <2>1. h'[k].todo = h[k].todo \ {n} /\ n \in setup.valid
    BY <1>4, Zenon
  <2>2. CASE h'[k].kept = h[k].kept \cup {n} /\ n \notin h[k].shun
    BY <1>7, <2>1, <2>2, Zenon
  <2>3. CASE h'[k].kept = h[k].kept /\ h[k].seen - last[n] < FAIL_TIMEOUT
    BY <1>7, <2>1, <2>3, Zenon
  <2> QED
    BY <1>5, <2>2, <2>3, Zenon
<1>9. h'[k].why = "none available" => \A m \in setup.valid : h[k].seen - last[m] < FAIL_TIMEOUT
  BY <1>6, <1>7, <1>8, Zenon
<1>10. h'[k].seen = h[k].seen /\ h'[k].node = h[k].node /\ h'[k].shun = h[k].shun /\ h'[k].left = h[k].left
  BY <1>4, Zenon
<1>11. Narrows(k)'
  BY <1>2, <1>3, <1>6, <1>7, <1>8, <1>10, Zenon DEF Narrows, Marks, Selecting
<1>12. Aims(k)' /\ Tries(k)'
  BY <1>2, <1>3, <1>6, <1>7, <1>9, <1>10, Zenon DEF Aims, Tries, Marks, Chosen, Picked
<1> QED
  BY <1>2, <1>4, <1>6, <1>11, <1>12, MarksKept, Zenon DEF Selects

\* What is picked is not dead.
LEMMA StrategySelects ==
    ASSUME Typed, MarksInv, NEW k \in Handlers, Strategy(k)
    PROVE  MarksInv'
<1>1. Selects(k) /\ setup.hop \in {"none", "quic", "ssh"}
  BY SetupTyped, Zenon DEF MarksInv
<1>2. UNCHANGED <<setup, now>> /\ UNCHANGED Marks /\ h[k].pc = "strategy"
  BY Zenon DEF Strategy, Marks, marker, history
<1>3. Nodes' = Nodes /\ Retries' = Retries
  BY <1>2, Zenon DEF Nodes, Retries
<1>4. /\ Others(k) /\ h'[k].node \in h[k].kept /\ h'[k].node \in Nodes
      /\ h'[k].seen = h[k].seen /\ h'[k].shun = h[k].shun /\ h'[k].left = h[k].left
      /\ h'[k].why = h[k].why /\ h'[k].pc \in {"target", "session", "lock"}
  BY <1>1, StrategyMoves, Zenon
<1>5. /\ h'[k].node \notin h[k].shun /\ h[k].left <= Retries /\ h[k].left >= 1
      /\ h[k].why = "none available" => \A m \in setup.valid : h[k].seen - last[m] < FAIL_TIMEOUT
  BY <1>1, <1>2, <1>4, Zenon DEF Selects, Narrows, Aims, Tries, Selecting
<1>6. Selects(k)'
  BY <1>2, <1>3, <1>4, <1>5, Zenon DEF Selects, Narrows, Aims, Tries, Marks, Chosen, Picked, Selecting
<1> QED
  BY <1>2, <1>4, <1>6, MarksKept, Zenon

\* The begin and the end of a request keep what the marks mean.
LEMMA BeginSelects ==
    ASSUME Typed, MarksInv, NEW k \in Handlers, Request(k) \/ Ends(k)
    PROVE  MarksInv'
<1>1. UNCHANGED <<setup, now>> /\ UNCHANGED Marks
  BY Zenon DEF Request, Ends, Rest, Marks, marker, history
<1>2. Nodes' = Nodes /\ Retries' = Retries /\ Retries \in Nat /\ Retries >= 1
  BY <1>1, SetupTyped, Zenon DEF Nodes, Retries
<1>3. /\ Others(k) /\ h'[k].node = 0 /\ h'[k].why = ""
      /\ \/ h'[k].pc = "next" /\ h'[k].left = Retries
         \/ h'[k].pc = "idle" /\ h'[k].left = 0
  BY RequestMoves, EndsMoves, Zenon
<1>4. Narrows(k)' /\ Aims(k)'
  BY <1>2, <1>3, Zenon DEF Narrows, Aims, Chosen, Picked, Selecting
<1>5. Tries(k)'
  <2>1. Retries <= Retries /\ 0 <= Retries
    BY <1>2
  <2> QED
    BY <1>2, <1>3, <2>1, Zenon DEF Tries
<1> QED
  BY <1>1, <1>3, <1>4, <1>5, MarksKept, Zenon DEF Selects

\* A failure is marked: the time first.
LEMMA MarkTimeKept ==
    ASSUME Typed, MarksInv, NEW k \in Handlers, MarkTime(k)
    PROVE  MarksInv'
<1> DEFINE n == h[k].node
<1>1. /\ UNCHANGED <<setup, now, fail_count, clean>> /\ h[k].pc = "mark1"
      /\ fail_time' = [fail_time EXCEPT ![n] = now] /\ last' = [last EXCEPT ![n] = now]
  BY Zenon DEF MarkTime, Rest
<1>2. Nodes' = Nodes /\ Retries' = Retries
  BY <1>1, Zenon DEF Nodes, Retries
<1>3. Selects(k) /\ n \in Nodes
  BY <1>1, Zenon DEF MarksInv, Selects, Aims, Chosen
<1>4. \A m \in Nodes : /\ fail_time'[m] = (IF m = n THEN now ELSE fail_time[m])
                       /\ last'[m] = (IF m = n THEN now ELSE last[m])
                       /\ last[m] \in Int /\ last'[m] \in Int /\ last[m] <= last'[m] /\ last'[m] <= now
                       /\ clean[m] \in Nat
  <2>1. now \in Nat /\ fail_time \in [Nodes -> Nat] /\ last \in [Nodes -> Int] /\ clean \in [Nodes -> Nat]
    BY Zenon DEF Typed
  <2>2. \A m \in Nodes : last[m] <= now
    BY Zenon DEF MarksInv, Marked
  <2> QED
    BY <1>1, <2>1, <2>2
<1>5. /\ Others(k) /\ Data(k) /\ h'[k].pc = "mark2" /\ h'[k].why = h[k].why
      /\ h'[k].alone = (At("reset2", n) = {})
  BY MarkTimeMoves, Zenon
<1> HIDE DEF n
<1>6. ASSUME NEW m \in Nodes PROVE Marked(m)'
  <2>1. Marked(m)
    BY Zenon DEF MarksInv
  <2> QED
    BY <1>1, <1>4, <2>1, Zenon DEF Marked
<1>7. ASSUME NEW j \in Handlers PROVE Marking(j)'
  <2>1. h'[k].node = n
    BY <1>5, Zenon DEF Data, n
  <2>2. \A i \in Handlers : h'[i].pc = "reset2" => h[i].pc = "reset2" /\ h'[i].node = h[i].node
    BY <1>5, Zenon DEF Others
  <2>3. CASE j = k
    <3>1. h'[j].alone => \A i \in Handlers : h[i].pc = "reset2" => h[i].node # n
      BY <1>5, <2>3, Zenon DEF At
    <3>2. fail_time'[n] = last'[n]
      BY <1>3, <1>4, Zenon
    <3> QED
      BY <1>5, <2>1, <2>2, <2>3, <3>1, <3>2, Zenon DEF Marking
  <2>4. CASE j # k
    <3>1. Marking(j) /\ Selects(j) /\ h'[j] = h[j]
      BY <1>5, <2>4, Zenon DEF MarksInv, Others
    <3>2. h[j].pc = "mark2" => h[j].node \in Nodes
      BY <3>1, Zenon DEF Selects, Aims, Chosen
    <3>3. h[j].pc = "mark2" /\ h[j].alone => fail_time'[h[j].node] = last'[h[j].node]
      BY <1>4, <3>1, <3>2, Zenon DEF Marking
    <3> QED
      BY <1>1, <2>2, <3>1, <3>3, Zenon DEF Marking
  <2> QED
    BY <2>3, <2>4, Zenon
<1>8. ASSUME NEW j \in Handlers, j # k PROVE Selects(j)'
  <2>1. Selects(j) /\ h'[j] = h[j] /\ now \in Nat
    BY <1>5, <1>8, Zenon DEF MarksInv, Others, Typed
  <2>2. now <= now /\ \A m \in Nodes : clean[m] <= clean[m]
    BY <1>4, <2>1
  <2> QED
    BY <1>1, <1>4, <2>1, <2>2, SelectsStay, Zenon
<1>9. Selects(k)'
  <2>1. Aims(k) /\ Tries(k) /\ h[k].seen \in Nat /\ FAIL_TIMEOUT \in Nat /\ setup.valid \subseteq Nodes
    BY <1>3, SetupTyped, DialConstants, Zenon DEF Selects, Typed, Handler
  <2>2. \A m \in Nodes : h[k].seen - last[m] < FAIL_TIMEOUT => h[k].seen - last'[m] < FAIL_TIMEOUT
    BY <1>4, <2>1
  <2>3. Narrows(k)'
    BY <1>5, Zenon DEF Narrows, Selecting
  <2>4. Aims(k)'
    BY <1>1, <1>2, <1>3, <1>5, <2>1, <2>2, Zenon DEF Aims, Data, Chosen, Picked, n
  <2>5. Tries(k)'
    BY <1>1, <1>2, <1>5, <2>1, Zenon DEF Tries, Data
  <2> QED
    BY <2>3, <2>4, <2>5, Zenon DEF Selects
<1> QED
  BY <1>2, <1>6, <1>7, <1>8, <1>9, Zenon DEF MarksInv

\* Then the count, and the attempt is over.
LEMMA MarkCountKept ==
    ASSUME Typed, MarksInv, NEW k \in Handlers, MarkCount(k)
    PROVE  MarksInv'
<1> DEFINE n == h[k].node
<1>1. /\ UNCHANGED <<setup, now, fail_time, last>> /\ h[k].pc = "mark2"
      /\ fail_count' = [fail_count EXCEPT ![n] = @ + 1]
      /\ clean' = [clean EXCEPT ![n] = IF h[k].alone THEN @ + 1 ELSE @]
  BY Zenon DEF MarkCount, Rest
<1>2. Nodes' = Nodes /\ Retries' = Retries
  BY <1>1, Zenon DEF Nodes, Retries
<1>3. Selects(k) /\ n \in Nodes /\ Marking(k)
  BY <1>1, Zenon DEF MarksInv, Selects, Aims, Chosen
<1>4. \A m \in Nodes : /\ fail_count'[m] = (IF m = n THEN fail_count[m] + 1 ELSE fail_count[m])
                       /\ clean'[m] = (IF m = n /\ h[k].alone THEN clean[m] + 1 ELSE clean[m])
                       /\ last[m] \in Int /\ clean[m] \in Nat /\ clean'[m] \in Nat /\ clean[m] <= clean'[m]
                       /\ fail_count[m] \in Nat /\ last[m] <= last[m]
  <2>1. fail_count \in [Nodes -> Nat] /\ last \in [Nodes -> Int] /\ clean \in [Nodes -> Nat]
    BY Zenon DEF Typed
  <2> QED
    BY <1>1, <2>1
<1>5. /\ Others(k) /\ h'[k].why = h[k].why /\ h'[k].seen = h[k].seen /\ h'[k].node = h[k].node
      /\ h'[k].left \in Nat /\ h'[k].left < Retries
      /\ \/ h'[k].pc = "next" /\ h'[k].left >= 1
         \/ h'[k].pc = "failed"
  BY <1>3, MarkCountMoves, Zenon
<1>6. h[k].alone => /\ fail_time[n] = last[n]
                    /\ \A j \in Handlers : h[j].pc = "reset2" => h[j].node # n
  BY <1>1, <1>3, Zenon DEF Marking
<1> HIDE DEF n
<1>7. ASSUME NEW m \in Nodes PROVE Marked(m)'
  <2>1. Marked(m)
    BY Zenon DEF MarksInv
  <2> QED
    BY <1>1, <1>4, <1>6, <2>1 DEF Marked
<1>8. ASSUME NEW j \in Handlers PROVE Marking(j)'
  <2>1. CASE j = k
    BY <1>5, <2>1, Zenon DEF Marking
  <2>2. CASE j # k
    <3>1. Marking(j) /\ Selects(j) /\ h'[j] = h[j]
      BY <1>5, <2>2, Zenon DEF MarksInv, Others
    <3>2. \A i \in Handlers : h'[i].pc = "reset2" => h[i].pc = "reset2" /\ h'[i].node = h[i].node
      BY <1>5, Zenon DEF Others
    <3>3. h[j].pc = "reset2" => h[j].node \in Nodes
      BY <3>1, Zenon DEF Selects, Aims, Chosen
    <3>4. h[j].pc = "reset2" => clean'[h[j].node] = 0
      BY <1>4, <1>6, <3>1, <3>3, Zenon DEF Marking
    <3> QED
      BY <1>1, <3>1, <3>2, <3>4, Zenon DEF Marking
  <2> QED
    BY <2>1, <2>2, Zenon
<1>9. ASSUME NEW j \in Handlers, j # k PROVE Selects(j)'
  <2>1. Selects(j) /\ h'[j] = h[j] /\ now \in Nat
    BY <1>5, <1>9, Zenon DEF MarksInv, Others, Typed
  <2>2. now <= now
    BY <2>1
  <2> QED
    BY <1>1, <1>4, <2>1, <2>2, SelectsStay, Zenon
<1>10. Selects(k)'
  <2>1. Aims(k) /\ Tries(k) /\ Retries \in Nat
    BY <1>3, SetupTyped, Zenon DEF Selects
  <2>2. Narrows(k)'
    BY <1>5, Zenon DEF Narrows, Selecting
  <2>3. Aims(k)'
    BY <1>1, <1>2, <1>5, <2>1, Zenon DEF Aims, Chosen, Picked
  <2>4. Tries(k)'
    BY <1>2, <1>5, <2>1 DEF Tries
  <2> QED
    BY <2>2, <2>3, <2>4, Zenon DEF Selects
<1> QED
  BY <1>2, <1>7, <1>8, <1>9, <1>10, Zenon DEF MarksInv

\* A success resets the time first.  Whoever is between the two steps of a mark
\* of the same target is no longer alone.
LEMMA ResetTimeKept ==
    ASSUME Typed, MarksInv, NEW k \in Handlers, ResetTime(k)
    PROVE  MarksInv'
<1> DEFINE n == h[k].node
<1>1. /\ UNCHANGED <<setup, now, fail_count, last>> /\ h[k].pc = "reset1"
      /\ fail_time' = [fail_time EXCEPT ![n] = 0] /\ clean' = [clean EXCEPT ![n] = 0]
  BY Zenon DEF ResetTime, Rest
<1>2. Nodes' = Nodes /\ Retries' = Retries
  BY <1>1, Zenon DEF Nodes, Retries
<1>3. Selects(k) /\ n \in Nodes
  BY <1>1, Zenon DEF MarksInv, Selects, Aims, Chosen
<1>4. \A m \in Nodes : /\ fail_time'[m] = (IF m = n THEN 0 ELSE fail_time[m])
                       /\ clean'[m] = (IF m = n THEN 0 ELSE clean[m])
                       /\ fail_count[m] \in Nat
  BY <1>1, Zenon DEF Typed
<1>5. ASSUME NEW j \in Handlers
      PROVE  /\ h'[j].pc = (IF j = k THEN "reset2" ELSE h[j].pc)
             /\ h'[j].alone => h[j].alone /\ ~(h[j].pc = "mark2" /\ h[j].node = n)
             /\ h'[j].shun = h[j].shun \ {n}
             /\ h'[j].seen = h[j].seen /\ h'[j].todo = h[j].todo /\ h'[j].kept = h[j].kept
             /\ h'[j].node = h[j].node /\ h'[j].left = h[j].left /\ h'[j].count = h[j].count
             /\ h'[j].why = h[j].why
  BY ResetTimeMoves DEF At
<1>6. \A j \in Handlers : /\ Marking(j) /\ Selects(j)
                          /\ h[j].pc \in {"mark2", "reset2"} => h[j].node \in Nodes
  BY Zenon DEF MarksInv, Selects, Aims, Chosen
<1>7. h[k].node = n
  BY Zenon
<1> HIDE DEF n
<1>8. ASSUME NEW m \in Nodes PROVE Marked(m)'
  <2>1. Marked(m)
    BY Zenon DEF MarksInv
  <2> QED
    BY <1>1, <1>4, <2>1 DEF Marked
<1>9. ASSUME NEW j \in Handlers PROVE Marking(j)'
  <2>1. h'[j].pc = "reset2" => clean'[h'[j].node] = 0
    <3>1. CASE j = k
      BY <1>3, <1>4, <1>5, <1>7, <3>1, Zenon
    <3>2. CASE j # k
      BY <1>4, <1>5, <1>6, <3>2 DEF Marking
    <3> QED
      BY <3>1, <3>2, Zenon
  <2>2. ASSUME h'[j].pc = "mark2", h'[j].alone
        PROVE  /\ fail_time'[h'[j].node] = last'[h'[j].node]
               /\ \A i \in Handlers : h'[i].pc = "reset2" => h'[i].node # h'[j].node
    <3>1. j # k /\ h[j].pc = "mark2" /\ h[j].alone /\ h[j].node # n /\ h'[j].node = h[j].node
      BY <1>5, <2>2, Zenon
    <3>2. /\ fail_time[h[j].node] = last[h[j].node] /\ h[j].node \in Nodes
          /\ \A i \in Handlers : h[i].pc = "reset2" => h[i].node # h[j].node
      BY <1>6, <3>1, Zenon DEF Marking
    <3>3. \A i \in Handlers : h'[i].pc = "reset2" => (i = k \/ h[i].pc = "reset2") /\ h'[i].node = h[i].node
      BY <1>5, Zenon
    <3> QED
      BY <1>1, <1>4, <1>7, <3>1, <3>2, <3>3
  <2> QED
    BY <2>1, <2>2, Zenon DEF Marking
<1>10. ASSUME NEW j \in Handlers PROVE Selects(j)'
  <2>1. Narrows(j) /\ Aims(j) /\ Tries(j)
    BY <1>6, Zenon DEF Selects
  <2>2. \A m \in Nodes : m # n => clean'[m] = clean[m]
    BY <1>4, Zenon
  <2>3. CASE j = k
    <3>1. h'[j].pc = "reset2"
      BY <1>5, <2>3, Zenon
    <3>2. Narrows(j)'
      BY <3>1, Zenon DEF Narrows, Selecting
    <3>3. Aims(j)'
      BY <1>1, <1>2, <1>3, <1>5, <1>7, <2>1, <2>3, <3>1, Zenon DEF Aims, Picked
    <3>4. Tries(j)'
      BY <1>1, <1>2, <1>5, <2>1, <2>3, <3>1, Zenon DEF Tries
    <3> QED
      BY <3>2, <3>3, <3>4, Zenon DEF Selects
  <2>4. CASE j # k
    <3>1. h'[j].pc = h[j].pc
      BY <1>5, <2>4, Zenon
    <3>2. Narrows(j)'
      BY <1>1, <1>2, <1>5, <2>1, <2>2, <3>1 DEF Narrows
    <3>3. Aims(j)'
      BY <1>1, <1>2, <1>5, <2>1, <3>1, Zenon DEF Aims
    <3>4. Tries(j)'
      BY <1>1, <1>2, <1>5, <2>1, <3>1, Zenon DEF Tries
    <3> QED
      BY <3>2, <3>3, <3>4, Zenon DEF Selects
  <2> QED
    BY <2>3, <2>4, Zenon
<1> QED
  BY <1>2, <1>8, <1>9, <1>10, Zenon DEF MarksInv

\* Then the count.
LEMMA ResetCountKept ==
    ASSUME Typed, MarksInv, NEW k \in Handlers, ResetCount(k)
    PROVE  MarksInv'
<1> DEFINE n == h[k].node
<1>1. /\ UNCHANGED <<setup, now, fail_time, clean, last>> /\ h[k].pc = "reset2"
      /\ fail_count' = [fail_count EXCEPT ![n] = 0]
  BY Zenon DEF ResetCount, Rest, history
<1>2. Nodes' = Nodes /\ Retries' = Retries
  BY <1>1, Zenon DEF Nodes, Retries
<1>3. Selects(k) /\ n \in Nodes /\ clean[n] = 0
  BY <1>1, Zenon DEF MarksInv, Selects, Aims, Chosen, Marking
<1>4. \A m \in Nodes : /\ fail_count'[m] = (IF m = n THEN 0 ELSE fail_count[m])
                       /\ last[m] \in Int /\ clean[m] \in Nat /\ clean[m] <= clean[m] /\ last[m] <= last[m]
  <2>1. fail_count \in [Nodes -> Nat] /\ last \in [Nodes -> Int] /\ clean \in [Nodes -> Nat]
    BY Zenon DEF Typed
  <2> QED
    BY <1>1, <2>1
<1>5. Others(k) /\ Data(k) /\ h'[k].pc = "relay" /\ h'[k].why = h[k].why
  BY ResetCountMoves, Zenon
<1> HIDE DEF n
<1>6. ASSUME NEW m \in Nodes PROVE Marked(m)'
  <2>1. Marked(m)
    BY Zenon DEF MarksInv
  <2> QED
    BY <1>1, <1>3, <1>4, <2>1, Zenon DEF Marked
<1>7. ASSUME NEW j \in Handlers PROVE Marking(j)'
  <2>1. CASE j = k
    BY <1>5, <2>1, Zenon DEF Marking
  <2>2. CASE j # k
    <3>1. Marking(j) /\ h'[j] = h[j]
      BY <1>5, <2>2, Zenon DEF MarksInv, Others
    <3>2. \A i \in Handlers : h'[i].pc = "reset2" => h[i].pc = "reset2" /\ h'[i].node = h[i].node
      BY <1>5, Zenon DEF Others
    <3> QED
      BY <1>1, <3>1, <3>2, Zenon DEF Marking
  <2> QED
    BY <2>1, <2>2, Zenon
<1>8. ASSUME NEW j \in Handlers, j # k PROVE Selects(j)'
  <2>1. Selects(j) /\ h'[j] = h[j] /\ now \in Nat
    BY <1>5, <1>8, Zenon DEF MarksInv, Others, Typed
  <2>2. now <= now
    BY <2>1
  <2> QED
    BY <1>1, <1>4, <2>1, <2>2, SelectsStay, Zenon
<1>9. Selects(k)'
  <2>1. Aims(k) /\ Tries(k)
    BY <1>3, Zenon DEF Selects
  <2>2. Narrows(k)'
    BY <1>5, Zenon DEF Narrows, Selecting
  <2>3. Aims(k)'
    BY <1>1, <1>2, <1>5, <2>1, Zenon DEF Aims, Data, Chosen, Picked
  <2>4. Tries(k)'
    BY <1>1, <1>2, <1>5, <2>1, Zenon DEF Tries, Data
  <2> QED
    BY <2>2, <2>3, <2>4, Zenon DEF Selects
<1> QED
  BY <1>2, <1>6, <1>7, <1>8, <1>9, Zenon DEF MarksInv

\* The clock and the network leave the marks alone.
LEMMA WorldMarks ==
    ASSUME Typed, MarksInv, Tick \/ Fault \/ (\E n \in Nodes : ProbeEnds(n)) \/ UNCHANGED vars
    PROVE  MarksInv'
<1>1. UNCHANGED <<setup, h>> /\ UNCHANGED Marks /\ now' \in Nat /\ now <= now' /\ now \in Nat
  BY DEF Tick, Fault, ProbeEnds, vars, Marks, marker, history, Typed
<1>2. Nodes' = Nodes
  BY <1>1, Zenon DEF Nodes
<1>3. \A m \in Nodes : last[m] \in Int /\ clean[m] \in Nat /\ clean[m] <= clean[m] /\ last[m] <= last[m]
  <2>1. \A m \in Nodes : last[m] \in Int /\ clean[m] \in Nat
    BY Zenon DEF Typed
  <2>2. \A i \in Int, n \in Nat : i <= i /\ n <= n
    OBVIOUS
  <2> QED
    BY <2>1, <2>2, Zenon
<1>4. ASSUME NEW m \in Nodes PROVE Marked(m)'
  <2>1. Marked(m)
    BY Zenon DEF MarksInv
  <2> QED
    BY <1>1, <1>3, <2>1 DEF Marked, Marks
<1>5. ASSUME NEW j \in Handlers PROVE Marking(j)' /\ Selects(j)'
  <2>1. Marking(j) /\ Selects(j) /\ h'[j] = h[j]
    BY <1>1, Zenon DEF MarksInv
  <2>2. Marking(j)'
    BY <1>1, <2>1, Zenon DEF Marking, Marks
  <2>3. Selects(j)'
    BY <1>1, <1>3, <2>1, SelectsStay, Zenon DEF Marks
  <2> QED
    BY <2>2, <2>3, Zenon
<1> QED
  BY <1>2, <1>4, <1>5, Zenon DEF MarksInv

\* Every step keeps what the marks mean.
LEMMA MarksNext ==
    ASSUME Typed, MarksInv, [Next]_vars
    PROVE  MarksInv'
<1>1. ASSUME NEW k \in Handlers, Request(k) \/ Handles(k) PROVE MarksInv'
  BY <1>1, BeginSelects, NextSelects, CountSelects, TimeSelects, StrategySelects, SessionSelects,
     MarkTimeKept, MarkCountKept, ResetTimeKept, ResetCountKept, Zenon DEF Handles
<1> QED
  BY <1>1, WorldMarks, Zenon DEF Next

\* At the start there are no marks.
LEMMA MarksInit ==
    ASSUME Init PROVE MarksInv
<1>1. Typed
  BY TypedInit, Zenon
<1>2. ASSUME NEW n \in Nodes PROVE Marked(n)
  BY DialConstants DEF Init, Marked
<1>3. ASSUME NEW k \in Handlers PROVE Marking(k) /\ Selects(k)
  <2>1. h[k] = Idle
    BY Zenon DEF Init
  <2>2. Idle.pc = "idle" /\ Idle.node = 0 /\ Idle.why = "" /\ Idle.left = 0
    BY Zenon DEF Idle
  <2>3. h[k].pc = "idle" /\ h[k].node = 0 /\ h[k].why = "" /\ h[k].left = 0
    BY <2>1, <2>2, Zenon
  <2>4. Marking(k) /\ Narrows(k)
    BY <2>3, Zenon DEF Marking, Narrows, Selecting
  <2>5. Aims(k)
    BY <2>3, Zenon DEF Aims, Chosen, Picked
  <2>6. 0 <= Retries
    BY <1>1, SetupTyped
  <2>7. Tries(k)
    BY <2>3, <2>6, Zenon DEF Tries
  <2> QED
    BY <2>4, <2>5, <2>7, Zenon DEF Selects
<1> QED
  BY <1>2, <1>3, Zenon DEF MarksInv

-----------------------------------------------------------------------------
(* Probes are not repeated, and sessions are shared.                       *)

\* Queues of at most one.
LEMMA ShortQueue ==
    ASSUME NEW q \in Seq(Nat), Len(q) <= 1
    PROVE  /\ Len(q) # 1 => q = <<>>
           /\ q # <<>> => Len(Tail(q)) = 0
<1>1. Len(q) \in {0, 1}
  <2>1. Len(q) \in Nat
    OBVIOUS
  <2>2. \A x \in Nat : x <= 1 => x \in {0, 1}
    OBVIOUS
  <2> QED
    BY <2>1, <2>2, Zenon
<1>2. Len(q) = 0 => q = <<>>
  OBVIOUS
<1>3. q # <<>> => Len(Tail(q)) = Len(q) - 1
  OBVIOUS
<1> QED
  BY <1>1, <1>2, <1>3

\* A probe starts only where none runs, and makes the entry fresh first.
LEMMA ProbeStarts ==
    ASSUME Typed, \A n \in Nodes : Probed(n), NEW ns, latency_of(ns), UNCHANGED <<setup, now>>
    PROVE  \A n \in Nodes : Probed(n)'
<1>1. /\ now \in Nat /\ PING_TIMEOUT \in Nat /\ PING_HOLD \in Nat /\ PING_TIMEOUT <= PING_HOLD
      /\ now + PING_TIMEOUT \in Nat /\ now <= now + PING_TIMEOUT
      /\ now + PING_TIMEOUT <= now + hold
  BY DialConstants DEF Typed, hold
<1> SUFFICES ASSUME NEW n \in Nodes PROVE Probed(n)'
  BY Zenon
<1>2. Probed(n) /\ probes[n] \in Seq(Nat) /\ results[n] \in [latency : Nat, expires_at : Int]
  BY Zenon DEF Typed
<1>3. CASE n \notin Stale(ns)
  <2>1. probes'[n] = probes[n] /\ results'[n] = results[n]
    BY <1>3, Zenon DEF latency_of
  <2> QED
    BY <1>2, <2>1, Zenon DEF Probed
<1>4. CASE n \in Stale(ns)
  <2>1. /\ results'[n] = [latency |-> latency(n), expires_at |-> now + hold]
        /\ probes'[n] = Append(probes[n], now + PING_TIMEOUT)
    BY <1>4, Zenon DEF latency_of
  <2>2. results[n].expires_at < now /\ results[n].expires_at \in Int
    BY <1>2, <1>4, Zenon DEF Stale
  <2>5. Len(probes[n]) # 1
    <3>1. SUFFICES ASSUME Len(probes[n]) = 1 PROVE FALSE
      BY Zenon
    <3>2. now <= probes[n][1] /\ probes[n][1] <= results[n].expires_at
      BY <1>2, <3>1, Zenon DEF Probed
    <3>3. probes[n][1] \in Nat
      BY <1>2, <3>1
    <3> QED
      BY <1>1, <2>2, <3>2, <3>3
  <2>3. Len(probes[n]) <= 1
    BY <1>2, Zenon DEF Probed
  <2>6. probes[n] = <<>>
    BY <1>2, <2>3, <2>5, ShortQueue, Zenon
  <2>7. Len(probes'[n]) = 1 /\ probes'[n][1] = now + PING_TIMEOUT
    BY <1>1, <2>1, <2>6
  <2>8. results'[n].expires_at = now + hold
    BY <2>1
  <2> QED
    BY <1>1, <2>7, <2>8 DEF Probed
<1> QED
  BY <1>3, <1>4, Zenon

\* Steps that touch no entry keep this.
LEMMA ProbesStay ==
    ASSUME \A n \in Nodes : Probed(n), UNCHANGED <<setup, now, results, probes>>
    PROVE  \A n \in Nodes : Probed(n)'
  BY Zenon DEF Probed

\* Time, faults and the end of a probe keep it: a probe is over before its
\* entry expires.
LEMMA ProbesWorld ==
    ASSUME Typed, \A n \in Nodes : Probed(n),
           Tick \/ Fault \/ (\E n \in Nodes : ProbeEnds(n)) \/ UNCHANGED vars
    PROVE  \A n \in Nodes : Probed(n)'
<1>1. CASE Fault \/ UNCHANGED vars
  BY <1>1, ProbesStay, Zenon DEF Fault, vars
<1>2. CASE Tick
  <2> SUFFICES ASSUME NEW n \in Nodes PROVE Probed(n)'
    BY Zenon
  <2>1. /\ now' = now + 1 /\ now \in Nat /\ UNCHANGED <<results, probes>> /\ Probed(n)
        /\ probes[n] \in Seq(Nat) /\ \A i \in DOMAIN probes[n] : now < probes[n][i]
    BY <1>2, Zenon DEF Tick, Typed
  <2>2. Len(probes[n]) = 1 => probes[n][1] \in Nat /\ now < probes[n][1]
    BY <2>1
  <2>3. Len(probes[n]) = 1 => now + 1 <= probes[n][1]
    BY <2>1, <2>2
  <2> QED
    BY <2>1, <2>3, Zenon DEF Probed
<1>3. ASSUME NEW m \in Nodes, ProbeEnds(m) PROVE \A n \in Nodes : Probed(n)'
  <2> SUFFICES ASSUME NEW n \in Nodes PROVE Probed(n)'
    BY Zenon
  <2>1. /\ now' = now /\ probes' = [probes EXCEPT ![m] = Tail(probes[m])] /\ probes[m] # <<>>
        /\ \E r : results' = [results EXCEPT ![m] = r]
    BY <1>3, Zenon DEF ProbeEnds
  <2>2. probes \in [Nodes -> Seq(Nat)] /\ results \in [Nodes -> [latency : Nat, expires_at : Int]]
    BY Zenon DEF Typed
  <2>3. Probed(n) /\ Probed(m)
    BY Zenon
  <2>4. CASE n = m
    <3>1. probes[m] \in Seq(Nat) /\ probes'[n] = Tail(probes[m])
      BY <2>1, <2>2, <2>4, Zenon
    <3>2. Len(probes[m]) <= 1
      BY <2>3, Zenon DEF Probed
    <3>3. Len(Tail(probes[m])) = 0
      BY <2>1, <3>1, <3>2, ShortQueue, Zenon
    <3>4. Len(probes'[n]) = 0
      BY <3>1, <3>3, Zenon
    <3>5. \A x : x = 0 => x <= 1 /\ x # 1
      OBVIOUS
    <3>6. Len(probes'[n]) <= 1 /\ Len(probes'[n]) # 1
      BY <3>4, <3>5, Zenon
    <3> QED
      BY <3>6, Zenon DEF Probed
  <2>5. CASE n # m
    <3>1. probes'[n] = probes[n] /\ results'[n] = results[n]
      BY <2>1, <2>2, <2>5, Zenon
    <3> QED
      BY <2>1, <2>3, <3>1, Zenon DEF Probed
  <2> QED
    BY <2>4, <2>5, Zenon
<1> QED
  BY <1>1, <1>2, <1>3, Zenon

\* What matters to the sessions stays as it is.
Same(j) == h'[j].pc = h[j].pc /\ h'[j].stage = h[j].stage /\ h'[j].ses = h[j].ses /\ h'[j].why = h[j].why

\* Whoever does not hold the lock does not care what becomes of the cache.
LEMMA Bystander ==
    ASSUME NEW j \in Handlers, Dials(j), Same(j), UNCHANGED setup, lock # j, lock' # j
    PROVE  Dials(j)'
  BY Zenon DEF Dials, Same

\* A handler that does not move keeps what it knows, unless another session
\* gets into the cache.
LEMMA DialsStay ==
    ASSUME NEW j \in Handlers, Dials(j), Same(j), UNCHANGED <<setup, lock>>,
           cached \notin live => cached' \notin live',
           cached' \in live' => cached' = cached
    PROVE  Dials(j)'
  BY Zenon DEF Dials, Same

\* Whoever is not dialling has no part in it.
LEMMA NotDialling ==
    ASSUME Typed, NEW k \in Handlers, \A j \in Handlers : Dials(j), \A s \in live : Alive(s),
           UNCHANGED setup, UNCHANGED pool, \A j \in Handlers : j # k => Same(j),
           h[k].pc \notin {"session", "connect", "open"},
           h'[k].pc \notin {"session", "lock", "connect", "open"},
           setup.hop = "quic" => h'[k].why = h[k].why \/ h'[k].why \notin {"warm", "locked"}
    PROVE  (\A j \in Handlers : Dials(j)') /\ (\A s \in live' : Alive(s)')
<1>1. ASSUME NEW j \in Handlers, j # k PROVE Dials(j)'
  BY <1>1, DialsStay, Zenon DEF pool
<1>2. Dials(k)'
  BY Zenon DEF Dials, pool
<1>3. ASSUME NEW s \in live' PROVE Alive(s)'
  <2>1. Alive(s)
    BY Zenon DEF pool
  <2>2. CASE s = cached
    BY <2>2, Zenon DEF Alive, pool
  <2>3. CASE s # cached
    <3>1. PICK i \in Handlers : lock = i /\ h[i].pc = "open" /\ h[i].stage = "built" /\ h[i].ses = s
      BY <2>1, <2>3, Zenon DEF Alive
    <3>2. i # k /\ Same(i) /\ setup.hop = "quic"
      BY <2>1, <2>3, <3>1, Zenon DEF Alive
    <3> QED
      BY <3>1, <3>2 DEF Alive, Same, pool
  <2> QED
    BY <2>2, <2>3, Zenon
<1> QED
  BY <1>1, <1>2, <1>3, Zenon

\* Looking into the cache keeps the one session.
LEMMA SessionLooks ==
    ASSUME Typed, NEW k \in Handlers, \A j \in Handlers : Dials(j), \A s \in live : Alive(s), live_session(k)
    PROVE  (\A j \in Handlers : Dials(j)') /\ (\A s \in live' : Alive(s)')
<1>1. UNCHANGED <<setup, live>> /\ h[k].pc = "session" /\ k # None /\ None \notin live
  BY DialConstants DEF live_session, Outside, Typed, None
<1>2. Dials(k)
  BY Zenon
<1>3. CASE cached \in live
  <2>1. /\ Dialled(k, "open", cached, h[k].stage, h[k].why) /\ UNCHANGED cached
        /\ lock' = (IF setup.hop = "ssh" THEN None ELSE lock)
    BY <1>3, SessionMoves, Zenon
  <2>2. ASSUME NEW j \in Handlers, j # k PROVE Dials(j)'
    <3>1. Same(j) /\ Dials(j) /\ j # None
      BY <2>1, <2>2, DialConstants, Zenon DEF Same, Dialled, Others, None
    <3>2. CASE setup.hop = "ssh"
      <4>1. lock = k /\ lock' = None
        BY <1>1, <1>2, <2>1, <3>2, Zenon DEF Dials
      <4> QED
        BY <1>1, <2>2, <3>1, <4>1, Bystander, Zenon
    <3>3. CASE setup.hop # "ssh"
      BY <1>1, <2>1, <3>1, <3>3, DialsStay, Zenon
    <3> QED
      BY <3>2, <3>3, Zenon
  <2>3. Dials(k)'
    BY <1>1, <1>2, <2>1, Zenon DEF Dials, Dialled
  <2>4. ASSUME NEW s \in live' PROVE Alive(s)'
    <3>1. Alive(s)
      BY <1>1, Zenon
    <3>2. CASE s = cached
      BY <2>1, <3>2, Zenon DEF Alive
    <3>3. CASE s # cached
      <4>1. setup.hop = "quic"
        BY <3>1, <3>3, Zenon DEF Alive
      <4>2. PICK i \in Handlers : lock = i /\ h[i].pc = "open" /\ h[i].stage = "built" /\ h[i].ses = s
        BY <3>1, <3>3, Zenon DEF Alive
      <4>3. h'[i] = h[i] /\ lock' = lock
        BY <1>1, <2>1, <4>1, <4>2, Zenon DEF Dialled, Others
      <4> QED
        BY <1>1, <4>1, <4>2, <4>3, Zenon DEF Alive
    <3> QED
      BY <3>2, <3>3, Zenon
  <2> QED
    BY <2>2, <2>3, <2>4, Zenon
<1>4. CASE cached \notin live
  <2>1. /\ Dialled(k, IF h[k].stage = "warm" THEN "lock" ELSE "connect", h[k].ses, h[k].stage, h[k].why)
        /\ cached' = None /\ UNCHANGED lock
    BY <1>4, SessionMoves, Zenon
  <2>2. ASSUME NEW j \in Handlers, j # k PROVE Dials(j)'
    <3>1. Same(j) /\ Dials(j)
      BY <2>1, <2>2, Zenon DEF Same, Dialled, Others
    <3> QED
      BY <1>1, <2>1, <3>1, DialsStay, Zenon
  <2>3. Dials(k)'
    BY <1>1, <1>2, <2>1, Zenon DEF Dials, Dialled
  <2>4. ASSUME NEW s \in live' PROVE Alive(s)'
    <3>1. Alive(s) /\ s # cached
      BY <1>1, <1>4, Zenon
    <3>2. PICK i \in Handlers : lock = i /\ h[i].pc = "open" /\ h[i].stage = "built" /\ h[i].ses = s
      BY <3>1, Zenon DEF Alive
    <3>3. h'[i] = h[i]
      BY <1>1, <2>1, <3>2, Zenon DEF Dialled, Others
    <3> QED
      BY <1>1, <2>1, <3>1, <3>2, <3>3, ZenonT(30) DEF Alive
  <2> QED
    BY <2>2, <2>3, <2>4, Zenon
<1> QED
  BY <1>3, <1>4, Zenon

\* So does waiting for the lock.
LEMMA SessionLocks ==
    ASSUME Typed, NEW k \in Handlers, \A j \in Handlers : Dials(j), \A s \in live : Alive(s), Locks(k)
    PROVE  (\A j \in Handlers : Dials(j)') /\ (\A s \in live' : Alive(s)')
<1>1. /\ UNCHANGED <<setup, live, cached>> /\ h[k].pc = "lock" /\ lock = None /\ lock' = k
      /\ h' = [h EXCEPT ![k].pc = "session", ![k].stage = "locked"]
  BY Zenon DEF Locks, Outside
<1>2. Dialled(k, "session", h[k].ses, "locked", h[k].why)
  BY <1>1, StageMoves, Zenon DEF Dialled, Pcs, Stages
<1>3. \A j \in Handlers : j # None
  BY DialConstants, Zenon DEF None
<1>4. ASSUME NEW j \in Handlers, j # k PROVE Dials(j)'
  <2>1. Same(j) /\ Dials(j)
    BY <1>2, <1>4, Zenon DEF Same, Dialled, Others
  <2> QED
    BY <1>1, <1>3, <1>4, <2>1, Bystander, Zenon
<1>5. Dials(k)'
  BY <1>1, <1>2, Zenon DEF Dials, Dialled
<1>6. ASSUME NEW s \in live' PROVE Alive(s)'
  BY <1>1, <1>3, Zenon DEF Alive
<1> QED
  BY <1>4, <1>5, <1>6, Zenon

\* So does building: the builder holds the lock and nothing in the cache
\* lives.
LEMMA SessionBuilds ==
    ASSUME Typed, NEW k \in Handlers, \A j \in Handlers : Dials(j), \A s \in live : Alive(s), connect(k)
    PROVE  (\A j \in Handlers : Dials(j)') /\ (\A s \in live' : Alive(s)')
<1>1. /\ UNCHANGED setup /\ h[k].pc = "connect" /\ lock = k /\ cached \notin live
      /\ setup.hop \in {"quic", "ssh"}
      /\ setup.hop = "quic" => h[k].why \notin {"warm", "locked"}
  BY Zenon DEF connect, Outside, Dials
<1>2. \A j \in Handlers : j # None
  BY DialConstants, Zenon DEF None
<1>3. live = {}
  BY <1>1, Zenon DEF Alive
<1>4. Others(k) /\ (lock' = k \/ lock' = None)
  BY <1>1, ConnectMoves, Zenon DEF Dialled
<1>5. ASSUME NEW j \in Handlers, j # k PROVE Dials(j)'
  <2>1. Same(j) /\ Dials(j)
    BY <1>4, <1>5, Zenon DEF Same, Others
  <2> QED
    BY <1>1, <1>2, <1>4, <1>5, <2>1, Bystander, Zenon
<1>6. CASE /\ live' = live \cup {built + 1} /\ Dialled(k, "open", built + 1, "built", h[k].why)
           /\ IF setup.hop = "ssh" THEN cached' = built + 1 /\ lock' = None
              ELSE UNCHANGED <<cached, lock>>
  <2>1. cached # built + 1
    BY DEF Typed
  <2>2. live' = {built + 1}
    BY <1>3, <1>6, Zenon
  <2>3. CASE setup.hop = "ssh"
    <3>1. cached' = built + 1 /\ lock' = None
      BY <1>6, <2>3, Zenon
    <3>2. Dials(k)'
      BY <1>1, <1>2, <1>6, <2>3, <3>1, Zenon DEF Dials, Dialled
    <3>3. \A s \in live' : Alive(s)'
      BY <2>2, <3>1, Zenon DEF Alive
    <3> QED
      BY <1>5, <3>2, <3>3, Zenon
  <2>4. CASE setup.hop = "quic"
    <3>1. cached' = cached /\ lock' = k
      BY <1>1, <1>6, <2>4, Zenon
    <3>2. Dials(k)'
      BY <1>1, <1>6, <2>1, <2>2, <2>4, <3>1, Zenon DEF Dials, Dialled
    <3>3. \A s \in live' : Alive(s)'
      BY <1>1, <1>6, <2>2, <2>4, <3>1, Zenon DEF Alive, Dialled
    <3> QED
      BY <1>5, <3>2, <3>3, Zenon
  <2> QED
    BY <1>1, <2>3, <2>4, Zenon
<1>7. CASE /\ Dialled(k, "mark1", h[k].ses, h[k].stage, "connect")
           /\ lock' = (IF lock = k THEN None ELSE lock) /\ UNCHANGED <<cached, live, built>>
  <2>1. Dials(k)'
    BY <1>1, <1>2, <1>7, Zenon DEF Dials, Dialled
  <2> QED
    BY <1>3, <1>5, <1>7, <2>1, Zenon
<1> QED
  BY <1>6, <1>7, ConnectMoves, Zenon

\* So does trying a session out.
LEMMA SessionOpens ==
    ASSUME Typed, NEW k \in Handlers, \A j \in Handlers : Dials(j), \A s \in live : Alive(s), open_bi(k)
    PROVE  (\A j \in Handlers : Dials(j)') /\ (\A s \in live' : Alive(s)')
<1>1. UNCHANGED <<setup, live>> /\ h[k].pc = "open"
  BY Zenon DEF open_bi, Outside
<1>2. \A j \in Handlers : j # None
  BY DialConstants, Zenon DEF None
<1>3. /\ Dials(k) /\ setup.hop \in {"quic", "ssh"} /\ h[k].stage \in {"warm", "locked", "built"}
      /\ Others(k)
  BY <1>1, OpenMoves, Zenon DEF Dials, Dialled, Typed, Handler, Stages
<1>4. ASSUME NEW j \in Handlers, j # k PROVE Same(j) /\ Dials(j)
  BY <1>3, <1>4, Zenon DEF Same, Others
<1>5. CASE /\ h[k].ses \in live /\ Dialled(k, "target", h[k].ses, h[k].stage, h[k].why)
           /\ cached' = (IF setup.hop = "quic" /\ h[k].stage = "built" THEN h[k].ses ELSE cached)
           /\ lock' = (IF lock = k THEN None ELSE lock)
  <2>1. setup.hop = "quic" /\ h[k].stage = "built" => lock = k /\ cached \notin live
    BY <1>1, <1>3, Zenon DEF Dials
  <2>2. ASSUME NEW j \in Handlers, j # k PROVE Dials(j)'
    <3>1. CASE lock = k
      BY <1>1, <1>2, <1>4, <1>5, <2>2, <3>1, Bystander, Zenon
    <3>2. CASE lock # k
      <4>1. UNCHANGED <<lock, cached>>
        BY <1>5, <2>1, <3>2, Zenon
      <4> QED
        BY <1>1, <1>4, <2>2, <4>1, DialsStay, Zenon
    <3> QED
      BY <3>1, <3>2, Zenon
  <2>3. Dials(k)'
    BY <1>1, <1>2, <1>3, <1>5, Zenon DEF Dials, Dialled
  <2>4. ASSUME NEW s \in live' PROVE Alive(s)'
    <3>1. Alive(s) /\ s \in live
      BY <1>1, Zenon
    <3>2. CASE setup.hop = "quic" /\ h[k].stage = "built"
      <4>1. s # cached /\ lock = k
        BY <2>1, <3>1, <3>2, Zenon
      <4>2. s = h[k].ses
        BY <3>1, <4>1, Zenon DEF Alive
      <4> QED
        BY <1>5, <3>2, <4>2, Zenon DEF Alive
    <3>3. CASE ~(setup.hop = "quic" /\ h[k].stage = "built") /\ s = cached
      BY <1>5, <3>3, Zenon DEF Alive
    <3>4. CASE ~(setup.hop = "quic" /\ h[k].stage = "built") /\ s # cached
      <4>1. setup.hop = "quic"
        BY <3>1, <3>4, Zenon DEF Alive
      <4>2. PICK i \in Handlers : lock = i /\ h[i].pc = "open" /\ h[i].stage = "built" /\ h[i].ses = s
        BY <3>1, <3>4, Zenon DEF Alive
      <4>3. i # k
        BY <3>4, <4>1, <4>2, Zenon
      <4>4. lock' = lock /\ h'[i] = h[i]
        BY <1>3, <1>5, <4>2, <4>3, Zenon DEF Others
      <4> QED
        BY <1>1, <4>1, <4>2, <4>4, Zenon DEF Alive
    <3> QED
      BY <3>2, <3>3, <3>4, Zenon
  <2> QED
    BY <2>2, <2>3, <2>4, Zenon
<1>6. CASE /\ h[k].ses \notin live /\ UNCHANGED cached
           /\ setup.hop = "ssh" \/ h[k].stage = "built"
           /\ Dialled(k, "mark1", h[k].ses, h[k].stage, h[k].stage)
           /\ lock' = (IF lock = k THEN None ELSE lock)
  <2>1. ASSUME NEW j \in Handlers, j # k PROVE Dials(j)'
    <3>1. CASE lock = k
      BY <1>1, <1>2, <1>4, <1>6, <2>1, <3>1, Bystander, Zenon
    <3>2. CASE lock # k
      BY <1>1, <1>4, <1>6, <2>1, <3>2, DialsStay, Zenon
    <3> QED
      BY <3>1, <3>2, Zenon
  <2>2. Dials(k)'
    BY <1>1, <1>2, <1>3, <1>6, Zenon DEF Dials, Dialled
  <2>3. ASSUME NEW s \in live' PROVE Alive(s)'
    <3>1. Alive(s) /\ s # h[k].ses
      BY <1>1, <1>6, Zenon
    <3>2. CASE s = cached
      BY <1>6, <3>2, Zenon DEF Alive
    <3>3. CASE s # cached
      <4>1. PICK i \in Handlers : lock = i /\ h[i].pc = "open" /\ h[i].stage = "built" /\ h[i].ses = s
        BY <3>1, <3>3, Zenon DEF Alive
      <4>2. i # k /\ setup.hop = "quic"
        BY <3>1, <3>3, <4>1, Zenon DEF Alive
      <4>3. lock' = lock /\ h'[i] = h[i]
        BY <1>3, <1>6, <4>1, <4>2, Zenon DEF Others
      <4> QED
        BY <1>1, <4>1, <4>2, <4>3, Zenon DEF Alive
    <3> QED
      BY <3>2, <3>3, Zenon
  <2> QED
    BY <2>1, <2>2, <2>3, Zenon
<1>7. CASE /\ h[k].ses \notin live /\ UNCHANGED <<cached, lock>>
           /\ setup.hop # "ssh" /\ h[k].stage # "built"
           /\ Dialled(k, IF h[k].stage = "warm" THEN "lock" ELSE "connect", h[k].ses, h[k].stage, h[k].why)
  <2>1. ASSUME NEW j \in Handlers, j # k PROVE Dials(j)'
    BY <1>1, <1>4, <1>7, <2>1, DialsStay, Zenon
  <2>2. Dials(k)'
    BY <1>1, <1>3, <1>7, Zenon DEF Dials, Dialled
  <2>3. ASSUME NEW s \in live' PROVE Alive(s)'
    <3>1. Alive(s) /\ s # h[k].ses
      BY <1>1, <1>7, Zenon
    <3>2. CASE s = cached
      BY <1>7, <3>2, Zenon DEF Alive
    <3>3. CASE s # cached
      <4>1. PICK i \in Handlers : lock = i /\ h[i].pc = "open" /\ h[i].stage = "built" /\ h[i].ses = s
        BY <3>1, <3>3, Zenon DEF Alive
      <4>2. i # k /\ setup.hop = "quic"
        BY <3>1, <3>3, <4>1, Zenon DEF Alive
      <4>3. h'[i] = h[i]
        BY <1>3, <4>2, Zenon DEF Others
      <4> QED
        BY <1>1, <1>7, <4>1, <4>2, <4>3, ZenonT(30) DEF Alive
    <3> QED
      BY <3>2, <3>3, Zenon
  <2> QED
    BY <2>1, <2>2, <2>3, Zenon
<1> QED
  BY <1>5, <1>6, <1>7, OpenMoves, Zenon

\* So does the start of a dial.
LEMMA SessionStarts ==
    ASSUME Typed, NEW k \in Handlers, Selects(k), \A j \in Handlers : Dials(j), \A s \in live : Alive(s),
           Strategy(k)
    PROVE  (\A j \in Handlers : Dials(j)') /\ (\A s \in live' : Alive(s)')
<1>1. UNCHANGED setup /\ UNCHANGED pool /\ h[k].pc = "strategy"
  BY Zenon DEF Strategy
<1>2. /\ Others(k) /\ h'[k].why = h[k].why /\ h'[k].stage = "warm"
      /\ h'[k].pc = CASE setup.hop = "none" -> "target"
                      [] setup.hop = "quic" -> "session"
                      [] setup.hop = "ssh"  -> "lock"
  BY StrategyMoves, Zenon
<1>3. setup.hop \in {"none", "quic", "ssh"} /\ lock # k /\ Dials(k)
  BY <1>1, SetupTyped, Zenon DEF Dials
<1>4. Dials(k)'
  <2>1. CASE setup.hop = "none"
    <3>1. h'[k].pc = "target"
      BY <1>2, <2>1, Zenon
    <3> QED
      BY <1>1, <1>3, <2>1, <3>1, Zenon DEF Dials, pool
  <2>2. CASE setup.hop = "quic"
    <3>1. h'[k].pc = "session"
      BY <1>2, <2>2, Zenon
    <3> QED
      BY <1>1, <1>2, <1>3, <2>2, <3>1, Zenon DEF Dials, pool
  <2>3. CASE setup.hop = "ssh"
    <3>1. h'[k].pc = "lock"
      BY <1>2, <2>3, Zenon
    <3> QED
      BY <1>1, <1>2, <1>3, <2>3, <3>1, Zenon DEF Dials, pool
  <2> QED
    BY <1>3, <2>1, <2>2, <2>3, Zenon
<1>5. ASSUME NEW j \in Handlers, j # k PROVE Dials(j)'
  <2>1. Same(j) /\ Dials(j)
    BY <1>2, <1>5, Zenon DEF Same, Others
  <2> QED
    BY <1>1, <2>1, DialsStay, Zenon DEF pool
<1>6. ASSUME NEW s \in live' PROVE Alive(s)'
  <2>1. Alive(s)
    BY <1>1, Zenon DEF pool
  <2>2. CASE s = cached
    BY <1>1, <2>2, Zenon DEF Alive, pool
  <2>3. CASE s # cached
    <3>1. PICK i \in Handlers : lock = i /\ h[i].pc = "open" /\ h[i].stage = "built" /\ h[i].ses = s
      BY <2>1, <2>3, Zenon DEF Alive
    <3>2. h'[i] = h[i] /\ setup.hop = "quic"
      BY <1>2, <1>3, <2>1, <2>3, <3>1, Zenon DEF Alive, Others
    <3> QED
      BY <1>1, <3>1, <3>2, Zenon DEF Alive, pool
  <2> QED
    BY <2>2, <2>3, Zenon
<1> QED
  BY <1>4, <1>5, <1>6, Zenon

\* Everybody else.
LEMMA SessionRest ==
    ASSUME Typed, NEW k \in Handlers, Selects(k), \A j \in Handlers : Dials(j), \A s \in live : Alive(s),
           \/ Request(k) \/ next(k) \/ FilterCount(k) \/ FilterTime(k) \/ Reaches(k)
           \/ MarkTime(k) \/ MarkCount(k) \/ ResetTime(k) \/ ResetCount(k) \/ Ends(k)
    PROVE  (\A j \in Handlers : Dials(j)') /\ (\A s \in live' : Alive(s)')
<1> DEFINE Off == {"idle", "next", "count", "time", "strategy", "target", "mark1", "mark2",
                   "reset1", "reset2", "relay", "failed"}
<1>1. UNCHANGED setup /\ UNCHANGED pool /\ h[k].pc \in Off
  BY Zenon DEF Request, next, FilterCount, FilterTime, Reaches, MarkTime, MarkCount, ResetTime, ResetCount, Ends,
         Outside, Rest
<1>2. /\ h'[k].pc \in Off /\ \A j \in Handlers : j # k => Same(j)
      /\ h'[k].why = h[k].why \/ h'[k].why \notin {"warm", "locked"}
  <2>1. CASE Request(k) \/ Ends(k)
    BY <2>1, RequestMoves, EndsMoves, Zenon DEF Same, Others
  <2>2. CASE next(k)
    BY <2>2, NextMoves, Zenon DEF Same, Others
  <2>3. CASE FilterCount(k)
    BY <2>3, CountMoves, Zenon DEF Same, Others
  <2>4. CASE FilterTime(k)
    BY <2>4, TimeMoves, Zenon DEF Same, Others
  <2>5. CASE Reaches(k)
    BY <2>5, ReachMoves, Zenon DEF Same, Others, Dialled
  <2>6. CASE MarkTime(k) \/ ResetCount(k)
    BY <2>6, MarkTimeMoves, ResetCountMoves, Zenon DEF Same, Others
  <2>7. CASE MarkCount(k)
    BY <2>7, MarkCountMoves, Zenon DEF Same, Others
  <2>8. CASE ResetTime(k)
    BY <2>8, ResetTimeMoves, Zenon DEF Same
  <2> QED
    BY <2>1, <2>2, <2>3, <2>4, <2>5, <2>6, <2>7, <2>8, Zenon
<1> QED
  BY <1>1, <1>2, NotDialling, Zenon

\* So do time, faults and probes: a session that dies cannot come back.
LEMMA SessionWorld ==
    ASSUME Typed, \A j \in Handlers : Dials(j), \A s \in live : Alive(s),
           Tick \/ Fault \/ (\E n \in Nodes : ProbeEnds(n)) \/ UNCHANGED vars
    PROVE  (\A j \in Handlers : Dials(j)') /\ (\A s \in live' : Alive(s)')
<1>1. UNCHANGED <<setup, cached, lock, h>> /\ live' \subseteq live
  BY Zenon DEF Tick, Fault, ProbeEnds, vars, pool
<1>2. ASSUME NEW j \in Handlers PROVE Dials(j)'
  <2>1. Same(j) /\ Dials(j)
    BY <1>1, Zenon DEF Same
  <2> QED
    BY <1>1, <2>1, DialsStay, Zenon
<1>3. ASSUME NEW s \in live' PROVE Alive(s)'
  <2>1. Alive(s)
    BY <1>1, Zenon
  <2> QED
    BY <1>1, <2>1, Zenon DEF Alive
<1> QED
  BY <1>2, <1>3, Zenon

\* Every step keeps one probe for each target and one session for the hop.
LEMMA SessionNext ==
    ASSUME Typed, MarksInv, SessionInv, [Next]_vars
    PROVE  SessionInv'
<1>1. (\A n \in Nodes : Probed(n)) /\ (\A j \in Handlers : Dials(j)) /\ (\A s \in live : Alive(s))
  BY Zenon DEF SessionInv
<1>2. ASSUME NEW k \in Handlers, Request(k) \/ Handles(k)
      PROVE  (\A j \in Handlers : Dials(j)') /\ (\A s \in live' : Alive(s)')
  <2>1. Selects(k)
    BY Zenon DEF MarksInv
  <2> QED
    BY <1>1, <1>2, <2>1, SessionLooks, SessionLocks, SessionBuilds, SessionOpens, SessionStarts, SessionRest, Zenon
       DEF Handles
<1>3. ASSUME NEW k \in Handlers, Request(k) \/ Handles(k) PROVE UNCHANGED setup /\ \A n \in Nodes : Probed(n)'
  <2>1. CASE Strategy(k)
    BY <1>1, <2>1, ProbeStarts, Zenon DEF Strategy
  <2>2. CASE ~Strategy(k)
    <3>1. UNCHANGED <<setup, now, results, probes>>
      BY <1>3, <2>2, Zenon DEF Handles, Request, next, FilterCount, FilterTime, live_session, Locks, connect, open_bi,
                        Reaches, MarkTime, MarkCount, ResetTime, ResetCount, Ends, Outside, Rest
    <3> QED
      BY <1>1, <3>1, ProbesStay, Zenon
  <2> QED
    BY <2>1, <2>2, Zenon
<1>4. ASSUME Tick \/ Fault \/ (\E n \in Nodes : ProbeEnds(n)) \/ UNCHANGED vars PROVE UNCHANGED setup
  BY <1>4, Zenon DEF Tick, Fault, ProbeEnds, vars
<1>5. ASSUME UNCHANGED setup PROVE Nodes' = Nodes
  BY <1>5, Zenon DEF Nodes
<1>6. \/ \E k \in Handlers : Request(k) \/ Handles(k)
      \/ Tick \/ Fault \/ (\E n \in Nodes : ProbeEnds(n)) \/ UNCHANGED vars
  BY Zenon DEF Next
<1> QED
  BY <1>1, <1>2, <1>3, <1>4, <1>5, <1>6, SessionWorld, ProbesWorld, Zenon DEF SessionInv

\* At the start there is neither.
LEMMA SessionInit ==
    ASSUME Init PROVE SessionInv
<1>1. \A j \in Handlers : j # None
  BY DialConstants, Zenon DEF None
<1>2. ASSUME NEW n \in Nodes PROVE Probed(n)
  BY <1>2 DEF Init, Probed
<1>3. ASSUME NEW k \in Handlers PROVE Dials(k)
  <2>1. h[k] = Idle /\ lock = None
    BY Zenon DEF Init
  <2>2. Idle.pc = "idle" /\ Idle.why = ""
    BY Zenon DEF Idle
  <2>3. h[k].pc = "idle" /\ h[k].why = "" /\ lock # k
    BY <1>1, <2>1, <2>2, Zenon
  <2> QED
    BY <2>3, Zenon DEF Dials
<1> QED
  BY <1>2, <1>3, Zenon DEF Init, SessionInv

\* Every step keeps the shape of the state.
LEMMA TypedNext ==
    ASSUME Typed, MarksInv, [Next]_vars
    PROVE  Typed'
<1>1. ASSUME NEW k \in Handlers, Request(k) \/ Handles(k) PROVE Typed'
  <2>1. Selects(k)
    BY Zenon DEF MarksInv
  <2> QED
    BY <1>1, <2>1, TypedHandles, Zenon
<1>2. \/ \E k \in Handlers : Request(k) \/ Handles(k)
      \/ Tick \/ Fault \/ (\E n \in Nodes : ProbeEnds(n)) \/ UNCHANGED vars
  BY Zenon DEF Next
<1> QED
  BY <1>1, <1>2, TypedWorld, Zenon

-----------------------------------------------------------------------------
(* The theorems.                                                           *)

\* The inductive invariant: the marks, the half-done marks and resets, the
\* selections, the probes and the sessions of all handlers together.
THEOREM DialInvariant == Spec => []IInv
<1>1. Init => IInv
  BY TypedInit, MarksInit, SessionInit, Zenon DEF IInv
<1>2. IInv /\ [Next]_vars => IInv'
  BY TypedNext, MarksNext, SessionNext, Zenon DEF IInv
<1> QED
  BY <1>1, <1>2, PTL DEF Spec

\* FailMarker and FailFilter: a target that had failed max_fails times when a
\* selection among several began, the last time within fail_timeout, is not
\* selected unless it succeeds meanwhile, and a selection comes up empty only if
\* every valid target failed within fail_timeout, however the two steps of marks,
\* resets and filters of any number of handlers interleave.  (A failure whose mark
\* overlaps a reset is not among those counted.)
THEOREM DeadTargetsAvoided == Spec => []MarksSound
<1>1. ASSUME IInv PROVE MarksSound
  <2>1. Typed /\ MarksInv /\ SessionInv
    BY <1>1, Zenon DEF IInv
  <2>2. ASSUME NEW k \in Handlers
        PROVE  /\ h[k].left \in 0 .. Retries /\ h[k].node \in Nodes \cup {0}
               /\ lock = k => h[k].pc \in {"session", "connect", "open"}
    <3>1. h[k].left \in Nat /\ Retries \in Nat
      BY <2>1, SetupTyped, Zenon DEF Typed, Handler
    <3>2. h[k].left <= Retries /\ h[k].node \in Nodes \cup {0}
      BY <2>1, Zenon DEF MarksInv, Selects, Aims, Tries
    <3>3. lock = k => h[k].pc \in {"session", "connect", "open"}
      BY <2>1, Zenon DEF SessionInv, Dials
    <3> QED
      BY <3>1, <3>2, <3>3
  <2>3. TypeOK
    BY <2>1, <2>2, Zenon DEF TypeOK, Typed
  <2>4. DeadAvoided /\ NotShutOut
    BY <2>1, Zenon DEF DeadAvoided, NotShutOut, MarksInv, Selects, Aims
  <2> QED
    BY <2>3, <2>4, Zenon DEF MarksSound
<1> QED
  BY <1>1, DialInvariant, PTL

\* FastestFilter, QuicDialer and SshForwardTransporter: however many handlers
\* select and dial at once, one probe of a target is under way and one session
\* to the hop is alive, and a QUIC dial does not fail on a stale session.
THEOREM DialsShare == Spec => []OneAtATime
<1>1. ASSUME IInv PROVE OneAtATime
  <2>1. Typed /\ SessionInv
    BY <1>1, Zenon DEF IInv
  <2>2. OneProbe
    BY <2>1, Zenon DEF OneProbe, SessionInv, Probed
  <2>3. Rebuilds
    BY <2>1, Zenon DEF Rebuilds, SessionInv, Dials
  <2>4. OneSession
    <3>1. \A s, t \in live : s = t
      <4> SUFFICES ASSUME NEW s \in live, NEW t \in live, s = cached, t # cached PROVE FALSE
        BY <2>1 DEF SessionInv, Alive
      <4>1. PICK k \in Handlers : lock = k /\ h[k].pc = "open" /\ h[k].stage = "built" /\ setup.hop = "quic"
        BY <2>1, Zenon DEF SessionInv, Alive
      <4>2. cached \notin live
        BY <2>1, <4>1, Zenon DEF SessionInv, Dials
      <4> QED
        BY <4>2, Zenon
    <3>2. CASE live = {}
      BY <3>2, FS_EmptySet DEF OneSession
    <3>3. CASE live # {}
      <4>1. PICK s \in live : live = {s}
        BY <3>1, <3>3, Zenon
      <4>2. Cardinality({s}) = 1
        BY FS_Singleton, Zenon
      <4> QED
        BY <4>1, <4>2 DEF OneSession
    <3> QED
      BY <3>2, <3>3, Zenon
  <2> QED
    BY <2>2, <2>3, <2>4, Zenon DEF OneAtATime
<1> QED
  BY <1>1, DialInvariant, PTL

==============================================================================
