--------------------------- MODULE MuxSession_proofs ---------------------------
(***************************************************************************)
(* A smux session as its users see it: the dialer that opens streams on    *)
(* it, and the queue of the frames they send.                              *)
(***************************************************************************)
EXTENDS MuxDialer, WriteQueue, FiniteSetTheorems, TLAPS

-----------------------------------------------------------------------------
(***************************************************************************)
(* Proofs about MuxDialer for any number of callers, sessions and stream   *)
(* ids: types, one usable session at a time, streams that keep their       *)
(* session, and unique stream ids until a session's ids run out.           *)
(***************************************************************************)

SessionTyped ==
    /\ cached \in Sessions \cup {None}
    /\ built \in 0 .. MaxSessions
    /\ up \in SUBSET (1 .. built)
    /\ failed \in SUBSET (1 .. built)
    /\ counter \in [Sessions -> StreamIds]
    /\ go_away \in SUBSET (1 .. built)
CallerTyped ==
    /\ pc \in [Callers -> {"idle", "wait", "open", "alloc", "push", "build", "stream"}]
    /\ phase \in [Callers -> {"warm", "recheck", "fresh"}]
    /\ ses \in [Callers -> Sessions \cup {None}]
    /\ sid \in [Callers -> StreamIds]
Typed == SessionTyped /\ CallerTyped /\ lock \in BOOLEAN

\* What a caller holds fits where it is: a session that exists while it opens
\* a stream or has one.
Holding == \A k \in Callers :
    pc[k] \in {"open", "alloc", "push", "stream"} => ses[k] \in 1 .. built

\* The start leads to a state of the right shape.
LEMMA InitTyped == DialerInit => Typed /\ Holding
<1>. SUFFICES ASSUME DialerInit PROVE Typed /\ Holding
  BY Zenon
<1>1. SessionTyped
  BY DialerConstants DEF DialerInit, SessionTyped, Sessions, StreamIds, None
<1>2. CallerTyped /\ Holding
  BY DialerConstants DEF DialerInit, CallerTyped, Holding, StreamIds, None
<1>3. lock \in BOOLEAN
  BY Zenon DEF DialerInit
<1>. QED BY <1>1, <1>2, <1>3, Zenon DEF Typed

\* The sessions only ever become fewer between builds.
LEMMA ReapShrinks == Reap => up' \subseteq up
BY Zenon DEF Reap

\* Giving up, waiting and building again leave the caller typed, and let go
\* of the session.
LEMMA RefusedTyped ==
    ASSUME NEW k \in Callers, CallerTyped, lock \in BOOLEAN, Refused(k) \/ GivesUp(k)
    PROVE  /\ pc' \in [Callers -> {"idle", "wait", "open", "alloc", "push", "build", "stream"}]
           /\ phase' \in [Callers -> {"warm", "recheck", "fresh"}]
           /\ ses' \in [Callers -> Sessions \cup {None}]
           /\ lock' \in BOOLEAN
           /\ \A j \in Callers : j # k => pc'[j] = pc[j] /\ ses'[j] = ses[j] /\ phase'[j] = phase[j]
           /\ pc'[k] \in {"idle", "wait", "build"}
<1>1. pc' \in [Callers -> {"idle", "wait", "open", "alloc", "push", "build", "stream"}]
  BY Zenon DEF CallerTyped, Refused, GivesUp, CallerGoto
<1>2. phase' \in [Callers -> {"warm", "recheck", "fresh"}]
  BY Zenon DEF CallerTyped, Refused, GivesUp, Unlock
<1>3. ses' \in [Callers -> Sessions \cup {None}]
  BY Zenon DEF CallerTyped, Refused, GivesUp
<1>4. lock' \in BOOLEAN
  BY Zenon DEF Refused, GivesUp, Unlock
<1>5. \A j \in Callers : j # k => pc'[j] = pc[j] /\ ses'[j] = ses[j] /\ phase'[j] = phase[j]
  BY Zenon DEF CallerTyped, Refused, GivesUp, Unlock, CallerGoto
<1>6. pc'[k] \in {"idle", "wait", "build"}
  BY Zenon DEF CallerTyped, Refused, GivesUp, CallerGoto
<1>. QED BY <1>1, <1>2, <1>3, <1>4, <1>5, <1>6, Zenon

\* Every step of a caller keeps the types.
LEMMA StepTyped == ASSUME NEW k \in Callers, Typed, Holding, Step(k) PROVE Typed' /\ Holding'
<1>. USE DialerConstants
<1>0. /\ cached \in Sessions \cup {None} /\ built \in 0 .. MaxSessions /\ lock \in BOOLEAN
      /\ up \in SUBSET (1 .. built) /\ CallerTyped
      /\ Live \in Sessions \cup {None}
      /\ Live # None => Live \in 1 .. built
  BY Zenon DEF Typed, SessionTyped, Live
<1>1. CASE Dial(k)
  <2>1. SessionTyped'
    BY <1>0, <1>1, ReapShrinks, Zenon DEF Dial, Typed, SessionTyped
  <2>2. CallerTyped' /\ Holding'
    BY <1>0, <1>1, Zenon DEF Dial, CallerGoto, CallerTyped, Holding
  <2>. QED BY <1>0, <1>1, <2>1, <2>2, Zenon DEF Dial, Typed
<1>2. CASE Acquire(k)
  <2>1. SessionTyped'
    BY <1>0, <1>2, ReapShrinks, Zenon DEF Acquire, Typed, SessionTyped
  <2>2. CallerTyped' /\ Holding'
    BY <1>0, <1>2, Zenon DEF Acquire, CallerGoto, CallerTyped, Holding
  <2>3. lock' \in BOOLEAN
    BY <1>2, Zenon DEF Acquire
  <2>. QED BY <2>1, <2>2, <2>3, Zenon DEF Typed
<1>3. CASE OpenCheck(k)
  <2>1. SessionTyped'
    BY <1>3, ReapShrinks, Zenon DEF OpenCheck, Typed, SessionTyped
  <2>2. CASE CallerGoto(k, "alloc") /\ UNCHANGED <<lock, up, phase, ses>>
    BY <1>0, <1>3, <2>1, <2>2, Zenon DEF OpenCheck, CallerGoto, Typed, CallerTyped, Holding
  <2>3. CASE Refused(k)
    BY <1>0, <1>3, <2>1, <2>3, RefusedTyped, Zenon DEF OpenCheck, Typed, CallerTyped, Holding
  <2>. QED BY <1>3, <2>2, <2>3, Zenon DEF OpenCheck
<1>4. CASE Alloc(k)
  <2>0. /\ pc[k] = "alloc" /\ ses[k] \in 1 .. built /\ ses[k] \in Sessions
        /\ counter[ses[k]] \in StreamIds
    BY <1>4 DEF Alloc, Holding, Typed, SessionTyped, Sessions
  <2>1. (counter[ses[k]] + 2) % Modulus \in StreamIds
    BY <2>0 DEF StreamIds
  <2>2. counter' \in [Sessions -> StreamIds]
    BY <1>4, <2>0, <2>1, Zenon DEF Alloc, next_id, Typed, SessionTyped
  <2>3. SessionTyped'
    BY <1>4, <2>0, <2>2, ReapShrinks, Zenon DEF Alloc, next_id, Typed, SessionTyped
  <2>4. CASE /\ sid' = [sid EXCEPT ![k] = (counter[ses[k]] + 2) % Modulus]
             /\ CallerGoto(k, "push") /\ UNCHANGED <<lock, phase, ses>>
    BY <1>0, <1>4, <2>0, <2>1, <2>3, <2>4, Zenon DEF Alloc, CallerGoto, Typed, CallerTyped, Holding
  <2>5. CASE Refused(k) /\ UNCHANGED sid
    BY <1>0, <1>4, <2>3, <2>5, RefusedTyped, Zenon DEF Alloc, Typed, CallerTyped, Holding
  <2>. QED BY <1>4, <2>4, <2>5, Zenon DEF Alloc, next_id
<1>5. CASE OpenPush(k)
  <2>0. pc[k] = "push" /\ ses[k] \in 1 .. built /\ ses[k] \in Sessions /\ 0 \in StreamIds
    BY <1>5 DEF OpenPush, Holding, Typed, SessionTyped, Sessions, StreamIds
  <2>1. SessionTyped'
    BY <1>0, <1>5, <2>0, ReapShrinks, Zenon DEF OpenPush, Typed, SessionTyped
  <2>2. CASE CallerGoto(k, "stream") /\ Unlock(k) /\ UNCHANGED <<ses, sid>>
    <3>1. lock' \in BOOLEAN
      BY <2>2, Zenon DEF Unlock
    <3>. QED BY <1>0, <1>5, <2>0, <2>1, <2>2, <3>1, Zenon DEF OpenPush, CallerGoto, Unlock, Typed, CallerTyped, Holding
  <2>3. CASE Refused(k) /\ sid' = [sid EXCEPT ![k] = 0]
    BY <1>0, <1>5, <2>0, <2>1, <2>3, RefusedTyped, Zenon DEF OpenPush, Typed, CallerTyped, Holding
  <2>. QED BY <1>5, <2>2, <2>3, Zenon DEF OpenPush
<1>6. CASE BuildDone(k)
  <2>1. built' = built + 1 /\ built + 1 \in Sessions /\ built \in Nat
    BY <1>0, <1>6 DEF BuildDone, Sessions
  <2>2. SessionTyped'
    BY <1>6, <2>1 DEF BuildDone, Typed, SessionTyped, Sessions
  <2>3. CallerTyped' /\ Holding'
    BY <1>0, <1>6, <2>1 DEF BuildDone, CallerGoto, CallerTyped, Holding
  <2>. QED BY <1>0, <1>6, <2>2, <2>3, Zenon DEF BuildDone, Typed
<1>7. CASE BuildFails(k)
  BY <1>0, <1>7, RefusedTyped, Zenon DEF BuildFails, session, Typed, SessionTyped, CallerTyped, Holding
<1>8. CASE DropStream(k)
  <2>1. SessionTyped'
    BY <1>8, ReapShrinks, Zenon DEF DropStream, dialer, Typed, SessionTyped
  <2>2. CallerTyped' /\ Holding' /\ lock' \in BOOLEAN
    BY <1>0, <1>8 DEF DropStream, dialer, CallerGoto, CallerTyped, Holding, StreamIds
  <2>. QED BY <2>1, <2>2, Zenon DEF Typed
<1>. QED BY <1>1, <1>2, <1>3, <1>4, <1>5, <1>6, <1>7, <1>8, Zenon DEF Step

\* The failure of a session keeps the shape.
LEMMA FailsTyped == ASSUME NEW s \in Sessions, Typed, Holding, Fails(s) PROVE Typed' /\ Holding'
BY Zenon DEF Fails, dialer, caller, Typed, SessionTyped, CallerTyped, Holding

-----------------------------------------------------------------------------
(* One usable session.                                                     *)

\* build_lock is held by at most one dial, and where each dial may be.
Mutex ==
    /\ \A k \in Callers : phase[k] # "warm" => lock
    /\ \A j, k \in Callers : phase[j] # "warm" /\ phase[k] # "warm" => j = k
    /\ \A k \in Callers : phase[k] # "warm" => pc[k] \in {"open", "alloc", "push", "build"}
    /\ \A k \in Callers : pc[k] = "build" => phase[k] = "recheck"

\* A usable session is cached, or was just built by the holder of the lock.
IdsAccounted == \A s \in up \ go_away :
    s = cached \/ \E k \in Callers : phase[k] = "fresh" /\ ses[k] = s

\* A dial that builds, or has built, found no usable session in the cache.
SawNone == \A k \in Callers :
    phase[k] = "fresh" \/ pc[k] = "build" => cached \notin up \ go_away

\* Under the lock, the session met in the cache stays there until evicted.
StillCached == \A k \in Callers :
    phase[k] = "recheck" /\ pc[k] \in {"open", "alloc", "push"} => cached \in {ses[k], None}

CachedBuilt == cached \in (1 .. built) \cup {None}

Usable == Mutex /\ IdsAccounted /\ SawNone /\ StillCached /\ CachedBuilt

\* At the start no session is usable.
LEMMA InitUsable == DialerInit => Usable
BY Zenon DEF DialerInit, Usable, Mutex, IdsAccounted, SawNone, StillCached, CachedBuilt, None

\* Giving up on a session that is not usable keeps the account.
LEMMA RefusedUsable ==
    ASSUME NEW k \in Callers, Typed, Holding, Usable, Refused(k), UNCHANGED <<cached, built>>,
           pc[k] \in {"open", "alloc", "push"},
           go_away \subseteq go_away', up' \subseteq up, ses[k] \notin up' \ go_away'
    PROVE  Usable'
<1>0. /\ phase[k] = "fresh" => phase'[k] = "warm" /\ pc'[k] = "idle" /\ lock' = FALSE
      /\ phase[k] # "fresh" => phase' = phase /\ lock' = lock
      /\ phase[k] = "warm" => pc'[k] = "wait"
      /\ phase[k] = "recheck" => pc'[k] = "build"
      /\ \A j \in Callers : j # k => pc'[j] = pc[j] /\ ses'[j] = ses[j] /\ phase'[j] = phase[j]
  BY Zenon DEF Refused, GivesUp, Unlock, CallerGoto, Typed, CallerTyped
<1>1. Mutex'
  <2>1. CASE phase[k] = "fresh"
    BY <1>0, <2>1, Zenon DEF Usable, Mutex
  <2>2. CASE phase[k] # "fresh"
    BY <1>0, <2>2 DEF Usable, Mutex, Typed, CallerTyped
  <2>. QED BY <2>1, <2>2, Zenon
<1>2. IdsAccounted'
  BY <1>0 DEF Usable, IdsAccounted
<1>3. SawNone'
  <2>. SUFFICES ASSUME NEW j \in Callers, phase'[j] = "fresh" \/ pc'[j] = "build"
                PROVE  cached \notin up' \ go_away'
    BY Zenon DEF SawNone
  <2>1. CASE j # k
    BY <1>0, <2>1, Zenon DEF Usable, SawNone
  <2>2. CASE j = k
    <3>1. phase[k] = "recheck"
      BY <1>0, <2>2, Zenon DEF Typed, CallerTyped
    <3>2. cached \in {ses[k], None}
      BY <3>1, Zenon DEF Usable, StillCached
    <3>3. None \notin up
      BY DEF Typed, SessionTyped, None
    <3>. QED BY <3>2, <3>3, Zenon
  <2>. QED BY <2>1, <2>2, Zenon
<1>4. StillCached' /\ CachedBuilt'
  BY <1>0, Zenon DEF Usable, StillCached, CachedBuilt, Mutex
<1>. QED BY <1>1, <1>2, <1>3, <1>4, Zenon DEF Usable

\* The steps of a caller keep one session usable at most.
LEMMA StepUsable == ASSUME NEW k \in Callers, Typed, Holding, Usable, Step(k) PROVE Usable'
<1>0. /\ CallerTyped /\ SessionTyped
      /\ None \notin up
      /\ Live \in {cached, None}
      /\ Live # None => Live \in up
      /\ Live # cached => cached \notin up
  BY DEF Typed, SessionTyped, Live, None
<1>1. CASE Dial(k)
  <2>0. /\ pc[k] = "idle" /\ cached' = Live
        /\ ses' = [ses EXCEPT ![k] = Live]
        /\ pc' = [pc EXCEPT ![k] = IF Live # None THEN "open" ELSE "wait"]
        /\ up' \subseteq up /\ UNCHANGED <<lock, built, go_away, phase>>
    BY <1>1, ReapShrinks, Zenon DEF Dial, CallerGoto
  <2>1. phase[k] = "warm"
    BY <2>0, Zenon DEF Usable, Mutex
  <2>2. Mutex'
    BY <1>0, <2>0, <2>1 DEF Usable, Mutex, CallerTyped
  <2>3. IdsAccounted'
    BY <1>0, <2>0, <2>1, Zenon DEF Usable, IdsAccounted, CallerTyped
  <2>4. SawNone'
    <3>1. \A j \in Callers : phase'[j] = "fresh" \/ pc'[j] = "build"
                               => phase[j] = "fresh" \/ pc[j] = "build"
      BY <1>0, <2>0, <2>1, Zenon DEF CallerTyped
    <3>2. (cached \notin up \ go_away) => (Live \notin up' \ go_away')
      BY <1>0, <2>0, Zenon
    <3>. QED BY <2>0, <3>1, <3>2, Zenon DEF Usable, SawNone
  <2>5. StillCached'
    <3>1. \A j \in Callers : phase'[j] = "recheck" =>
             phase[j] = "recheck" /\ pc'[j] = pc[j] /\ ses'[j] = ses[j]
      BY <1>0, <2>0, <2>1, Zenon DEF CallerTyped
    <3>. QED BY <1>0, <2>0, <3>1, Zenon DEF Usable, StillCached
  <2>6. CachedBuilt'
    BY <1>0, <2>0, Zenon DEF Usable, CachedBuilt
  <2>. QED BY <2>2, <2>3, <2>4, <2>5, <2>6, Zenon DEF Usable
<1>2. CASE Acquire(k)
  <2>0. /\ pc[k] = "wait" /\ cached' = Live /\ ~lock /\ lock'
        /\ ses' = [ses EXCEPT ![k] = Live]
        /\ pc' = [pc EXCEPT ![k] = IF Live # None THEN "open" ELSE "build"]
        /\ phase' = [phase EXCEPT ![k] = "recheck"]
        /\ up' \subseteq up /\ UNCHANGED <<built, go_away>>
    BY <1>2, ReapShrinks, Zenon DEF Acquire, CallerGoto
  <2>1. \A j \in Callers : phase[j] = "warm"
    BY <2>0, Zenon DEF Usable, Mutex
  <2>2. Mutex'
    BY <1>0, <2>0, <2>1, Zenon DEF Usable, Mutex, CallerTyped
  <2>3. IdsAccounted'
    BY <1>0, <2>0, <2>1, Zenon DEF Usable, IdsAccounted, CallerTyped
  <2>4. SawNone'
    <3>1. \A j \in Callers : phase'[j] # "fresh" /\ (pc'[j] = "build" => j = k /\ Live = None)
      BY <1>0, <2>0, <2>1, Zenon DEF Usable, Mutex, CallerTyped
    <3>. QED BY <1>0, <2>0, <3>1, Zenon DEF SawNone
  <2>5. StillCached'
    <3>1. \A j \in Callers : phase'[j] = "recheck" => ses'[j] = Live
      BY <1>0, <2>0, <2>1, Zenon DEF CallerTyped
    <3>. QED BY <2>0, <3>1, Zenon DEF StillCached
  <2>6. CachedBuilt'
    BY <1>0, <2>0, Zenon DEF Usable, CachedBuilt
  <2>. QED BY <2>2, <2>3, <2>4, <2>5, <2>6, Zenon DEF Usable
<1>3. CASE OpenCheck(k)
  <2>0. pc[k] = "open" /\ UNCHANGED <<cached, built, go_away>>
    BY <1>3, Zenon DEF OpenCheck
  <2>1. CASE CallerGoto(k, "alloc") /\ UNCHANGED <<lock, up, phase, ses>>
    BY <1>0, <2>0, <2>1 DEF CallerGoto, Usable, Mutex, IdsAccounted, SawNone, StillCached, CachedBuilt, CallerTyped
  <2>2. CASE ses[k] \notin up \ go_away /\ Refused(k) /\ Reap
    BY <2>0, <2>2, RefusedUsable, ReapShrinks, Zenon
  <2>. QED BY <1>3, <2>1, <2>2, Zenon DEF OpenCheck
<1>4. CASE Alloc(k)
  <2>0. pc[k] = "alloc" /\ UNCHANGED <<cached, built>>
    BY <1>4, Zenon DEF Alloc
  <2>1. CASE CallerGoto(k, "push") /\ UNCHANGED <<lock, up, go_away, phase, ses>>
    BY <1>0, <2>0, <2>1 DEF CallerGoto, Usable, Mutex, IdsAccounted, SawNone, StillCached, CachedBuilt, CallerTyped
  <2>2. CASE go_away' = go_away \cup {ses[k]} /\ Refused(k) /\ Reap
    BY <2>0, <2>2, RefusedUsable, ReapShrinks, Zenon
  <2>. QED BY <1>4, <2>1, <2>2, Zenon DEF Alloc, next_id
<1>5. CASE OpenPush(k)
  <2>0. pc[k] = "push" /\ UNCHANGED <<built, go_away>> /\ up' \subseteq up
    BY <1>5, ReapShrinks, Zenon DEF OpenPush
  <2>1. CASE /\ CallerGoto(k, "stream") /\ Unlock(k) /\ ses' = ses
             /\ cached' = IF phase[k] = "fresh" THEN ses[k] ELSE cached
    <3>0. /\ pc' = [pc EXCEPT ![k] = "stream"]
          /\ phase' = [phase EXCEPT ![k] = "warm"]
          /\ lock' = (lock /\ phase[k] = "warm")
      BY <2>1, Zenon DEF CallerGoto, Unlock
    <3>1. Mutex'
      <4>1. \A j \in Callers : phase'[j] # "warm" => j # k /\ phase[j] # "warm" /\ pc'[j] = pc[j]
        BY <1>0, <3>0, Zenon DEF CallerTyped
      <4>2. \A j \in Callers : phase'[j] # "warm" => phase[k] = "warm" /\ lock
        BY <4>1, Zenon DEF Usable, Mutex
      <4>3. \A j \in Callers : pc'[j] = "build" => phase'[j] = "recheck"
        BY <1>0, <3>0, Zenon DEF Usable, Mutex, CallerTyped
      <4>. QED BY <3>0, <4>1, <4>2, <4>3, Zenon DEF Usable, Mutex
    <3>2. CASE phase[k] = "fresh"
      <4>1. \A j \in Callers : phase'[j] = "warm" /\ pc'[j] # "build"
        BY <1>0, <3>0, <3>2, Zenon DEF Usable, Mutex, CallerTyped
      <4>2. IdsAccounted'
        <5>1. \A s \in up \ go_away : s = ses[k]
          BY <3>2, Zenon DEF Usable, IdsAccounted, SawNone, Mutex
        <5>. QED BY <2>0, <2>1, <3>2, <5>1, Zenon DEF IdsAccounted
      <4>3. SawNone' /\ StillCached'
        BY <4>1, Zenon DEF SawNone, StillCached
      <4>4. CachedBuilt'
        BY <2>0, <2>1, <3>2, Zenon DEF CachedBuilt, Holding
      <4>. QED BY <3>1, <4>2, <4>3, <4>4, Zenon DEF Usable
    <3>3. CASE phase[k] # "fresh"
      <4>1. IdsAccounted'
        BY <1>0, <2>0, <2>1, <3>0, <3>3, Zenon DEF Usable, IdsAccounted, CallerTyped
      <4>2. SawNone' /\ StillCached' /\ CachedBuilt'
        BY <1>0, <2>0, <2>1, <3>0, <3>3, Zenon DEF Usable, SawNone, StillCached, CachedBuilt, CallerTyped
      <4>. QED BY <3>1, <4>1, <4>2, Zenon DEF Usable
    <3>. QED BY <3>2, <3>3, Zenon
  <2>2. CASE ses[k] \notin up /\ Refused(k) /\ cached' = cached
    BY <2>0, <2>2, RefusedUsable, Zenon
  <2>. QED BY <1>5, <2>1, <2>2, Zenon DEF OpenPush
<1>6. CASE BuildDone(k)
  <2>0. /\ pc[k] = "build" /\ built' = built + 1 /\ up' = up \cup {built + 1}
        /\ ses' = [ses EXCEPT ![k] = built + 1]
        /\ phase' = [phase EXCEPT ![k] = "fresh"]
        /\ pc' = [pc EXCEPT ![k] = "open"]
        /\ UNCHANGED <<cached, lock, go_away>>
        /\ built \in Nat
    BY <1>0, <1>6, DialerConstants DEF BuildDone, CallerGoto, SessionTyped
  <2>1. phase[k] = "recheck" /\ \A j \in Callers : j # k => phase[j] = "warm"
    BY <2>0, Zenon DEF Usable, Mutex
  <2>2. Mutex'
    BY <1>0, <2>0, <2>1, Zenon DEF Usable, Mutex, CallerTyped
  <2>3. IdsAccounted'
    BY <1>0, <2>0, <2>1, Zenon DEF Usable, IdsAccounted, CallerTyped
  <2>4. cached # built + 1
    BY <2>0 DEF Usable, CachedBuilt, None
  <2>5. SawNone'
    BY <1>0, <2>0, <2>4, Zenon DEF Usable, SawNone
  <2>6. StillCached' /\ CachedBuilt'
    BY <1>0, <2>0, <2>1 DEF Usable, StillCached, CachedBuilt, CallerTyped
  <2>. QED BY <2>2, <2>3, <2>5, <2>6, Zenon DEF Usable
<1>7. CASE BuildFails(k)
  <2>0. /\ pc[k] \in {"wait", "build"} /\ UNCHANGED <<cached, built, up, go_away>>
        /\ pc' = [pc EXCEPT ![k] = "idle"]
        /\ phase' = [phase EXCEPT ![k] = "warm"]
        /\ ses' = [ses EXCEPT ![k] = None]
        /\ lock' = (lock /\ phase[k] = "warm")
    BY <1>7, Zenon DEF BuildFails, GivesUp, CallerGoto, Unlock, session
  <2>1. phase[k] # "fresh"
    BY <2>0, Zenon DEF Usable, Mutex
  <2>2. Mutex'
    <3>1. \A j \in Callers : phase'[j] # "warm" => j # k /\ phase[j] # "warm" /\ pc'[j] = pc[j]
      BY <1>0, <2>0, Zenon DEF CallerTyped
    <3>2. \A j \in Callers : phase'[j] # "warm" => phase[k] = "warm" /\ lock
      BY <3>1, Zenon DEF Usable, Mutex
    <3>3. \A j \in Callers : pc'[j] = "build" => phase'[j] = "recheck"
      BY <1>0, <2>0, Zenon DEF Usable, Mutex, CallerTyped
    <3>. QED BY <2>0, <3>1, <3>2, <3>3, Zenon DEF Usable, Mutex
  <2>3. IdsAccounted'
    BY <1>0, <2>0, <2>1, Zenon DEF Usable, IdsAccounted, CallerTyped
  <2>4. SawNone' /\ StillCached' /\ CachedBuilt'
    BY <1>0, <2>0, Zenon DEF Usable, SawNone, StillCached, CachedBuilt, CallerTyped
  <2>. QED BY <2>2, <2>3, <2>4, Zenon DEF Usable
<1>8. CASE DropStream(k)
  <2>0. /\ pc[k] = "stream" /\ UNCHANGED <<cached, built, lock, go_away, phase>>
        /\ pc' = [pc EXCEPT ![k] = "idle"] /\ ses' = [ses EXCEPT ![k] = None]
        /\ up' \subseteq up
    BY <1>8, ReapShrinks, Zenon DEF DropStream, CallerGoto, dialer
  <2>1. phase[k] = "warm"
    BY <2>0, Zenon DEF Usable, Mutex
  <2>. QED BY <1>0, <2>0, <2>1 DEF Usable, Mutex, IdsAccounted, SawNone, StillCached, CachedBuilt, CallerTyped
<1>. QED BY <1>1, <1>2, <1>3, <1>4, <1>5, <1>6, <1>7, <1>8, Zenon DEF Step

\* So does the failure of a session.
LEMMA FailsUsable == ASSUME NEW s \in Sessions, Typed, Usable, Fails(s) PROVE Usable'
BY Zenon DEF Fails, dialer, caller, Usable, Mutex, IdsAccounted, SawNone, StillCached, CachedBuilt

\* The invariant implies that one session is usable at most.
LEMMA UsableIsOne == Usable => OneUsableSession
BY DEF Usable, IdsAccounted, SawNone, Mutex, OneUsableSession

-----------------------------------------------------------------------------
(* Streams and their ids.                                                  *)

\* The session a caller goes on holding is not reaped.
LEMMA ReapKeeps ==
    ASSUME Reap, NEW k \in Callers, ses[k] \in up \cup failed, ses'[k] = ses[k], failed' = failed
    PROVE  ses'[k] \in up' \cup failed'
BY Zenon DEF Reap, Held

\* A stream stays with its session.
LEMMA StepKeeps ==
    ASSUME NEW k \in Callers, Typed, Holding, StreamsKeepSession, Step(k)
    PROVE  StreamsKeepSession'
<1>. SUFFICES ASSUME NEW j \in Callers, pc'[j] = "stream" PROVE ses'[j] \in up' \cup failed'
  BY Zenon DEF StreamsKeepSession
<1>0. CallerTyped
  BY Zenon DEF Typed
<1>1. CASE Dial(k)
  BY <1>0, <1>1, ReapKeeps, Zenon DEF Dial, CallerGoto, CallerTyped, StreamsKeepSession
<1>2. CASE Acquire(k)
  BY <1>0, <1>2, ReapKeeps, Zenon DEF Acquire, CallerGoto, CallerTyped, StreamsKeepSession
<1>3. CASE OpenCheck(k)
  <2>1. CASE CallerGoto(k, "alloc") /\ UNCHANGED <<lock, up, phase, ses>>
    BY <1>0, <1>3, <2>1, Zenon DEF OpenCheck, CallerGoto, CallerTyped, StreamsKeepSession
  <2>2. CASE Refused(k) /\ Reap
    <3>1. j # k /\ pc[j] = "stream" /\ ses'[j] = ses[j]
      BY <1>0, <2>2, Zenon DEF Refused, GivesUp, CallerGoto, CallerTyped
    <3>. QED BY <1>3, <2>2, <3>1, ReapKeeps, Zenon DEF OpenCheck, StreamsKeepSession
  <2>. QED BY <1>3, <2>1, <2>2, Zenon DEF OpenCheck
<1>4. CASE Alloc(k)
  <2>1. CASE CallerGoto(k, "push") /\ UNCHANGED <<lock, up, go_away, phase, ses>>
    BY <1>0, <1>4, <2>1, Zenon DEF Alloc, CallerGoto, CallerTyped, StreamsKeepSession
  <2>2. CASE Refused(k) /\ Reap
    <3>1. j # k /\ pc[j] = "stream" /\ ses'[j] = ses[j]
      BY <1>0, <2>2, Zenon DEF Refused, GivesUp, CallerGoto, CallerTyped
    <3>. QED BY <1>4, <2>2, <3>1, ReapKeeps, Zenon DEF Alloc, StreamsKeepSession
  <2>. QED BY <1>4, <2>1, <2>2, Zenon DEF Alloc, next_id
<1>5. CASE OpenPush(k)
  <2>1. CASE ses[k] \in up /\ CallerGoto(k, "stream") /\ ses' = ses
    BY <1>0, <1>5, <2>1, ReapKeeps, Zenon DEF OpenPush, CallerGoto, CallerTyped, StreamsKeepSession
  <2>2. CASE Refused(k)
    <3>1. j # k /\ pc[j] = "stream" /\ ses'[j] = ses[j]
      BY <1>0, <2>2, Zenon DEF Refused, GivesUp, CallerGoto, CallerTyped
    <3>. QED BY <1>5, <2>2, <3>1, ReapKeeps, Zenon DEF OpenPush, StreamsKeepSession
  <2>. QED BY <1>5, <2>1, <2>2, Zenon DEF OpenPush
<1>6. CASE BuildDone(k)
  BY <1>0, <1>6, Zenon DEF BuildDone, CallerGoto, CallerTyped, StreamsKeepSession
<1>7. CASE BuildFails(k)
  BY <1>0, <1>7, Zenon DEF BuildFails, GivesUp, CallerGoto, CallerTyped, StreamsKeepSession, session
<1>8. CASE DropStream(k)
  BY <1>0, <1>8, ReapKeeps, Zenon DEF DropStream, CallerGoto, CallerTyped, StreamsKeepSession
<1>. QED BY <1>1, <1>2, <1>3, <1>4, <1>5, <1>6, <1>7, <1>8, Zenon DEF Step

\* The counter of a session is odd, and no id in use is above it until the
\* session has run out of ids.
Odd == \A s \in Sessions : counter[s] % 2 = 1
HasId(k) == pc[k] \in {"push", "stream"} /\ ses[k] \notin go_away
Below == \A k \in Callers : HasId(k) => sid[k] =< counter[ses[k]]
Ids == Odd /\ Below /\ UniqueUntilExhausted

\* Adding 2 to an odd counter either stays in range or wraps to 1.
LEMMA NextId ==
    ASSUME NEW c \in StreamIds, c % 2 = 1
    PROVE  LET id == (c + 2) % Modulus
           IN  id % 2 = 1 /\ (id = c + 2 \/ id = 1)
<1>. USE DialerConstants DEF StreamIds
<1>1. c \in Nat /\ c < Modulus /\ c + 2 # Modulus /\ c + 2 =< Modulus + 1
  <2>1. (c + 2) % 2 = 1
    OBVIOUS
  <2>. QED BY <2>1
<1>2. CASE c + 2 < Modulus
  <2>1. (c + 2) % Modulus = c + 2
    BY <1>1, <1>2
  <2>. QED BY <2>1
<1>3. CASE c + 2 = Modulus + 1
  <2>1. (Modulus + 1) % Modulus = 1
    OBVIOUS
  <2>. QED BY <1>3, <2>1
<1>. QED BY <1>1, <1>2, <1>3

\* At the start no stream is numbered.
LEMMA InitIds == DialerInit => Ids
BY DEF DialerInit, Ids, Odd, Below, HasId, UniqueUntilExhausted

\* Ids stay as they are when no caller gets one.
LEMMA SameIds ==
    ASSUME Ids, counter' = counter, go_away \subseteq go_away',
           \A j \in Callers : HasId(j)' => HasId(j) /\ ses'[j] = ses[j] /\ sid'[j] = sid[j]
    PROVE  Ids'
BY Zenon DEF Ids, Odd, Below, HasId, UniqueUntilExhausted

\* Every step keeps the numbers of streams apart.
LEMMA StepIds == ASSUME NEW k \in Callers, Typed, Holding, Ids, Step(k) PROVE Ids'
<1>0. CallerTyped
  BY Zenon DEF Typed
<1>1. CASE Dial(k)
  BY <1>0, <1>1, SameIds, Zenon DEF Dial, CallerGoto, CallerTyped, HasId
<1>2. CASE Acquire(k)
  BY <1>0, <1>2, SameIds, Zenon DEF Acquire, CallerGoto, CallerTyped, HasId
<1>3. CASE OpenCheck(k)
  <2>1. CASE CallerGoto(k, "alloc") /\ UNCHANGED <<lock, up, phase, ses>>
    BY <1>0, <1>3, <2>1, SameIds, Zenon DEF OpenCheck, CallerGoto, CallerTyped, HasId
  <2>2. CASE Refused(k)
    BY <1>0, <1>3, <2>2, SameIds, Zenon DEF OpenCheck, Refused, GivesUp, CallerGoto, CallerTyped, HasId
  <2>. QED BY <1>3, <2>1, <2>2, Zenon DEF OpenCheck
<1>4. CASE Alloc(k)
  <2>. DEFINE s == ses[k]
              id == (counter[s] + 2) % Modulus
  <2>0. /\ s \in Sessions /\ counter[s] \in StreamIds /\ counter[s] % 2 = 1
        /\ counter' = [counter EXCEPT ![s] = id]
        /\ counter \in [Sessions -> StreamIds]
    <3>1. pc[k] = "alloc" /\ built \in 0 .. MaxSessions /\ counter \in [Sessions -> StreamIds]
      BY <1>4, Zenon DEF Alloc, Typed, SessionTyped
    <3>2. s \in Sessions
      BY <3>1, DialerConstants DEF Holding, Sessions
    <3>. QED BY <1>4, <3>1, <3>2, Zenon DEF Alloc, next_id, Ids, Odd
  <2>1. id % 2 = 1 /\ (id = counter[s] + 2 \/ id = 1)
    BY <2>0, NextId, Zenon
  <2>. HIDE DEF s
  <2>2. Odd'
    <3>. HIDE DEF id
    <3>. QED BY <2>0, <2>1, Zenon DEF Ids, Odd
  <2>3. CASE /\ id # id % 2 /\ sid' = [sid EXCEPT ![k] = id]
             /\ CallerGoto(k, "push") /\ UNCHANGED <<go_away, ses>>
    <3>1. id = counter[s] + 2
      BY <2>1, <2>3, Zenon
    <3>. HIDE DEF id
    <3>2. /\ \A j \in Callers : j # k /\ HasId(j)' => HasId(j) /\ sid'[j] = sid[j]
          /\ sid'[k] = id /\ counter'[s] = id /\ s = ses[k]
          /\ \A t \in Sessions : t # s => counter'[t] = counter[t]
      BY <1>0, <2>0, <2>3, Zenon DEF CallerGoto, CallerTyped, HasId, s
    <3>3. \A j \in Callers : sid[j] \in Int /\ counter[s] \in Int
      BY <1>0, <2>0, DialerConstants DEF CallerTyped, StreamIds
    <3>4. \A j \in Callers : HasId(j) => ses[j] \in Sessions
      <4>1. built \in 0 .. MaxSessions
        BY Zenon DEF Typed, SessionTyped
      <4>. QED BY <4>1, DialerConstants DEF HasId, Holding, Sessions
    <3>5. Below'
      <4>. SUFFICES ASSUME NEW j \in Callers, HasId(j)' PROVE sid'[j] =< counter'[ses[j]]
        BY <2>3, Zenon DEF Below
      <4>1. CASE j = k
        BY <3>1, <3>2, <3>3, <4>1
      <4>2. CASE j # k /\ ses[j] = s
        <5>1. sid[j] =< counter[s]
          BY <3>2, <4>2, Zenon DEF Ids, Below
        <5>. QED BY <3>1, <3>2, <3>3, <4>2, <5>1
      <4>3. CASE j # k /\ ses[j] # s
        BY <3>2, <3>4, <4>3, Zenon DEF Ids, Below
      <4>. QED BY <4>1, <4>2, <4>3, Zenon
    <3>6. UniqueUntilExhausted'
      <4>1. \A j \in Callers : j # k /\ HasId(j)' /\ ses[j] = s => sid'[j] # id
        <5>. SUFFICES ASSUME NEW j \in Callers, j # k, HasId(j)', ses[j] = s PROVE sid'[j] # id
          BY Zenon
        <5>1. sid[j] =< counter[s]
          BY <3>2, Zenon DEF Ids, Below
        <5>. QED BY <3>1, <3>2, <3>3, <5>1
      <4>. QED BY <2>3, <3>2, <4>1 DEF Ids, UniqueUntilExhausted, HasId
    <3>. QED BY <2>2, <3>5, <3>6, Zenon DEF Ids
  <2>4. CASE go_away' = go_away \cup {s} /\ Refused(k) /\ sid' = sid
    <3>. HIDE DEF id
    <3>1. \A j \in Callers : HasId(j)' =>
             /\ j # k /\ HasId(j) /\ ses'[j] = ses[j] /\ ses[j] # s
             /\ sid'[j] = sid[j]
      BY <1>0, <2>4 DEF Refused, GivesUp, CallerGoto, CallerTyped, HasId
    <3>2. \A j \in Callers : HasId(j) => ses[j] \in Sessions
      <4>1. built \in 0 .. MaxSessions
        BY Zenon DEF Typed, SessionTyped
      <4>. QED BY <4>1, DialerConstants DEF HasId, Holding, Sessions
    <3>3. \A t \in Sessions : t # s => counter'[t] = counter[t]
      BY <2>0, Zenon
    <3>4. Below'
      BY <3>1, <3>2, <3>3, Zenon DEF Ids, Below
    <3>5. UniqueUntilExhausted'
      BY <3>1, Zenon DEF Ids, UniqueUntilExhausted, HasId
    <3>. QED BY <2>2, <3>4, <3>5, Zenon DEF Ids
  <2>. QED BY <1>4, <2>3, <2>4, Zenon DEF Alloc, next_id, s
<1>5. CASE OpenPush(k)
  <2>1. CASE CallerGoto(k, "stream") /\ UNCHANGED <<ses, sid>>
    BY <1>0, <1>5, <2>1, SameIds, Zenon DEF OpenPush, CallerGoto, CallerTyped, HasId
  <2>2. CASE Refused(k) /\ sid' = [sid EXCEPT ![k] = 0]
    BY <1>0, <1>5, <2>2, SameIds, Zenon DEF OpenPush, Refused, GivesUp, CallerGoto, CallerTyped, HasId
  <2>. QED BY <1>5, <2>1, <2>2, Zenon DEF OpenPush
<1>6. CASE BuildDone(k)
  BY <1>0, <1>6, SameIds, Zenon DEF BuildDone, CallerGoto, CallerTyped, HasId
<1>7. CASE BuildFails(k)
  BY <1>0, <1>7, SameIds, Zenon DEF BuildFails, GivesUp, CallerGoto, CallerTyped, HasId, session
<1>8. CASE DropStream(k)
  BY <1>0, <1>8, SameIds, Zenon DEF DropStream, CallerGoto, CallerTyped, HasId
<1>. QED BY <1>1, <1>2, <1>3, <1>4, <1>5, <1>6, <1>7, <1>8, Zenon DEF Step

-----------------------------------------------------------------------------
IInv == Typed /\ Holding /\ Usable /\ StreamsKeepSession /\ Ids

\* The invariant behind all that follows: the exclusion build_lock gives,
\* the account of usable sessions and the order of ids hold in every state
\* of the dialer.
THEOREM Inductive == DialerSpec => []IInv
<1>1. DialerInit => IInv
  <2>1. DialerInit => StreamsKeepSession
    BY Zenon DEF DialerInit, StreamsKeepSession
  <2>. QED BY <2>1, InitTyped, InitUsable, InitIds, Zenon DEF IInv
<1>2. IInv /\ [DialerNext]_dialerVars => IInv'
  <2>. SUFFICES ASSUME IInv, [DialerNext]_dialerVars PROVE IInv'
    BY Zenon
  <2>1. ASSUME NEW k \in Callers, Step(k) PROVE IInv'
    BY <2>1, StepTyped, StepUsable, StepKeeps, StepIds, Zenon DEF IInv
  <2>2. ASSUME NEW s \in Sessions, Fails(s) PROVE IInv'
    <3>1. StreamsKeepSession'
      BY <2>2, Zenon DEF Fails, caller, StreamsKeepSession, IInv
    <3>2. Ids'
      BY <2>2, SameIds, Zenon DEF Fails, caller, HasId, IInv
    <3>. QED BY <2>2, <3>1, <3>2, FailsTyped, FailsUsable, Zenon DEF IInv
  <2>3. CASE UNCHANGED dialerVars
    BY <2>3 DEF dialerVars, dialer, session, caller, IInv, Typed, SessionTyped, CallerTyped, Holding,
       Usable, Mutex, IdsAccounted, SawNone, StillCached, CachedBuilt, StreamsKeepSession,
       Ids, Odd, Below, HasId, UniqueUntilExhausted
  <2>. QED BY <2>1, <2>2, <2>3, Zenon DEF DialerNext
<1>. QED BY <1>1, <1>2, PTL DEF DialerSpec

\* Every variable of the dialer keeps its type; stream ids and the counter
\* of next_id never leave the width of the field.
THEOREM DialerTyped == DialerSpec => []DialerTypeOK
<1>1. IInv => DialerTypeOK
  BY Zenon DEF IInv, Typed, SessionTyped, CallerTyped, DialerTypeOK
<1>. QED BY <1>1, Inductive, PTL

\* However many callers dial at once, MuxDialer never has two sessions that
\* could both serve a dial.
THEOREM DialsShareOneSession == DialerSpec => []OneUsableSession
<1>1. IInv => OneUsableSession
  BY UsableIsOne, Zenon DEF IInv
<1>. QED BY <1>1, Inductive, PTL

\* A MuxStreamConn keeps its session from being closed by the dialer's cache
\* or by the end of other streams.
THEOREM StreamsHoldSession == DialerSpec => []StreamsKeepSession
<1>1. IInv => StreamsKeepSession
  BY Zenon DEF IInv
<1>. QED BY <1>1, Inductive, PTL

\* next_id hands out no id that is still in use on a session that has not
\* run out of ids.
THEOREM IdsUnique == DialerSpec => []UniqueUntilExhausted
<1>1. IInv => UniqueUntilExhausted
  BY Zenon DEF IInv, Ids
<1>. QED BY <1>1, Inductive, PTL

\* All of this together: dials share a session, streams keep theirs, ids are
\* unique (MuxDialer::dial, next_id).
THEOREM DialerSound == DialerSpec => []SessionsSound
<1>1. DialerTypeOK /\ OneUsableSession /\ StreamsKeepSession /\ UniqueUntilExhausted => SessionsSound
  BY Zenon DEF SessionsSound
<1>. QED BY <1>1, DialerTyped, DialsShareOneSession, StreamsHoldSession, IdsUnique, PTL

-----------------------------------------------------------------------------
(***************************************************************************)
(* What holds of the send queue for every number of streams, every limit   *)
(* and every frame size.                                                   *)
(***************************************************************************)

\* What force_push_data appends is last, and what was queued stays where it was.
LEMMA AppendedAt ==
  ASSUME NEW S, NEW q \in Seq(S), NEW e \in S, NEW p, p = Append(q, e)
  PROVE  /\ DOMAIN q = 1 .. Len(q) /\ DOMAIN p = 1 .. Len(q) + 1 /\ Len(q) \in Nat
         /\ \A i \in DOMAIN q : i \in DOMAIN p /\ p[i] = q[i]
         /\ p[Len(q) + 1] = e
OBVIOUS

LEMMA AppendedOrLast ==
  ASSUME NEW S, NEW q \in Seq(S), NEW e \in S, NEW p, p = Append(q, e)
  PROVE  /\ \A i \in DOMAIN p : (i \in DOMAIN q /\ p[i] = q[i]) \/ p[i] = e
         /\ \A i, j \in DOMAIN p : i < j => i \in DOMAIN q /\ p[i] = q[i]
BY AppendedAt

\* A finite set without one of its elements, counted.
LEMMA OneFewer ==
  ASSUME NEW S, IsFiniteSet(S), NEW x \in S
  PROVE  Cardinality(S) = Cardinality(S \ {x}) + 1
<1>1. Cardinality(S) \in Nat /\ Cardinality(S \ {x}) = Cardinality(S) - 1
  BY FS_CardinalityType, FS_RemoveElement
<1> QED
  BY <1>1

\* force_push_data keeps the queue typed: the frame a stream builds for a SYN,
\* a FIN or a PSH of n bytes is a Frame, and it is appended to data.
LEMMA PushTyped ==
  ASSUME TypeOK, NEW s \in Streams, NEW cmd \in {"SYN", "PSH", "FIN"}, NEW n \in Nat,
         force_push_data(NewFrame(cmd, s, n))
  PROVE  /\ data' \in Seq(Frame) /\ data_bytes' \in Nat /\ pushed' \in Nat
         /\ ready' \in BOOLEAN /\ ctrl' = ctrl
         /\ data_bytes' = data_bytes + n
         /\ pushed' = pushed + 1
         /\ data' = Append(data, NewFrame(cmd, s, n))
         /\ NewFrame(cmd, s, n) \in Frame
<1>1. NewFrame(cmd, s, n) \in Frame /\ NewFrame(cmd, s, n).len = n
  BY DEF TypeOK, NewFrame, Frame
<1> QED
  BY <1>1 DEF TypeOK, force_push_data

\* The type invariant of the send queue: no counter of the queue underflows
\* and every frame that is queued, drained or written is well formed.
THEOREM QueueTyped == Spec => []TypeOK
<1> USE DEF TypeOK
<1>1. Init => TypeOK
  <2>1. <<>> \in Seq(Nop) /\ <<>> \in Seq(Frame) /\ <<>> \in Seq(Frame \cup Nop)
    OBVIOUS
  <2>2. Init => fin_sent \in [Streams -> BOOLEAN] /\ closed \in BOOLEAN /\ ready \in BOOLEAN
    BY Zenon DEF Init
  <2> QED
    BY <2>1, <2>2 DEF Init
<1>2. TypeOK /\ [Next]_vars => TypeOK'
  <2> SUFFICES ASSUME TypeOK, [Next]_vars PROVE TypeOK'
    BY Zenon
  <2> USE DEF queueVars, writerVars, streamVars, wakerVars
  <2>1. ASSUME NEW s \in Streams, OpenStream(s) PROVE TypeOK'
    <3>1. CASE force_push_data(NewFrame("SYN", s, 0))
      BY <2>1, <3>1, PushTyped, ZenonT(30) DEF OpenStream, Polled, Goto
    <3>2. CASE closed
      BY <2>1, <3>2, Zenon DEF OpenStream, force_push_data, Polled, Goto
    <3> QED
      BY <2>1, <3>1, <3>2, Zenon DEF OpenStream
  <2>2. ASSUME NEW s \in Streams, poll_reserve(s) PROVE TypeOK'
    BY <2>2, Zenon DEF poll_reserve, Polled, Goto
  <2>3. ASSUME NEW s \in Streams, PushPsh(s) PROVE TypeOK'
    <3>1. ASSUME NEW n \in 1..MaxFrame, force_push_data(NewFrame("PSH", s, n)),
                 last_push' = [last_push EXCEPT ![s] = pushed']
          PROVE TypeOK'
      <4>1. n \in Nat
        BY QueueConstants
      <4> QED
        BY <2>3, <3>1, <4>1, PushTyped, Zenon DEF PushPsh, Polled, Goto
    <3>2. CASE closed
      BY <2>3, <3>2, Zenon DEF PushPsh, force_push_data, Polled, Goto
    <3> QED
      BY <2>3, <3>1, <3>2, Zenon DEF PushPsh
  <2>4. ASSUME NEW s \in Streams, StartFlush(s) PROVE TypeOK'
    BY <2>4, Zenon DEF StartFlush, Polled, Goto
  <2>5. ASSUME NEW s \in Streams, send_fin(s) PROVE TypeOK'
    <3>1. CASE force_push_data(NewFrame("FIN", s, 0))
      <4>1. fin_sent' \in [Streams -> BOOLEAN]
        BY <2>5, Zenon DEF send_fin
      <4> QED
        BY <2>5, <3>1, <4>1, PushTyped, ZenonT(30) DEF send_fin, Polled, Goto
    <3>2. CASE closed
      BY <2>5, <3>2, Zenon DEF send_fin, force_push_data, Polled, Goto
    <3> QED
      BY <2>5, <3>1, <3>2, Zenon DEF send_fin
  <2>6. ASSUME NEW s \in Streams, poll_flushed(s) PROVE TypeOK'
    BY <2>6, Zenon DEF poll_flushed, Polled, Goto
  <2>7. CASE push_ctrl
    <3>1. [cmd |-> "NOP", seq |-> pushed + 1] \in Nop
      BY DEF Nop
    <3> QED
      BY <2>7, <3>1 DEF push_ctrl
  <2>8. CASE close
    BY <2>8, Zenon DEF close
  <2>9. CASE take_batch
    <3>1. batch' \in Seq(Frame \cup Nop)
      <4>1. ctrl \in Seq(Frame \cup Nop) /\ data \in Seq(Frame \cup Nop)
        OBVIOUS
      <4> QED
        BY <2>9, <4>1 DEF take_batch
    <3> QED
      BY <2>9, <3>1 DEF take_batch, BatchReady
  <2>10. CASE DrainEmpty \/ CheckClosed \/ Notified
    BY <2>10, Zenon DEF DrainEmpty, CheckClosed, Notified
  <2>11. CASE WriteBatch
    BY <2>11 DEF WriteBatch
  <2>12. CASE mark_written
    BY <2>12 DEF mark_written
  <2>13. CASE WriterStops
    BY <2>13, Zenon DEF WriterStops
  <2>14. CASE UNCHANGED vars
    BY <2>14, Zenon DEF vars
  <2> QED
    BY <2>1, <2>2, <2>3, <2>4, <2>5, <2>6, <2>7, <2>8, <2>9, <2>10, <2>11,
       ZenonT(30), <2>12, <2>13, <2>14 DEF Next, Stream, Writer
<1> QED
  BY <1>1, <1>2, PTL DEF Spec

-------------------------------------------------------------------------------
(* The arithmetic of the bound: d bytes queued, c streams admitted out of  *)
(* n, frames of at most F bytes, limit L.                                  *)

\* A product of the frame size and a number of streams is a natural number
\* and grows with the number of streams.
LEMMA ProductNat == \A F, c \in Nat : F * c \in Nat
OBVIOUS

\* More admitted streams cannot make the frames they may push smaller.
LEMMA ProductMono == \A F, c, n \in Nat : c <= n => F * c <= F * n
<1> SUFFICES ASSUME NEW F \in Nat, NEW c \in Nat, NEW n \in Nat, c <= n
             PROVE  F * c <= F * n
  BY Zenon
<1>1. PICK k \in Nat : n = c + k
  <2>1. n - c \in Nat /\ n = c + (n - c)
    OBVIOUS
  <2> QED
    BY <2>1, Zenon
<1>2. F * n = F * c + F * k
  BY <1>1
<1> QED
  BY <1>2, ProductNat

\* The three ways a step may move the two sides of the bound: nothing grows
\* (a drain, a failed push), one admitted stream pushes k <= F bytes, and a
\* stream is admitted below the limit.
LEMMA BoundSteps ==
  ASSUME NEW L \in Nat, NEW F \in Nat, NEW n \in Nat,
         NEW d \in Nat, NEW d2 \in Nat, NEW c \in Nat, NEW c2 \in Nat
  PROVE  /\ d2 <= d /\ c2 <= c /\ d + F * c < L + F * n => d2 + F * c2 < L + F * n
         /\ d2 <= d + F /\ c = c2 + 1 /\ d + F * c < L + F * n => d2 + F * c2 < L + F * n
         /\ d2 < L /\ c2 <= n => d2 + F * c2 < L + F * n
<1>1. F * c2 \in Nat /\ F * c \in Nat /\ F * n \in Nat
  BY ProductNat, Zenon
<1>2. c2 <= c => F * c2 <= F * c
  BY ProductMono, Zenon
<1>3. c2 <= n => F * c2 <= F * n
  BY ProductMono, Zenon
<1>4. c = c2 + 1 => F * c = F * c2 + F
  OBVIOUS
<1> QED
  BY <1>1, <1>2, <1>3, <1>4

\* poll_reserve admits a stream only below Limit, and no stream is admitted
\* twice before it pushes: an admitted stream moves one unit of the bound from
\* the count of admitted streams into data_bytes.  Hence the send queue never
\* holds Limit bytes plus a frame per stream.
THEOREM QueueBounded == Spec => []SendQueueBounded
<1> DEFINE Reserved == {s \in Streams : spc[s] = "reserved"}
           C == Cardinality(Reserved)
           N == Cardinality(Streams)
<1>0. /\ IsFiniteSet(Reserved) /\ C \in Nat /\ N \in Nat /\ C <= N
      /\ IsFiniteSet(Reserved') /\ C' \in Nat /\ C' <= N
      /\ Limit \in Nat /\ MaxFrame \in Nat
  BY QueueConstants, FS_Subset, FS_CardinalityType, Zenon
<1>1. Init => SendQueueBounded
  <2> SUFFICES ASSUME Init PROVE SendQueueBounded
    BY Zenon
  <2>1. data_bytes \in Nat /\ data_bytes < Limit
    BY QueueConstants DEF Init
  <2> HIDE DEF C, N
  <2>2. data_bytes + MaxFrame * C < Limit + MaxFrame * N
    BY <1>0, <2>1, BoundSteps, Zenon
  <2> QED
    BY <2>2, Zenon DEF SendQueueBounded, C, N
<1>2. TypeOK /\ TypeOK' /\ SendQueueBounded /\ [Next]_vars => SendQueueBounded'
  <2> SUFFICES ASSUME TypeOK, TypeOK', SendQueueBounded, [Next]_vars
               PROVE  SendQueueBounded'
    BY Zenon
  <2>0. data_bytes \in Nat /\ data_bytes' \in Nat
    BY Zenon DEF TypeOK
  <2>g. data_bytes + MaxFrame * C < Limit + MaxFrame * N
    BY Zenon DEF SendQueueBounded
  <2>s. SUFFICES data_bytes' + MaxFrame * C' < Limit + MaxFrame * N
    BY Zenon DEF SendQueueBounded
  <2>a. ASSUME data_bytes' <= data_bytes, Reserved' \subseteq Reserved
        PROVE  data_bytes' + MaxFrame * C' < Limit + MaxFrame * N
    <3>1. C' <= C
      BY <1>0, <2>a, FS_Subset, Zenon
    <3> HIDE DEF C, N
    <3> QED
      BY <1>0, <2>0, <2>g, <2>a, <3>1, BoundSteps, Zenon
  <2>b. ASSUME NEW s \in Streams, PushPsh(s)
        PROVE  data_bytes' + MaxFrame * C' < Limit + MaxFrame * N
    <3>1. Reserved' = Reserved \ {s} /\ s \in Reserved
      BY <2>b, Zenon DEF PushPsh, Polled, Goto, TypeOK
    <3>2. C = C' + 1
      BY <1>0, <3>1, OneFewer, Zenon
    <3>3. data_bytes' <= data_bytes + MaxFrame
      <4>1. ASSUME NEW n \in 1..MaxFrame, force_push_data(NewFrame("PSH", s, n))
            PROVE  data_bytes' <= data_bytes + MaxFrame
        BY <1>0, <2>0, <4>1 DEF force_push_data, NewFrame
      <4> QED
        BY <1>0, <2>0, <2>b, <4>1 DEF PushPsh, queueVars
    <3> HIDE DEF C, N
    <3> QED
      BY <1>0, <2>0, <2>g, <3>2, <3>3, BoundSteps, Zenon
  <2>c. ASSUME NEW s \in Streams, poll_reserve(s), data_bytes < Limit
        PROVE  data_bytes' + MaxFrame * C' < Limit + MaxFrame * N
    <3>1. data_bytes' = data_bytes
      BY <2>c, Zenon DEF poll_reserve, queueVars
    <3> HIDE DEF C, N
    <3> QED
      BY <1>0, <2>0, <2>c, <3>1, BoundSteps, Zenon
  <2>d. ASSUME NEW s \in Streams, poll_reserve(s), ~(data_bytes < Limit)
        PROVE  data_bytes' <= data_bytes /\ Reserved' \subseteq Reserved
    BY <2>0, <2>d DEF poll_reserve, queueVars
  <2>e. ASSUME NEW s \in Streams,
               OpenStream(s) \/ StartFlush(s) \/ send_fin(s) \/ poll_flushed(s)
        PROVE  data_bytes' <= data_bytes /\ Reserved' \subseteq Reserved
    <3>1. Reserved' \subseteq Reserved
      BY <2>e, Zenon DEF OpenStream, StartFlush, send_fin, poll_flushed, Goto, TypeOK
    <3>2. data_bytes' = data_bytes
      BY <2>0, <2>e DEF OpenStream, StartFlush, send_fin, poll_flushed, queueVars,
                        force_push_data, NewFrame
    <3> QED
      BY <2>0, <3>1, <3>2
  <2>f. ASSUME push_ctrl \/ close \/ Writer \/ WriterStops \/ UNCHANGED vars
        PROVE  data_bytes' <= data_bytes /\ Reserved' \subseteq Reserved
    <3>1. spc' = spc
      BY <2>f, Zenon DEF push_ctrl, close, Writer, WriterStops, take_batch, BatchReady,
                  DrainEmpty, CheckClosed, Notified, WriteBatch, mark_written,
                  vars, streamVars
    <3>2. data_bytes' = data_bytes \/ data_bytes' = 0
      BY <2>f, Zenon DEF push_ctrl, close, Writer, WriterStops, take_batch, BatchReady,
                  DrainEmpty, CheckClosed, Notified, WriteBatch, mark_written,
                  vars, queueVars
    <3> QED
      BY <2>0, <3>1, <3>2
  <2> QED
    BY <2>a, <2>b, <2>c, <2>d, <2>e, <2>f, Zenon DEF Next, Stream
<1> QED
  BY <1>1, <1>2, QueueTyped, PTL DEF Spec

-------------------------------------------------------------------------------
\* What appending one frame to a queue does to its set of sequence numbers.
LEMMA NumsAppend ==
  ASSUME NEW S, NEW q \in Seq(S), NEW f
  PROVE  Nums(Append(q, f)) = Nums(q) \cup {f.seq}
<1>1. /\ DOMAIN Append(q, f) = DOMAIN q \cup {Len(q) + 1}
      /\ \A i \in DOMAIN q : Append(q, f)[i] = q[i]
      /\ Append(q, f)[Len(q) + 1] = f
  OBVIOUS
<1> QED
  BY <1>1, Zenon DEF Nums

\* An interval of sequence numbers extended by one, and split in two.
LEMMA IntervalSucc == \A a, b \in Int : a <= b + 1 => a..(b + 1) = (a..b) \cup {b + 1}
OBVIOUS

\* Likewise for a whole batch.
LEMMA IntervalSplit ==
  \A a, b \in Nat : 1..(a + b) = (1..a) \cup ((a + 1)..(a + b))
OBVIOUS

\* What concatenation (a drain, a write to the transport) does to it.
LEMMA NumsConcat ==
  ASSUME NEW S, NEW q \in Seq(S), NEW r \in Seq(S)
  PROVE  Nums(q \o r) = Nums(q) \cup Nums(r)
<1>1. \A i \in DOMAIN (q \o r) : (q \o r)[i].seq \in Nums(q) \cup Nums(r)
  BY DEF Nums
<1>2. ASSUME NEW i \in DOMAIN q PROVE q[i].seq \in Nums(q \o r)
  <2>1. i \in DOMAIN (q \o r) /\ (q \o r)[i] = q[i]
    OBVIOUS
  <2> QED
    BY <2>1, Zenon DEF Nums
<1>3. ASSUME NEW i \in DOMAIN r PROVE r[i].seq \in Nums(q \o r)
  <2>1. Len(q) + i \in DOMAIN (q \o r) /\ (q \o r)[Len(q) + i] = r[i]
    OBVIOUS
  <2> QED
    BY <2>1, Zenon DEF Nums
<1> QED
  BY <1>1, <1>2, <1>3, Zenon DEF Nums

\* The ledger survives any step that adds exactly the number pushed + 1 to the
\* queued ones.
LEMMA LedgerGrow ==
  ASSUME TypeOK, TypeOK', FrameLedger, pushed' = pushed + 1,
         UNCHANGED <<written, batch, wpc, wire>>,
         Nums(ctrl') \cup Nums(data') = Nums(ctrl) \cup Nums(data) \cup {pushed + 1},
         Len(ctrl') + Len(data') = Len(ctrl) + Len(data) + 1
  PROVE  FrameLedger'
<1>1. /\ written \in Nat /\ pushed \in Nat /\ Len(batch) \in Nat
      /\ Len(ctrl) \in Nat /\ Len(data) \in Nat
      /\ Len(ctrl') \in Nat /\ Len(data') \in Nat
  BY DEF TypeOK
<1>2. pushed = written + Len(batch) + Len(ctrl) + Len(data)
  BY Zenon DEF FrameLedger
<1>3. written' = written /\ Len(batch') = Len(batch)
  BY Zenon
<1>4. pushed' = written' + Len(batch') + Len(ctrl') + Len(data')
  BY <1>1, <1>2, <1>3
<1>5. Nums(ctrl') \cup Nums(data') = (written' + Len(batch') + 1)..pushed'
  <2>1. PICK a \in Int : a = written + Len(batch) + 1
    BY <1>1
  <2>2. a..(pushed + 1) = (a..pushed) \cup {pushed + 1}
    <3>1. a <= pushed + 1 /\ pushed \in Int
      BY <1>1, <1>2, <2>1
    <3> QED
      BY <3>1, IntervalSucc, Zenon
  <2>3. Nums(ctrl) \cup Nums(data) = (written + Len(batch) + 1)..pushed
    BY Zenon DEF FrameLedger
  <2>4. written' + Len(batch') + 1 = a
    BY <1>3, <2>1, Zenon
  <2> QED
    BY <2>1, <2>2, <2>3, <2>4, Zenon
<1> QED
  BY <1>4, <1>5, Zenon DEF FrameLedger

\* Pushing a frame numbered pushed + 1 on either queue keeps the ledger.
LEMMA LedgerPush ==
  ASSUME TypeOK, TypeOK', FrameLedger, pushed' = pushed + 1,
         UNCHANGED <<written, batch, wpc, wire>>,
         \/ /\ ctrl' = ctrl
            /\ \E f : data' = Append(data, f) /\ f.seq = pushed + 1
         \/ /\ data' = data
            /\ \E f : ctrl' = Append(ctrl, f) /\ f.seq = pushed + 1
  PROVE  FrameLedger'
<1>0. /\ Len(ctrl) \in Nat /\ Len(data) \in Nat
      /\ ctrl \in Seq(Nop) /\ data \in Seq(Frame)
  BY DEF TypeOK
<1>1. ASSUME NEW f, ctrl' = ctrl, data' = Append(data, f), f.seq = pushed + 1
      PROVE  FrameLedger'
  <2>1. Nums(data') = Nums(data) \cup {pushed + 1}
    BY <1>0, <1>1, NumsAppend, Zenon
  <2>2. Len(data') = Len(data) + 1
    BY <1>0, <1>1
  <2> QED
    BY <1>0, <1>1, <2>1, <2>2, LedgerGrow
<1>2. ASSUME NEW f, data' = data, ctrl' = Append(ctrl, f), f.seq = pushed + 1
      PROVE  FrameLedger'
  <2>1. Nums(ctrl') = Nums(ctrl) \cup {pushed + 1}
    BY <1>0, <1>2, NumsAppend, Zenon
  <2>2. Len(ctrl') = Len(ctrl) + 1
    BY <1>0, <1>2
  <2> QED
    BY <1>0, <1>2, <2>1, <2>2, LedgerGrow
<1> QED
  BY <1>1, <1>2, Zenon

\* The ledger holds of every behaviour of the queue.
THEOREM LedgerKept == Spec => []FrameLedger
<1>1. Init => FrameLedger
  BY DEF Init, FrameLedger, Nums
<1>2. TypeOK /\ TypeOK' /\ FrameLedger /\ [Next]_vars => FrameLedger'
  <2> SUFFICES ASSUME TypeOK, TypeOK', FrameLedger, [Next]_vars PROVE FrameLedger'
    BY Zenon
  <2> USE DEF queueVars, writerVars, streamVars, wakerVars
  <2>1. ASSUME UNCHANGED <<ctrl, data, pushed, written, batch, wire>>,
               \/ wpc' = wpc
               \/ wpc \in {"drain", "closed?", "wait"} /\ wpc' # "mark"
               \/ wpc' \in {"done"}
        PROVE  FrameLedger'
    BY <2>1, Zenon DEF FrameLedger
  <2>2. ASSUME NEW s \in Streams, NEW cmd, NEW n,
               force_push_data(NewFrame(cmd, s, n)), UNCHANGED writerVars
        PROVE  FrameLedger'
    <3>1. NewFrame(cmd, s, n).seq = pushed + 1
      BY Zenon DEF NewFrame
    <3> QED
      BY <2>2, <3>1, LedgerPush, Zenon DEF force_push_data
  <2>3. ASSUME NEW s \in Streams, Stream(s) PROVE FrameLedger'
    <3>1. CASE OpenStream(s)
      BY <2>1, <2>2, <3>1, Zenon DEF OpenStream
    <3>2. CASE PushPsh(s)
      BY <2>1, <2>2, <3>2, Zenon DEF PushPsh
    <3>3. CASE send_fin(s)
      BY <2>1, <2>2, <3>3, Zenon DEF send_fin
    <3>4. CASE poll_reserve(s) \/ StartFlush(s) \/ poll_flushed(s)
      BY <2>1, <3>4, Zenon DEF poll_reserve, StartFlush, poll_flushed
    <3> QED
      BY <2>3, <3>1, <3>2, <3>3, <3>4, Zenon DEF Stream
  <2>4. CASE push_ctrl
    <3>1. [cmd |-> "NOP", seq |-> pushed + 1].seq = pushed + 1
      BY Zenon
    <3> QED
      BY <2>4, <3>1, LedgerPush, Zenon DEF push_ctrl
  <2>5. CASE take_batch
    <3>1. /\ batch' = ctrl \o data /\ ctrl' = <<>> /\ data' = <<>> /\ batch = <<>>
          /\ UNCHANGED <<pushed, written, wire>> /\ wpc' = "write"
      BY <2>5, Zenon DEF take_batch, BatchReady, FrameLedger
    <3>2. ctrl \in Seq(Frame \cup Nop) /\ data \in Seq(Frame \cup Nop)
      BY DEF TypeOK
    <3>3. Nums(batch') = Nums(ctrl) \cup Nums(data)
      BY <3>1, <3>2, NumsConcat
    <3>4. Len(batch') = Len(ctrl) + Len(data)
      BY <3>1, <3>2
    <3>5. Nums(<<>>) = {} /\ Len(<<>>) = 0
      BY DEF Nums
    <3>6. written \in Nat /\ pushed \in Nat /\ Len(ctrl) \in Nat /\ Len(data) \in Nat
      BY DEF TypeOK
    <3> QED
      BY <3>1, <3>3, <3>4, <3>5, <3>6 DEF FrameLedger
  <2>6. CASE WriteBatch
    <3>1. Nums(wire') = Nums(wire) \cup Nums(batch)
      BY <2>6, NumsConcat DEF WriteBatch, TypeOK
    <3> QED
      BY <2>6, <3>1, Zenon DEF WriteBatch, FrameLedger
  <2>7. CASE mark_written
    <3>1. /\ UNCHANGED <<ctrl, data, pushed, wire>> /\ batch' = <<>> /\ wpc' = "drain"
          /\ written' = written + Len(batch) /\ wpc = "mark"
      BY <2>7, Zenon DEF mark_written
    <3>2. Nums(<<>>) = {} /\ Len(<<>>) = 0
      BY DEF Nums
    <3>3. written \in Nat /\ pushed \in Nat /\ Len(batch) \in Nat
      BY DEF TypeOK
    <3>4. 1..written' = (1..written) \cup ((written + 1)..(written + Len(batch)))
      BY <3>1, <3>3, IntervalSplit, Zenon
    <3>5. 1..written' \subseteq Nums(wire')
      BY <3>1, <3>4, Zenon DEF FrameLedger
    <3>6. pushed' = written' + Len(batch') + Len(ctrl') + Len(data')
      BY <3>1, <3>2, <3>3 DEF FrameLedger, TypeOK
    <3>7. Nums(batch') = (written' + 1)..(written' + Len(batch'))
      BY <3>1, <3>2, <3>3
    <3>8. Nums(ctrl') \cup Nums(data') = (written' + Len(batch') + 1)..pushed'
      <4>1. written' + Len(batch') + 1 = written + Len(batch) + 1
        BY <3>1, <3>2, <3>3
      <4> QED
        BY <3>1, <4>1, Zenon DEF FrameLedger
    <3> QED
      BY <3>1, <3>5, <3>6, <3>7, <3>8, Zenon DEF FrameLedger
  <2>8. CASE DrainEmpty \/ CheckClosed \/ Notified
    BY <2>1, <2>8, Zenon DEF DrainEmpty, CheckClosed, Notified
  <2>9. CASE close \/ WriterStops \/ UNCHANGED vars
    BY <2>1, <2>9, Zenon DEF close, WriterStops, vars
  <2> QED
    BY <2>3, <2>4, <2>5, <2>6, <2>7, <2>8, <2>9, Zenon DEF Next, Writer
<1> QED
  BY <1>1, <1>2, QueueTyped, PTL DEF Spec

\* poll_flushed compares a push number with a count of written frames although
\* NOPs overtake data; whenever the comparison succeeds the frame, and every
\* frame pushed before it, is with the transport.
THEOREM FlushIsHonest == Spec => []FlushedMeansWritten
<1>1. FrameLedger => FlushedMeansWritten
  BY Zenon DEF FrameLedger, FlushedMeansWritten, Nums
<1> QED
  BY <1>1, LedgerKept, PTL


-------------------------------------------------------------------------------
(* The order of a stream's frames.                                         *)

\* f may come before g: of one stream the earlier push comes first, nothing
\* follows a FIN and nothing precedes a SYN.
Precedes(f, g) ==
  f.cmd # "NOP" /\ g.cmd # "NOP" /\ f.sid = g.sid
    => f.seq < g.seq /\ f.cmd # "FIN" /\ g.cmd # "SYN"

Ordered(q) == \A i, j \in DOMAIN q : i < j => Precedes(q[i], q[j])

Before(q, r) == \A i \in DOMAIN q, j \in DOMAIN r : Precedes(q[i], r[j])

\* A frame on its way: it has been pushed, its stream was opened before, and it
\* is a FIN only if the stream has sent one.
Accounted(f) ==
  /\ f.seq <= pushed
  /\ f.cmd # "NOP" => spc[f.sid] # "new"
  /\ f.cmd = "FIN" => fin_sent[f.sid]

AllAccounted(q) == \A i \in DOMAIN q : Accounted(q[i])

\* The strengthening of StreamOrderOnWire: the wire, the batch being written and
\* the data queue are in order one after the other.
OrderInv ==
  /\ Ordered(wire) /\ Ordered(data) /\ Before(wire, data)
  /\ wpc = "write" => Ordered(batch) /\ Before(wire, batch) /\ Before(batch, data)
  /\ AllAccounted(wire) /\ AllAccounted(batch) /\ AllAccounted(data)
  /\ \A s \in Streams : spc[s] \in {"new", "reserved"} => ~fin_sent[s]

\* What is in two sequences is what is in their concatenation, in order.
LEMMA ConcatElements ==
  ASSUME NEW S, NEW q \in Seq(S), NEW r \in Seq(S), NEW i \in DOMAIN (q \o r)
  PROVE  \/ i \in DOMAIN q /\ (q \o r)[i] = q[i]
         \/ i - Len(q) \in DOMAIN r /\ (q \o r)[i] = r[i - Len(q)] /\ i > Len(q)
OBVIOUS

\* Two sequences in order, one before the other, are in order as one (a drain,
\* a write to the transport).
LEMMA OrderedConcat ==
  ASSUME NEW S, NEW q \in Seq(S), NEW r \in Seq(S),
         Ordered(q), Ordered(r), Before(q, r)
  PROVE  Ordered(q \o r)
<1> SUFFICES ASSUME NEW i \in DOMAIN (q \o r), NEW j \in DOMAIN (q \o r), i < j
             PROVE  Precedes((q \o r)[i], (q \o r)[j])
  BY Zenon DEF Ordered
<1>1. i \in Int /\ j \in Int /\ Len(q) \in Nat /\ DOMAIN q = 1..Len(q)
  OBVIOUS
<1>2. CASE i \in DOMAIN q /\ (q \o r)[i] = q[i]
  <2>1. CASE j \in DOMAIN q /\ (q \o r)[j] = q[j]
    BY <1>2, <2>1, Zenon DEF Ordered
  <2>2. CASE j - Len(q) \in DOMAIN r /\ (q \o r)[j] = r[j - Len(q)]
    BY <1>2, <2>2, Zenon DEF Before
  <2> QED
    BY <2>1, <2>2, ConcatElements, Zenon
<1>3. CASE i - Len(q) \in DOMAIN r /\ (q \o r)[i] = r[i - Len(q)] /\ i > Len(q)
  <2>1. j \notin DOMAIN q
    BY <1>1, <1>3
  <2>2. j - Len(q) \in DOMAIN r /\ (q \o r)[j] = r[j - Len(q)]
    BY <2>1, ConcatElements, Zenon
  <2>3. i - Len(q) < j - Len(q)
    BY <1>1
  <2> QED
    BY <1>3, <2>2, <2>3, Zenon DEF Ordered
<1> QED
  BY <1>2, <1>3, ConcatElements, Zenon

\* A sequence that precedes two others precedes their concatenation, and the
\* other way round; likewise every frame of a concatenation is accounted for.
LEMMA BeforeConcat ==
  ASSUME NEW S, NEW q \in Seq(S), NEW r \in Seq(S), NEW p
  PROVE  /\ Before(p, q) /\ Before(p, r) => Before(p, q \o r)
         /\ Before(q, p) /\ Before(r, p) => Before(q \o r, p)
         /\ AllAccounted(q) /\ AllAccounted(r) => AllAccounted(q \o r)
<1>1. ASSUME Before(p, q), Before(p, r) PROVE Before(p, q \o r)
  BY <1>1, ConcatElements DEF Before
<1>2. ASSUME Before(q, p), Before(r, p) PROVE Before(q \o r, p)
  BY <1>2, ConcatElements DEF Before
<1>3. ASSUME AllAccounted(q), AllAccounted(r) PROVE AllAccounted(q \o r)
  BY <1>3, ConcatElements DEF AllAccounted
<1> QED
  BY <1>1, <1>2, <1>3, Zenon


\* Pushing a frame of an open stream keeps the order: its number is the largest,
\* the stream has sent no FIN, and a SYN is a new stream's first frame.
LEMMA PushInOrder ==
  ASSUME TypeOK, TypeOK', OrderInv, NEW s \in Streams,
         NEW cmd \in {"SYN", "PSH", "FIN"}, NEW n \in Nat,
         force_push_data(NewFrame(cmd, s, n)), UNCHANGED writerVars,
         ~fin_sent[s], cmd = "SYN" <=> spc[s] = "new",
         fin_sent' = [fin_sent EXCEPT ![s] = cmd = "FIN"],
         \E at \in {"open", "flushing", "gone"} : spc' = [spc EXCEPT ![s] = at]
  PROVE  OrderInv'
<1>0. PICK f \in Frame : f = NewFrame(cmd, s, n)
  BY PushTyped, Zenon
<1>1. /\ f.cmd = cmd /\ f.sid = s /\ f.seq = pushed + 1
      /\ data' = Append(data, f) /\ pushed' = pushed + 1
      /\ UNCHANGED <<wire, batch, wpc>>
  BY <1>0, Zenon DEF force_push_data, NewFrame, writerVars
<1>2. /\ data \in Seq(Frame) /\ pushed \in Nat
      /\ wire \in Seq(Frame \cup Nop) /\ batch \in Seq(Frame \cup Nop)
      /\ spc \in [Streams -> {"new", "open", "reserved", "flushing", "gone"}]
      /\ fin_sent \in [Streams -> BOOLEAN]
  BY Zenon DEF TypeOK
<1>3. ASSUME NEW g \in Frame \cup Nop, Accounted(g)
      PROVE  Precedes(g, f) /\ Accounted(g)'
  <2>0. g.seq \in Nat /\ (g.cmd # "NOP" => g.sid \in Streams)
    BY Zenon DEF Frame, Nop
  <2>1. Precedes(g, f)
    BY <1>1, <1>2, <1>3, <2>0 DEF Precedes, Accounted
  <2>2. g.seq <= pushed'
    BY <1>1, <1>2, <1>3, <2>0 DEF Accounted
  <2>3. g.cmd # "NOP" => spc'[g.sid] # "new"
    BY <1>2, <1>3, <2>0, Zenon DEF Accounted
  <2>4. g.cmd = "FIN" => fin_sent'[g.sid]
    BY <1>2, <1>3, <2>0, Zenon DEF Accounted
  <2> QED
    BY <2>1, <2>2, <2>3, <2>4, Zenon DEF Accounted
<1>4. Accounted(f)'
  <2>1. spc'[s] # "new" /\ (cmd = "FIN" => fin_sent'[s])
    BY <1>2, Zenon
  <2> QED
    BY <1>1, <1>2, <2>1 DEF Accounted
<1>d. data \in Seq(Frame) /\ data' = Append(data, f)
  BY <1>1, <1>2, Zenon
<1>5. \A i \in DOMAIN data' : (i \in DOMAIN data /\ data'[i] = data[i]) \/ data'[i] = f
  BY <1>d, AppendedOrLast
<1>6. AllAccounted(wire)' /\ AllAccounted(batch)' /\ AllAccounted(data)'
  <2>1. ASSUME NEW q \in Seq(Frame \cup Nop), AllAccounted(q) PROVE AllAccounted(q)'
    <3>1. \A i \in DOMAIN q : q[i] \in Frame \cup Nop
      OBVIOUS
    <3> QED
      BY <1>3, <2>1, <3>1, Zenon DEF AllAccounted
  <2>2. PICK w, b : w = wire /\ b = batch
    OBVIOUS
  <2>3. AllAccounted(w)' /\ AllAccounted(b)' /\ w = wire' /\ b = batch'
    BY <1>1, <1>2, <2>1, <2>2, Zenon DEF OrderInv
  <2>4. AllAccounted(wire)' /\ AllAccounted(batch)'
    BY <2>3, Zenon DEF AllAccounted, Accounted
  <2>5. ASSUME NEW i \in DOMAIN data' PROVE Accounted(data[i])'
    <3>1. PICK g : g = data'[i]
      OBVIOUS
    <3>2. CASE g = f
      BY <1>4, <3>1, <3>2, Zenon DEF Accounted
    <3>3. CASE i \in DOMAIN data /\ g = data[i]
      <4>1. g \in Frame \cup Nop
        BY <1>d, <3>3
      <4>2. Accounted(g)
        BY <3>3, Zenon DEF OrderInv, AllAccounted
      <4>3. Accounted(g)'
        BY <1>3, <4>1, <4>2, Zenon
      <4> QED
        BY <3>1, <4>3, Zenon DEF Accounted
    <3> QED
      BY <1>5, <3>1, <3>2, <3>3, Zenon
  <2> QED
    BY <2>4, <2>5, Zenon DEF AllAccounted
<1>7. Ordered(data)'
  <2> SUFFICES ASSUME NEW i \in DOMAIN data', NEW j \in DOMAIN data', i < j
               PROVE  Precedes(data'[i], data'[j])
    BY Zenon DEF Ordered
  <2>1. i \in DOMAIN data /\ data'[i] = data[i]
    BY <1>d, AppendedOrLast
  <2>2. CASE j \in DOMAIN data /\ data'[j] = data[j]
    BY <2>1, <2>2, ZenonT(30) DEF OrderInv, Ordered
  <2>3. CASE data'[j] = f
    <3>1. data[i] \in Frame \cup Nop
      BY <1>2, <2>1
    <3>2. Accounted(data[i])
      BY <2>1, Zenon DEF OrderInv, AllAccounted
    <3> QED
      BY <1>3, <2>1, <2>3, <3>1, <3>2, Zenon
  <2> QED
    BY <1>5, <2>2, <2>3, Zenon
<1>8. ASSUME NEW q \in Seq(Frame \cup Nop), AllAccounted(q), Before(q, data)
      PROVE  Before(q, data')
  <2> SUFFICES ASSUME NEW i \in DOMAIN q, NEW j \in DOMAIN data' PROVE Precedes(q[i], data'[j])
    BY Zenon DEF Before
  <2>1. q[i] \in Frame \cup Nop
    OBVIOUS
  <2>2. Precedes(q[i], f)
    BY <1>3, <1>8, <2>1, Zenon DEF AllAccounted
  <2> QED
    BY <1>5, <1>8, <2>2, Zenon DEF Before
<1>9. \A u \in Streams : spc'[u] \in {"new", "reserved"} => ~fin_sent'[u]
  BY <1>2, Zenon DEF OrderInv
<1>10. /\ Ordered(wire)' /\ Before(wire, data)'
       /\ (wpc = "write")' => /\ Ordered(batch)' /\ Before(wire, batch)'
                              /\ Before(batch, data)'
  BY <1>1, <1>2, <1>8, Zenon DEF OrderInv
<1> QED
  BY <1>6, <1>7, <1>9, <1>10, Zenon DEF OrderInv

\* The streams' frames reach the wire in order: the FIN stays behind the data
\* because send_fin queues it there, and a batch is written as it was drained.
THEOREM OrderKept == Spec => []OrderInv
<1>1. Init => OrderInv
  BY DEF Init, OrderInv, Ordered, Before, AllAccounted
<1>2. TypeOK /\ TypeOK' /\ FrameLedger /\ OrderInv /\ [Next]_vars => OrderInv'
  <2> SUFFICES ASSUME TypeOK, TypeOK', FrameLedger, OrderInv, [Next]_vars PROVE OrderInv'
    BY Zenon
  <2> USE DEF queueVars, writerVars, streamVars, wakerVars
  <2>0. /\ spc \in [Streams -> {"new", "open", "reserved", "flushing", "gone"}]
        /\ fin_sent \in [Streams -> BOOLEAN] /\ pushed \in Nat
        /\ data \in Seq(Frame \cup Nop) /\ ctrl \in Seq(Frame \cup Nop)
        /\ wire \in Seq(Frame \cup Nop) /\ batch \in Seq(Frame \cup Nop)
    BY DEF TypeOK
  <2>1. ASSUME UNCHANGED <<data, pushed, wire, batch>>, wpc' = "write" => wpc = "write",
               \A s \in Streams :
                 /\ spc[s] # "new" => spc'[s] # "new"
                 /\ fin_sent[s] => fin_sent'[s]
                 /\ spc'[s] \in {"new", "reserved"} => ~fin_sent'[s]
        PROVE  OrderInv'
    <3>1. ASSUME NEW g \in Frame \cup Nop, Accounted(g) PROVE Accounted(g)'
      <4>1. g.cmd # "NOP" => g.sid \in Streams
        BY Zenon DEF Frame, Nop
      <4> QED
        BY <2>1, <3>1, <4>1, ZenonT(30) DEF Accounted, Frame, Nop
    <3>2. AllAccounted(wire)' /\ AllAccounted(batch)' /\ AllAccounted(data)'
      BY <2>0, <2>1, <3>1 DEF AllAccounted, OrderInv
    <3> QED
      BY <2>1, <3>2, Zenon DEF OrderInv
  <2>2. ASSUME NEW s \in Streams, OpenStream(s) PROVE OrderInv'
    <3>1. CASE force_push_data(NewFrame("SYN", s, 0))
      <4>1. ~fin_sent[s] /\ spc[s] = "new"
        BY <2>2, Zenon DEF OpenStream, Polled, OrderInv
      <4>2. fin_sent' = [fin_sent EXCEPT ![s] = "SYN" = "FIN"]
        BY <2>0, <2>2, <4>1, Zenon DEF OpenStream
      <4> QED
        BY <2>2, <3>1, <4>1, <4>2, PushInOrder, Zenon DEF OpenStream, Goto
    <3>2. CASE ~force_push_data(NewFrame("SYN", s, 0))
      BY <2>0, <2>1, <2>2, <3>2, ZenonT(30) DEF OpenStream, Polled, Goto, OrderInv
    <3> QED
      BY <3>1, <3>2, Zenon
  <2>3. ASSUME NEW s \in Streams, poll_reserve(s) PROVE OrderInv'
    BY <2>0, <2>1, <2>3, ZenonT(30) DEF poll_reserve, Polled, Goto, OrderInv
  <2>4. ASSUME NEW s \in Streams, PushPsh(s) PROVE OrderInv'
    <3>1. ASSUME NEW n \in 1..MaxFrame, force_push_data(NewFrame("PSH", s, n))
          PROVE  OrderInv'
      <4>1. ~fin_sent[s] /\ spc[s] = "reserved"
        BY <2>4, Zenon DEF PushPsh, Polled, OrderInv
      <4>2. fin_sent' = [fin_sent EXCEPT ![s] = "PSH" = "FIN"]
        BY <2>0, <2>4, <4>1, Zenon DEF PushPsh
      <4>3. n \in Nat
        BY QueueConstants
      <4> QED
        BY <2>4, <3>1, <4>1, <4>2, <4>3, PushInOrder, Zenon DEF PushPsh, Goto
    <3>2. CASE UNCHANGED queueVars
      BY <2>0, <2>1, <2>4, <3>2, ZenonT(30) DEF PushPsh, Polled, Goto, OrderInv
    <3> QED
      BY <2>4, <3>1, <3>2, Zenon DEF PushPsh
  <2>5. ASSUME NEW s \in Streams, StartFlush(s) \/ poll_flushed(s) PROVE OrderInv'
    BY <2>0, <2>1, <2>5 DEF StartFlush, poll_flushed, Polled, Goto, OrderInv
  <2>6. ASSUME NEW s \in Streams, send_fin(s) PROVE OrderInv'
    <3>1. CASE force_push_data(NewFrame("FIN", s, 0))
      <4>1. ~fin_sent[s] /\ spc[s] = "open"
        BY <2>6, Zenon DEF send_fin, Polled
      <4>2. fin_sent' = [fin_sent EXCEPT ![s] = "FIN" = "FIN"]
        BY <2>0, <2>6, Zenon DEF send_fin
      <4> QED
        BY <2>6, <3>1, <4>1, <4>2, PushInOrder, ZenonT(30) DEF send_fin, Goto
    <3>2. CASE UNCHANGED queueVars
      BY <2>0, <2>1, <2>6, <3>2, ZenonT(30) DEF send_fin, Polled, Goto, OrderInv
    <3> QED
      BY <2>6, <3>1, <3>2, Zenon DEF send_fin
  <2>7. CASE push_ctrl
    <3>1. ASSUME NEW g \in Frame \cup Nop, Accounted(g) PROVE Accounted(g)'
      BY <2>0, <2>7, <3>1 DEF push_ctrl, Accounted, Frame, Nop
    <3>2. AllAccounted(wire)' /\ AllAccounted(batch)' /\ AllAccounted(data)'
      BY <2>0, <2>7, <3>1 DEF push_ctrl, AllAccounted, OrderInv
    <3> QED
      BY <2>7, <3>2, Zenon DEF push_ctrl, OrderInv
  <2>8. CASE take_batch
    <3>1. /\ batch' = ctrl \o data /\ data' = <<>> /\ wpc' = "write"
          /\ UNCHANGED <<wire, pushed, spc, fin_sent>>
      BY <2>8, Zenon DEF take_batch, BatchReady
    <3>2. \A i \in DOMAIN ctrl : ctrl[i].cmd = "NOP" /\ ctrl[i].seq \in Nums(ctrl)
      <4>1. \A i \in DOMAIN ctrl : ctrl[i] \in Nop
        BY DEF TypeOK
      <4> QED
        BY <4>1, Zenon DEF Nop, Nums
    <3>3. Ordered(ctrl) /\ Before(ctrl, data) /\ Before(wire, ctrl)
      BY <3>2, Zenon DEF Ordered, Before, Precedes
    <3>4. Ordered(batch')
      BY <2>0, <3>1, <3>3, OrderedConcat, Zenon DEF OrderInv
    <3>5. Before(wire, batch')
      BY <2>0, <3>1, <3>3, BeforeConcat, Zenon DEF OrderInv
    <3>6. AllAccounted(ctrl)
      <4>1. \A m \in Nums(ctrl) : m <= pushed
        BY DEF FrameLedger, TypeOK
      <4> QED
        BY <3>2, <4>1, Zenon DEF AllAccounted, Accounted
    <3>7. AllAccounted(batch')
      BY <2>0, <3>1, <3>6, BeforeConcat, Zenon DEF OrderInv
    <3>8. \A q : AllAccounted(q) => AllAccounted(q)'
      BY <3>1, Zenon DEF AllAccounted, Accounted
    <3>9. Ordered(<<>>) /\ (\A q : Before(q, <<>>)) /\ AllAccounted(<<>>)
      BY DEF Ordered, Before, AllAccounted
    <3> QED
      BY <3>1, <3>4, <3>5, <3>7, <3>8, <3>9, Zenon DEF OrderInv, AllAccounted, Accounted
  <2>9. CASE WriteBatch
    <3>1. /\ wire' = wire \o batch /\ wpc = "write" /\ wpc' = "mark"
          /\ UNCHANGED <<data, batch, pushed, spc, fin_sent>>
      BY <2>9, Zenon DEF WriteBatch
    <3>2. Ordered(wire') /\ Before(wire', data) /\ AllAccounted(wire')
      BY <2>0, <3>1, OrderedConcat, BeforeConcat, Zenon DEF OrderInv
    <3> QED
      BY <3>1, <3>2, Zenon DEF OrderInv, AllAccounted, Accounted
  <2>10. CASE mark_written
    BY <2>10 DEF mark_written, OrderInv, AllAccounted, Accounted
  <2>11. CASE DrainEmpty \/ CheckClosed \/ Notified \/ close \/ WriterStops \/ UNCHANGED vars
    BY <2>1, <2>11, Zenon DEF DrainEmpty, CheckClosed, Notified, close, WriterStops, vars, OrderInv
  <2> QED
    BY <2>2, <2>3, <2>4, <2>5, <2>6, <2>7, <2>8, <2>9, <2>10, <2>11, Zenon
       DEF Next, Stream, Writer
<1> QED
  BY <1>1, <1>2, QueueTyped, LedgerKept, PTL DEF Spec

\* From push to write the queue keeps its frames, for any number of streams: none
\* is lost, doubled or counted twice, each stream's leave in its order, and a
\* flush is honest.
THEOREM QueueKeepsFrames == Spec => []FramesKept
<1>1. OrderInv => StreamOrderOnWire
  BY Zenon DEF OrderInv, StreamOrderOnWire, Ordered, Precedes
<1> QED
  BY <1>1, OrderKept, QueueTyped, LedgerKept, FlushIsHonest, PTL DEF FramesKept

=============================================================================
