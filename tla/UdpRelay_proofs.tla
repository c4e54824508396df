-------------------------- MODULE UdpRelay_proofs --------------------------
(***************************************************************************)
(* The UDP relays, for any lists, any resolver, any hop and any number of  *)
(* datagrams: an association serves its owner only (OwnerServed), only     *)
(* allowed destinations are sent to (DirectAllowed), and the datagrams of  *)
(* a relay arrive whole, in order and at the one they were meant for,      *)
(* whether they go straight out or as frames over a stream to the hop      *)
(* (TunnelKept).                                                           *)
(*                                                                         *)
(* OwnerServed is not inductive: that a datagram which passes is the first *)
(* sender's needs that client_addr is the first sender from the first      *)
(* datagram on (OwnerIsFirst), and that nothing else writes it.  Neither   *)
(* is TunnelKept, which speaks of the two ends: its invariant lists every  *)
(* place a datagram can be in on its way (the lines of requests and of     *)
(* replies), in order, and says what the tasks at each place hold.         *)
(***************************************************************************)
EXTENDS UdpRelay, TLAPS

Typed ==
    /\ dg \in [1 .. MaxSend -> Datagrams]
    /\ sends \in 0 .. MaxSend
    /\ world \in Seq(Nat)

\* An ASSOCIATE never has a hop, and a relay with a hop sends nothing itself.
Separate ==
    /\ kind = "associate" => direct
    /\ ~direct => world = <<>>

OwnerIsFirst ==
    kind = "associate" =>
        /\ sends = 0 => owner.who = Nobody
        /\ sends > 0 => owner.who = dg[1].from

\* The positions of a sequence.
LEMMA Positions == \A T : \A x \in Seq(T) : DOMAIN x = 1 .. Len(x)
  OBVIOUS

\* The elements of a sequence.
LEMMA Elements == \A T : \A x \in Seq(T) : \A i \in DOMAIN x : x[i] \in T
  OBVIOUS

\* A queue within its bound stays within it when its head is taken.
LEMMA Taken ==
    \A T, q, cap : q \in Seq(T) /\ q # <<>> /\ cap \in Nat /\ Len(q) <= cap =>
        Tail(q) \in Seq(T) /\ Head(q) \in T /\ Len(Tail(q)) <= cap
  OBVIOUS

\* A queue below its bound is within it when an element is put behind it.
LEMMA Put ==
    \A T, q, x, cap : q \in Seq(T) /\ x \in T /\ cap \in Nat /\ Len(q) < cap =>
        Append(q, x) \in Seq(T) /\ Len(Append(q, x)) <= cap
  OBVIOUS

\* Where the elements of two sequences are in the one made of them.
LEMMA Joined ==
  \A m, n \in Nat : \A i \in 1 .. m + n :
    \/ i \in 1 .. m /\ i <= m
    \/ i > m /\ ~(i <= m) /\ i - m \in 1 .. n /\ i \notin 1 .. m
  OBVIOUS

\* The same, from the elements' side.
LEMMA JoinedFrom ==
  \A m, n \in Nat :
    /\ \A i \in 1 .. m : i \in 1 .. m + n /\ i <= m
    /\ \A i \in 1 .. n : i + m \in 1 .. m + n /\ ~(i + m <= m) /\ (i + m) - m = i
  OBVIOUS

\* Their order.
LEMMA JoinedOrder ==
  \A m, n \in Nat : \A i, j \in 1 .. m + n :
    i < j => (j \in 1 .. m => i \in 1 .. m) /\ i - m < j - m
  OBVIOUS

\* A number below a bound that is itself within one.
LEMMA Within == \A m, n, k \in Nat : n \in 1 .. m /\ m \in 0 .. k => n \in 1 .. k
  OBVIOUS

IInv == Typed /\ Separate /\ OwnerIsFirst /\ OwnerServed /\ DirectAllowed

\* What a step with a hop does to the state that matters here.
LEMMA TunnelStep ==
    ASSUME Next
    PROVE  /\ UNCHANGED config
           /\ sends' = sends \/ (sends < MaxSend /\ sends' = sends + 1)
<1>1. CASE Opens \/ DialFails
  BY <1>1, Zenon DEF Opens, DialFails, config
<1>2. CASE Relay
  <2>1. CASE RelayReads
    BY <2>1, Zenon DEF RelayReads, config
  <2>2. CASE RelaySends \/ RelayReceives
    BY <2>2, Zenon DEF RelaySends, RelayReceives, config
  <2>3. CASE RelayRecvFails \/ RelayEnds \/ RelayDrops
    BY <2>3, Zenon DEF RelayRecvFails, RelayEnds, RelayDrops, config
  <2> QED BY <1>2, <2>1, <2>2, <2>3, Zenon DEF Relay
<1>3. CASE Writer
  BY <1>3, Zenon DEF Writer, WriterTakes, WriterSends, WriterFails, WriterEnds, Leaves, config
<1>4. CASE Reader
  BY <1>4, Zenon DEF Reader, ReaderWants, ReaderFills, ReaderPuts, ReaderEnds, Leaves, config
<1>5. CASE Aborted
  BY <1>5, Zenon DEF Aborted, Leaves, config
<1>6. CASE Hop
  BY <1>6, Zenon DEF Hop, HopBinds, HopFills, HopReplies, HopEnds, config
<1>7. CASE FromPeer \/ HopSocketFails \/ Breaks
  BY <1>7, Zenon DEF FromPeer, HopSocketFails, Breaks, config
<1>8. CASE Over
  BY <1>8, Zenon DEF Over, vars, config
<1> QED BY <1>1, <1>2, <1>3, <1>4, <1>5, <1>6, <1>7, <1>8, Zenon DEF Next

\* What passes in a direct relay: what the lists allow, and for an ASSOCIATE
\* only what the first sender sent.
LEMMA PassesIsAllowed ==
    ASSUME IInv, sends < MaxSend, DirectPasses(sends + 1)
    PROVE  LET n == sends + 1 IN
           /\ kind = "ssu" => {dg[n].at, Resolve[dg[n].at]} \subseteq RelayAllows
           /\ kind = "associate" => /\ {dg[n].at, Resolve[dg[n].at]} \subseteq HopAllows
                                    /\ dg[n].from = dg[1].from
<1> DEFINE n == sends + 1
<1>1. CASE kind = "ssu"
  BY <1>1, Zenon DEF DirectPasses, RelayPasses
<1>2. CASE kind = "associate"
  <2>1. Owner(n).who = dg[n].from /\ HopPasses(n)
    BY <1>2, Zenon DEF DirectPasses
  <2>2. {dg[n].at, Resolve[dg[n].at]} \subseteq HopAllows
    BY <1>2, <2>1, Zenon DEF HopPasses, Dst
  <2>3. CASE sends = 0
    BY <2>2, <2>3, <1>2
  <2>4. CASE sends > 0
    <3>1. 1 \in 1 .. MaxSend
      BY <2>4, TunnelConstants DEF IInv, Typed
    <3>2. dg[1].from \in Clients
      BY <3>1, Zenon DEF IInv, Typed, Datagrams
    <3>3. owner.who = dg[1].from /\ owner.who # Nobody
      BY <1>2, <2>4, <3>2, RelayConstants, Zenon DEF IInv, OwnerIsFirst
    <3>4. Owner(n) = owner
      BY <3>3, Zenon DEF Owner
    <3> QED BY <1>2, <2>1, <2>2, <3>3, <3>4, Zenon
  <2> QED BY <2>3, <2>4 DEF IInv, Typed
<1> QED BY <1>1, <1>2, Zenon

\* The invariant holds before the first datagram.
LEMMA InitIInv == RelayInit => IInv
<1> SUFFICES ASSUME RelayInit PROVE IInv
  BY Zenon
<1>1. Typed
  BY TunnelConstants DEF RelayInit, Init, Typed
<1>2. Separate /\ OwnerIsFirst
  BY DEF RelayInit, Init, Separate, OwnerIsFirst
<1>3. OwnerServed /\ DirectAllowed
  BY DEF RelayInit, OwnerServed, DirectAllowed
<1> QED BY <1>1, <1>2, <1>3, Zenon DEF IInv

\* A datagram of the client side.
LEMMA ReadsKeep ==
    ASSUME IInv, DirectReads
    PROVE  IInv'
<1> DEFINE n == sends + 1
<1>1. /\ sends < MaxSend /\ sends' = n /\ owner' = Owner(n) /\ direct
      /\ UNCHANGED <<kind, dg, direct, client>>
      /\ world' = world \/ (DirectPasses(n) /\ world' = Append(world, n))
  BY Zenon DEF DirectReads, config
<1>2. n \in Nat /\ n \in 1 .. MaxSend
  BY <1>1, TunnelConstants DEF IInv, Typed
<1>0. world \in Seq(Nat)
  BY Zenon DEF IInv, Typed
<1>3. Typed'
  <2>1. world' \in Seq(Nat)
    <3>1. CASE world' = world
      BY <1>0, <3>1, Zenon
    <3>2. CASE world' = Append(world, n)
      BY <1>0, <1>2, <3>2
    <3> QED BY <1>1, <3>1, <3>2, Zenon
  <2>2. dg' = dg /\ sends' \in 0 .. MaxSend
    BY <1>1, <1>2
  <2> QED BY <2>1, <2>2, Zenon DEF IInv, Typed
<1>4. Separate'
  BY <1>1, Zenon DEF IInv, Separate
<1>5. OwnerIsFirst'
  <2> SUFFICES ASSUME kind = "associate" PROVE owner'.who = dg[1].from
    BY <1>1, <1>2 DEF OwnerIsFirst
  <2>1. CASE sends = 0
    BY <1>1, <2>1 DEF Owner, IInv, OwnerIsFirst
  <2>2. CASE sends > 0
    <3>1. dg[1].from \in Clients
      BY <1>2, <2>2, TunnelConstants DEF IInv, Typed, Datagrams
    <3>2. owner.who = dg[1].from /\ owner.who # Nobody
      BY <2>2, <3>1, RelayConstants, Zenon DEF IInv, OwnerIsFirst
    <3> QED BY <1>1, <3>2, Zenon DEF Owner
  <2> QED BY <2>1, <2>2 DEF IInv, Typed
<1>6. ASSUME NEW i \in DOMAIN world'
      PROVE  \/ i \in DOMAIN world /\ world'[i] = world[i]
             \/ world'[i] = n /\ DirectPasses(n)
  <2>1. CASE world' = world
    BY <2>1, <1>6, Zenon
  <2>2. CASE DirectPasses(n) /\ world' = Append(world, n)
    <3>1. /\ Len(world') = Len(world) + 1 /\ DOMAIN world' = 1 .. Len(world')
          /\ DOMAIN world = 1 .. Len(world) /\ Len(world) \in Nat
          /\ world'[Len(world) + 1] = n
          /\ \A j \in 1 .. Len(world) : world'[j] = world[j]
      BY <1>0, <1>2, <2>2
    <3>2. i \in 1 .. Len(world) \/ i = Len(world) + 1
      BY <3>1, <1>6
    <3> QED BY <2>2, <3>1, <3>2, Zenon
  <2> QED BY <1>1, <2>1, <2>2, Zenon
<1>7. OwnerServed'
  BY <1>1, <1>2, <1>6, PassesIsAllowed DEF IInv, OwnerServed
<1>8. DirectAllowed'
  BY <1>1, <1>6, PassesIsAllowed DEF IInv, DirectAllowed
<1> QED BY <1>3, <1>4, <1>5, <1>7, <1>8, Zenon DEF IInv

\* A datagram of the world.
LEMMA ReceivesKeep ==
    ASSUME IInv, DirectReceives
    PROVE  IInv'
<1>1. /\ UNCHANGED <<kind, dg, sends, direct, owner, world>>
      /\ client' = client \/ Returns(replies + 1)
  BY Zenon DEF DirectReceives, config
<1>2. Typed' /\ Separate' /\ OwnerIsFirst' /\ DirectAllowed'
  BY <1>1, Zenon DEF IInv, Typed, Separate, OwnerIsFirst, DirectAllowed
<1>3. kind = "associate" /\ Returns(replies + 1) => sends > 0
  BY DEF Returns, IInv, OwnerIsFirst, Typed
<1>4. OwnerServed'
  BY <1>1, <1>3, Zenon DEF IInv, OwnerServed
<1> QED BY <1>2, <1>4, Zenon DEF IInv

\* Every step keeps it.
LEMMA NextIInv == IInv /\ [RelayNext]_allvars => IInv'
<1> SUFFICES ASSUME IInv, [RelayNext]_allvars PROVE IInv'
  BY Zenon
<1>1. CASE Tunnelled
  <2>1. ~direct /\ UNCHANGED <<kind, dg, direct, owner, world, client>>
    BY <1>1, TunnelStep, Zenon DEF Tunnelled, dvars, config
  <2>2. sends' \in 0 .. MaxSend
    BY <1>1, TunnelStep, TunnelConstants DEF Tunnelled, IInv, Typed
  <2>3. kind # "associate" /\ world = <<>>
    BY <2>1, Zenon DEF IInv, Separate
  <2> QED BY <2>1, <2>2, <2>3, Zenon DEF IInv, Typed, Separate, OwnerIsFirst, OwnerServed, DirectAllowed
<1>2. CASE DirectReads
  BY <1>2, ReadsKeep, Zenon
<1>3. CASE DirectReceives
  BY <1>3, ReceivesKeep, Zenon
<1>4. CASE DirectOpens \/ DirectFails \/ DirectRecvFails \/ ControlCloses \/ DirectEnds \/ RelayOver
           \/ UNCHANGED allvars
  <2>1. UNCHANGED <<kind, dg, sends, direct, owner, world, client>>
    <3>1. CASE DirectOpens \/ DirectFails
      BY <3>1, Zenon DEF DirectOpens, DirectFails, config
    <3>2. CASE DirectRecvFails \/ DirectEnds
      BY <3>2, Zenon DEF DirectRecvFails, DirectEnds, config, dvars
    <3>3. CASE ControlCloses \/ RelayOver \/ UNCHANGED allvars
      BY <3>3, Zenon DEF ControlCloses, RelayOver, allvars, vars, config, dvars
    <3> QED BY <1>4, <3>1, <3>2, <3>3, Zenon
  <2> QED BY <2>1, Zenon DEF IInv, Typed, Separate, OwnerIsFirst, OwnerServed, DirectAllowed
<1> QED BY <1>1, <1>2, <1>3, <1>4, Zenon DEF RelayNext, Loop

\* An association serves one client, the first that sent to its relay socket,
\* whatever arrives in whatever order (transport_udp).
THEOREM RelayOwner == RelaySpec => []OwnerServed
<1>1. IInv => OwnerServed
  BY Zenon DEF IInv
<1> QED BY <1>1, InitIInv, NextIInv, PTL DEF RelaySpec

\* A relay without a hop sends to a destination only when its lists allow it
\* as written and as resolved (udp_dst_allowed, asked twice).
THEOREM RelayAllowed == RelaySpec => []DirectAllowed
<1>1. IInv => DirectAllowed
  BY Zenon DEF IInv
<1> QED BY <1>1, InitIInv, NextIInv, PTL DEF RelaySpec

\* Both together: who is served and where datagrams go, without a hop.
THEOREM RelayGuarded == RelaySpec => []RelaysGuarded
<1>1. OwnerServed /\ DirectAllowed => RelaysGuarded
  BY Zenon DEF RelaysGuarded
<1> QED BY <1>1, RelayOwner, RelayAllowed, PTL
-----------------------------------------------------------------------------
(* What is relayed.  Both ways of the tunnel are lines of five places; a   *)
(* step moves a datagram, or a part of its frame, from one place to the    *)
(* end of the next, takes it off the line, or puts a new one at its end.   *)
(* So the order is kept.  Nothing is lost because the reader of a stream   *)
(* and the writer of it agree on where a frame begins (Framed, EndsAt),    *)
(* whatever interrupts either of them.                                     *)

Parts == (1 .. MaxSend) \X (1 .. 2)
AnswerParts == (1 .. MaxReply) \X (1 .. 2)

\* What the parts of the state range over.
SendNos == 1 .. MaxSend
ReplyNos == 1 .. MaxReply
RelayStates == [pc : {"dial", "bound", "refused", "select", "sending", "direct", "drop", "gone"},
                n : 0 .. MaxSend, errs : 0 .. MaxErrors]
WriterStates == [pc : {"off", "recv", "send", "gone"}, n : 0 .. MaxSend, k : 0 .. 1]
ReaderStates == [pc : {"off", "want", "recv", "put", "gone"}, n : 0 .. MaxReply, k : 0 .. 1]
HopStates == [pc : {"request", "select", "reply", "body", "gone"}, n : 0 .. MaxReply, k : 0 .. 1]
USE DEF SendNos, ReplyNos, RelayStates, WriterStates, ReaderStates, HopStates

Shaped ==
    /\ kind \in {"forward", "ssu", "rudp", "associate"}
    /\ dg \in [1 .. MaxSend -> Datagrams] /\ rp \in [1 .. MaxReply -> Datagrams]
    /\ relay \in RelayStates /\ writer \in WriterStates /\ reader \in ReaderStates /\ hop \in HopStates
    /\ sends \in 0 .. MaxSend /\ replies \in 0 .. MaxReply
    /\ out \in Seq(SendNos) /\ sent \in Seq(SendNos) /\ c2s \in Seq(Parts)
    /\ inq \in Seq(ReplyNos) /\ back \in Seq(ReplyNos) /\ s2c \in Seq(AnswerParts)
    /\ Len(out) <= ChanCap /\ Len(inq) <= ChanCap /\ Len(c2s) <= WireCap /\ Len(s2c) <= WireCap
    /\ relay.pc \in {"dial", "bound", "refused"} => writer.pc = "off" /\ reader.pc = "off"
    /\ hop.pc = "request" /\ ~closed => relay.pc = "dial"
    /\ abort => relay.pc = "gone"

\* Who is in the queue of the mutex is there once, and asked for it.
Locked ==
    /\ lockq \in Seq(Pumps) /\ IsInjective(lockq)
    /\ \A i \in DOMAIN lockq : /\ lockq[i] = "w" => writer.pc = "send"
                               /\ lockq[i] = "r" => reader.pc = "recv"

\* Five places in a row.
Before(S, T) == \A x \in S, y \in T : Precedes(x, y)
Line(a, b, c, d, e) ==
    /\ Before(a, b) /\ Before(a, c) /\ Before(a, d) /\ Before(a, e)
    /\ Before(b, c) /\ Before(b, d) /\ Before(b, e)
    /\ Before(c, d) /\ Before(c, e) /\ Before(d, e)

\* A stream whose reader has read a parts of a frame, and whose writer has
\* written b parts of one.
Framed(w, a) == \A i \in DOMAIN w : w[i][2] = IF i = 1 THEN a + 1 ELSE 3 - w[i - 1][2]
EndsAt(w, a, b) == IF w = <<>> THEN a = b ELSE w[Len(w)][2] = 2 - b

\* The places: what is in one piece counts as the part that goes out next.
Each(q, k) == {<<q[i], k>> : i \in DOMAIN q}
AtWriter == IF writer.pc = "send" THEN {<<writer.n, writer.k + 1>>} ELSE {}
AtRelay == IF relay.pc = "sending" THEN {<<relay.n, 1>>} ELSE {}
AtReader == IF reader.pc = "put" THEN {<<reader.n, 2>>} ELSE {}
AtHop == IF hop.pc = "reply" THEN {<<hop.n, 1>>} ELSE IF hop.pc = "body" THEN {<<hop.n, 2>>} ELSE {}

RequestLine == Line(Each(sent, 2), Range(c2s), AtWriter, Each(out, 1), AtRelay)
OnRequestLine == Each(sent, 2) \cup Range(c2s) \cup AtWriter \cup Each(out, 1) \cup AtRelay

RequestsInv ==
    /\ Increasing(sent) /\ InOrder(c2s) /\ Increasing(out) /\ RequestLine
    /\ \A x \in OnRequestLine : x[1] \in 1 .. sends /\ RelayPasses(x[1])
    /\ \A i \in DOMAIN sent : HopPasses(sent[i])
    /\ writer.pc # "send" => writer.k = 0
    /\ ~broken /\ hop.pc # "gone" =>
           Framed(c2s, hop.k) /\ (writer.pc # "gone" => EndsAt(c2s, hop.k, writer.k))
    /\ Alive => \A n \in 1 .. sends :
           ~dg[n].empty /\ RelayPasses(n) /\ HopPasses(n) =>
               \/ <<n, 2>> \in Each(sent, 2) \/ <<n, 2>> \in Range(c2s)
               \/ writer.pc = "send" /\ writer.n = n
               \/ <<n, 1>> \in Each(out, 1) \/ <<n, 1>> \in AtRelay

AnswerLine == Line(Each(back, 2), Each(inq, 2), AtReader, Range(s2c), AtHop)
OnAnswerLine == Each(back, 2) \cup Each(inq, 2) \cup AtReader \cup Range(s2c) \cup AtHop

RepliesInv ==
    /\ Increasing(back) /\ Increasing(inq) /\ InOrder(s2c) /\ AnswerLine
    /\ \A x \in OnAnswerLine : x[1] \in 1 .. replies
    /\ reader.pc # "recv" => reader.k = 0
    /\ ~broken /\ reader.pc # "gone" =>
           /\ Framed(s2c, reader.k)
           /\ hop.pc # "gone" => EndsAt(s2c, reader.k, IF hop.pc = "body" THEN 1 ELSE 0)
    /\ Alive => \A n \in 1 .. replies :
           ~rp[n].empty /\ rp[n].at \notin Bypassed =>
               \/ <<n, 2>> \in Each(back, 2) \/ <<n, 2>> \in Each(inq, 2) \/ <<n, 2>> \in AtReader
               \/ <<n, 2>> \in Range(s2c) \/ (hop.pc \in {"reply", "body"} /\ hop.n = n)

\* A relay without a hop has nothing on either way.
NoTunnelInv ==
    direct =>
        /\ out = <<>> /\ inq = <<>> /\ c2s = <<>> /\ s2c = <<>> /\ sent = <<>> /\ back = <<>>
        /\ writer \in {Off, Gone} /\ reader \in {Off, Gone}
        /\ hop.pc \in {"request", "gone"} /\ (relay.pc # "dial" => hop.pc = "gone")
        /\ relay.pc \in {"dial", "direct", "gone"}
        /\ relay.pc = "dial" => /\ sends = 0 /\ replies = 0 /\ world = <<>> /\ client = <<>> /\ lost = {}
                                /\ owner = [who |-> Nobody, since |-> 0]
        /\ client \in Seq(Nat)
        /\ kind = "associate" /\ owner.who = Nobody => sends = 0 /\ client = <<>>
        /\ owner.since \in 0 .. replies
        /\ lost \subseteq 1 .. sends

\* All of it together.
KeptInv == IInv /\ Shaped /\ Locked /\ RequestsInv /\ RepliesInv /\ NoTunnelInv /\ DirectKept

-----------------------------------------------------------------------------
(* The invariant holds at the start, and implies what the tunnel promises. *)

\* The invariant holds at the start.
LEMMA KeptInit == RelayInit => KeptInv
<1> SUFFICES ASSUME RelayInit PROVE KeptInv
  BY Zenon
<1>0. MaxSend \in Nat /\ MaxReply \in Nat /\ ChanCap \in Nat /\ WireCap \in Nat /\ MaxErrors \in Nat
  BY TunnelConstants, Zenon
<1>1. /\ kind \in Kinds /\ dg \in Sends /\ rp \in Replies /\ sends = 0 /\ replies = 0
      /\ relay = [pc |-> "dial", n |-> 0, errs |-> 0]
      /\ out = <<>> /\ inq = <<>> /\ c2s = <<>> /\ s2c = <<>> /\ sent = <<>> /\ back = <<>> /\ lockq = <<>>
      /\ writer = Off /\ reader = Off /\ hop = [pc |-> "request", n |-> 0, k |-> 0]
      /\ abort = FALSE /\ closed = FALSE /\ broken = FALSE
      /\ owner = [who |-> Nobody, since |-> 0] /\ world = <<>> /\ client = <<>> /\ lost = {}
  BY Zenon DEF RelayInit, Init
<1>2. Shaped
  <2>1. relay \in RelayStates /\ writer \in WriterStates /\ reader \in ReaderStates /\ hop \in HopStates
    BY <1>0, <1>1 DEF RelayStates, WriterStates, ReaderStates, HopStates, Off
  <2>2. /\ kind \in {"forward", "ssu", "rudp", "associate"}
        /\ dg \in [1 .. MaxSend -> Datagrams] /\ rp \in [1 .. MaxReply -> Datagrams]
    BY <1>1, TunnelConstants, Zenon
  <2>3. \A T : <<>> \in Seq(T)
    OBVIOUS
  <2>4. Len(<<>>) = 0
    BY Zenon
  <2> QED
    BY <1>0, <1>1, <2>1, <2>2, <2>3, <2>4 DEF Shaped, Off
<1>3. Locked
  BY <1>1 DEF Locked, IsInjective
<1>4. Each(sent, 2) = {} /\ Each(out, 1) = {} /\ Each(back, 2) = {} /\ Each(inq, 2) = {} /\ Range(c2s) = {} /\ Range(s2c) = {}
  BY <1>1 DEF Each, Range
<1>5. AtWriter = {} /\ AtRelay = {} /\ AtReader = {} /\ AtHop = {}
  BY <1>1, Zenon DEF AtWriter, AtRelay, AtReader, AtHop, Off
<1>6. RequestLine /\ OnRequestLine = {} /\ AnswerLine /\ OnAnswerLine = {}
  BY <1>4, <1>5, Zenon DEF RequestLine, OnRequestLine, AnswerLine, OnAnswerLine, Line, Before
<1>7. /\ Increasing(sent) /\ Increasing(out) /\ Increasing(back) /\ Increasing(inq) /\ InOrder(c2s) /\ InOrder(s2c)
      /\ Framed(c2s, 0) /\ EndsAt(c2s, 0, 0) /\ Framed(s2c, 0) /\ EndsAt(s2c, 0, 0)
  BY <1>1 DEF Increasing, InOrder, Framed, EndsAt
<1>8. hop.k = 0 /\ writer.k = 0 /\ reader.k = 0 /\ hop.pc = "request" /\ writer.pc = "off" /\ reader.pc = "off"
  BY <1>1, Zenon DEF Off
<1>9. RequestsInv
  BY <1>1, <1>6, <1>7, <1>8 DEF RequestsInv
<1>10. RepliesInv
  BY <1>1, <1>6, <1>7, <1>8 DEF RepliesInv
<1>11. NoTunnelInv
  BY <1>1 DEF NoTunnelInv
<1>12. DirectKept
  BY <1>1, Zenon DEF DirectKept
<1> QED
  BY <1>2, <1>3, <1>9, <1>10, <1>11, <1>12, InitIInv, Zenon DEF KeptInv

\* Two stretches of a way make one.
LEMMA WaysJoin ==
    ASSUME NEW T, NEW p \in Seq(T), NEW q \in Seq(T), InOrder(p), InOrder(q), Before(Range(p), Range(q))
    PROVE  p \o q \in Seq(T) /\ InOrder(p \o q) /\ Range(p \o q) = Range(p) \cup Range(q)
<1> DEFINE c == p \o q
<1>1. /\ c \in Seq(T) /\ Len(c) = Len(p) + Len(q) /\ Len(p) \in Nat /\ Len(q) \in Nat
      /\ \A i \in 1 .. Len(p) + Len(q) : c[i] = IF i <= Len(p) THEN p[i] ELSE q[i - Len(p)]
  OBVIOUS
<1> HIDE DEF c
<1>2. DOMAIN p = 1 .. Len(p) /\ DOMAIN q = 1 .. Len(q) /\ DOMAIN c = 1 .. Len(p) + Len(q)
  BY <1>1, Positions, Zenon
<1>3. ASSUME NEW i \in DOMAIN c
      PROVE  \/ i \in DOMAIN p /\ c[i] = p[i]
             \/ i > Len(p) /\ i - Len(p) \in DOMAIN q /\ c[i] = q[i - Len(p)]
  BY <1>1, <1>2, Joined, Zenon
<1>4. Range(c) = Range(p) \cup Range(q)
  <2>1. \A i \in DOMAIN p : i \in DOMAIN c /\ c[i] = p[i]
    BY <1>1, <1>2, JoinedFrom, Zenon
  <2>2. \A i \in DOMAIN q : i + Len(p) \in DOMAIN c /\ c[i + Len(p)] = q[i]
    BY <1>1, <1>2, JoinedFrom, Zenon
  <2>3. \A x \in Range(c) : x \in Range(p) \/ x \in Range(q)
    BY <1>3, Zenon DEF Range
  <2>4. \A x \in Range(p) : x \in Range(c)
    BY <2>1, Zenon DEF Range
  <2>5. \A x \in Range(q) : x \in Range(c)
    BY <2>2, Zenon DEF Range
  <2> QED
    BY <2>3, <2>4, <2>5, Zenon
<1>5. InOrder(c)
  <2> SUFFICES ASSUME NEW i \in DOMAIN c, NEW j \in DOMAIN c, i < j PROVE Precedes(c[i], c[j])
    BY Zenon DEF InOrder
  <2>1. (j \in DOMAIN p => i \in DOMAIN p) /\ i - Len(p) < j - Len(p)
    BY <1>1, <1>2, JoinedOrder, Zenon
  <2>a. \A k \in DOMAIN p : c[k] = p[k]
    BY <1>1, <1>2, JoinedFrom, Zenon
  <2>2. CASE j \in DOMAIN p
    BY <2>1, <2>2, <2>a, Zenon DEF InOrder
  <2>3. CASE j \notin DOMAIN p /\ i \in DOMAIN p
    <3>1. c[i] \in Range(p) /\ c[j] \in Range(q)
      BY <1>3, <2>3, <2>a, Zenon DEF Range
    <3> QED
      BY <3>1, Zenon DEF Before
  <2>4. CASE j \notin DOMAIN p /\ i \notin DOMAIN p
    <3>1. i - Len(p) \in DOMAIN q /\ c[i] = q[i - Len(p)] /\ j - Len(p) \in DOMAIN q /\ c[j] = q[j - Len(p)]
      BY <1>3, <2>4, Zenon
    <3> QED
      BY <2>1, <3>1, Zenon DEF InOrder
  <2> QED
    BY <2>1, <2>2, <2>3, <2>4, Zenon
<1> QED
  BY <1>1, <1>4, <1>5, Zenon DEF c

\* A stretch of whole datagrams, and one in a task's hand.
LEMMA WholeWay ==
    ASSUME NEW q \in Seq(Nat), Increasing(q)
    PROVE  Whole(q) \in Seq(Nat \X Nat) /\ InOrder(Whole(q)) /\ Range(Whole(q)) = Each(q, 2)
<1>1. DOMAIN q = 1 .. Len(q) /\ Len(q) \in Nat /\ \A i \in DOMAIN q : q[i] \in Nat
  OBVIOUS
<1>2. Whole(q) \in Seq(Nat \X Nat)
  <2>1. Whole(q) \in [1 .. Len(q) -> Nat \X Nat]
    BY <1>1, Zenon DEF Whole
  <2> QED
    BY <1>1, <2>1
<1>3. DOMAIN Whole(q) = DOMAIN q /\ \A i \in DOMAIN q : Whole(q)[i] = <<q[i], 2>>
  BY Zenon DEF Whole
<1>4. InOrder(Whole(q))
  BY <1>3 DEF InOrder, Increasing, Precedes
<1>5. Range(Whole(q)) = Each(q, 2)
  BY <1>3, Zenon DEF Range, Each
<1> QED
  BY <1>2, <1>4, <1>5, Zenon

\* What a task holds is one message at most.
LEMMA HandWay ==
    ASSUME NEW task, NEW pcs, task.pc \in pcs => task.n \in Nat
    PROVE  /\ Hand(task, pcs) \in Seq(Nat \X Nat) /\ InOrder(Hand(task, pcs))
           /\ Range(Hand(task, pcs)) = IF task.pc \in pcs THEN {<<task.n, 2>>} ELSE {}
<1>1. CASE task.pc \in pcs
  <2>1. Hand(task, pcs) = << <<task.n, 2>> >> /\ <<task.n, 2>> \in Nat \X Nat
    BY <1>1, Zenon DEF Hand
  <2> QED
    BY <1>1, <2>1 DEF InOrder, Range
<1>2. CASE task.pc \notin pcs
  <2>1. Hand(task, pcs) = <<>>
    BY <1>2, Zenon DEF Hand
  <2> QED
    BY <1>2, <2>1 DEF InOrder, Range
<1> QED
  BY <1>1, <1>2, Zenon

\* Five stretches that follow each other.
LEMMA LineJoins ==
    ASSUME NEW T, NEW a \in Seq(T), NEW b \in Seq(T), NEW c \in Seq(T), NEW d \in Seq(T), NEW e \in Seq(T),
           InOrder(a), InOrder(b), InOrder(c), InOrder(d), InOrder(e),
           Line(Range(a), Range(b), Range(c), Range(d), Range(e))
    PROVE  /\ InOrder(a \o b \o c \o d \o e)
           /\ Range(a \o b \o c \o d \o e) = Range(a) \cup Range(b) \cup Range(c) \cup Range(d) \cup Range(e)
<1>0. \A p, q \in Seq(T) : InOrder(p) /\ InOrder(q) /\ Before(Range(p), Range(q)) =>
          p \o q \in Seq(T) /\ InOrder(p \o q) /\ Range(p \o q) = Range(p) \cup Range(q)
  BY WaysJoin
<1> DEFINE ab == a \o b
           abc == ab \o c
           abcd == abc \o d
<1>1. ab \in Seq(T) /\ InOrder(ab) /\ Range(ab) = Range(a) \cup Range(b)
  BY WaysJoin DEF Line
<1>2. abc = ab \o c /\ abcd = abc \o d /\ a \o b \o c \o d \o e = abcd \o e
  BY Zenon
<1> HIDE DEF ab, abc, abcd
<1>3. Before(Range(ab), Range(c)) /\ Before(Range(ab), Range(d)) /\ Before(Range(ab), Range(e))
  BY <1>1, Zenon DEF Line, Before
<1>4. abc \in Seq(T) /\ InOrder(abc) /\ Range(abc) = Range(ab) \cup Range(c)
  BY <1>0, <1>1, <1>2, <1>3, Zenon
<1>5. Before(Range(abc), Range(d)) /\ Before(Range(abc), Range(e))
  BY <1>3, <1>4, Zenon DEF Line, Before
<1>6. abcd \in Seq(T) /\ InOrder(abcd) /\ Range(abcd) = Range(abc) \cup Range(d)
  BY <1>0, <1>2, <1>4, <1>5, Zenon
<1>7. Before(Range(abcd), Range(e))
  BY <1>5, <1>6, Zenon DEF Line, Before
<1>8. InOrder(abcd \o e) /\ Range(abcd \o e) = Range(abcd) \cup Range(e)
  BY <1>0, <1>6, <1>7, Zenon
<1> QED
  BY <1>1, <1>2, <1>4, <1>6, <1>8, Zenon

\* A sequence over a set is one over every larger set.
LEMMA SeqMonotone ==
    ASSUME NEW S, NEW T, S \subseteq T, NEW q \in Seq(S)
    PROVE  q \in Seq(T) /\ \A i \in DOMAIN q : q[i] \in S
<1>1. q \in [1 .. Len(q) -> S] /\ Len(q) \in Nat
  OBVIOUS
<1>2. q \in [1 .. Len(q) -> T]
  BY <1>1, Zenon
<1> QED
  BY <1>1, <1>2

\* The line of requests says that they arrive at most once and in order.
LEMMA RequestsFollow ==
    ASSUME Shaped, RequestsInv
    PROVE  RequestsKept
<1> DEFINE T == Nat \X Nat
           W == IF writer.pc = "send" THEN {<<writer.n, 2>>} ELSE {}
           R == IF relay.pc = "sending" THEN {<<relay.n, 2>>} ELSE {}
<1>0. MaxSend \in Nat /\ sends \in Nat
  BY TunnelConstants DEF Shaped
<1>1. /\ sent \in Seq(Nat) /\ out \in Seq(Nat) /\ c2s \in Seq(T)
      /\ writer.n \in Nat /\ relay.n \in Nat /\ writer.k \in 0 .. 1
  <2>1. SendNos \subseteq Nat /\ Parts \subseteq T
    BY <1>0 DEF SendNos, Parts
  <2>2. sent \in Seq(SendNos) /\ out \in Seq(SendNos) /\ c2s \in Seq(Parts)
    BY Zenon DEF Shaped
  <2>3. writer.n \in Nat /\ relay.n \in Nat /\ writer.k \in 0 .. 1
    BY <1>0 DEF Shaped, WriterStates, RelayStates
  <2> HIDE DEF T
  <2> QED
    BY <2>1, <2>2, <2>3, SeqMonotone, Zenon
<1>2. /\ \A i \in DOMAIN sent : sent[i] \in Nat
      /\ \A i \in DOMAIN out : out[i] \in Nat
      /\ \A x \in Range(c2s) : x[1] \in Nat /\ x[2] \in Nat /\ x[2] >= 1
  <2>1. \A x \in Range(c2s) : x \in Parts
    BY DEF Shaped, Range
  <2>2. \A x \in Parts : x[1] \in Nat /\ x[2] \in Nat /\ x[2] >= 1
    BY <1>0 DEF Parts
  <2>3. /\ \A i \in DOMAIN sent : sent[i] \in Nat
        /\ \A i \in DOMAIN out : out[i] \in Nat
    BY <1>1
  <2> QED
    BY <2>1, <2>2, <2>3, Zenon
<1>3. Line(Each(sent, 2), Range(c2s), AtWriter, Each(out, 1), AtRelay)
  BY Zenon DEF RequestsInv, RequestLine
<1>4. Line(Each(sent, 2), Range(c2s), W, Each(out, 2), R)
  <2>1. Before(Each(sent, 2), Range(c2s))
    BY <1>3, Zenon DEF Line
  <2>2. ASSUME NEW x \in Each(sent, 2) \cup Range(c2s) PROVE \A y \in W \cup Each(out, 2) \cup R : Precedes(x, y)
    <3>1. x[1] \in Nat /\ x[2] \in Nat /\ x[2] >= 1
      BY <1>2 DEF Each
    <3>2. \A y \in AtWriter \cup Each(out, 1) \cup AtRelay : Precedes(x, y)
      BY <1>3, Zenon DEF Line, Before
    <3>3. writer.pc = "send" => Precedes(x, <<writer.n, writer.k + 1>>)
      BY <3>2, Zenon DEF AtWriter
    <3>4. \A i \in DOMAIN out : Precedes(x, <<out[i], 1>>)
      BY <3>2, Zenon DEF Each
    <3>5. relay.pc = "sending" => Precedes(x, <<relay.n, 1>>)
      BY <3>2, Zenon DEF AtRelay
    <3>6. writer.pc = "send" => Precedes(x, <<writer.n, 2>>)
      BY <1>1, <3>1, <3>3 DEF Precedes
    <3>7. \A i \in DOMAIN out : Precedes(x, <<out[i], 2>>)
      BY <1>2, <3>1, <3>4 DEF Precedes
    <3>8. relay.pc = "sending" => Precedes(x, <<relay.n, 2>>)
      BY <1>1, <3>1, <3>5 DEF Precedes
    <3> QED
      BY <3>6, <3>7, <3>8, Zenon DEF Each
  <2>3. ASSUME writer.pc = "send" PROVE \A y \in Each(out, 2) \cup R : Precedes(<<writer.n, 2>>, y)
    <3>1. \A y \in Each(out, 1) \cup AtRelay : Precedes(<<writer.n, writer.k + 1>>, y)
      BY <1>3, <2>3, Zenon DEF Line, Before, AtWriter
    <3>2. \A i \in DOMAIN out : writer.n < out[i]
      <4>1. \A i \in DOMAIN out : Precedes(<<writer.n, writer.k + 1>>, <<out[i], 1>>)
        BY <3>1, Zenon DEF Each
      <4> QED
        BY <1>1, <4>1 DEF Precedes
    <3>3. relay.pc = "sending" => writer.n < relay.n
      <4>1. relay.pc = "sending" => Precedes(<<writer.n, writer.k + 1>>, <<relay.n, 1>>)
        BY <3>1, Zenon DEF AtRelay
      <4> QED
        BY <1>1, <4>1 DEF Precedes
    <3> QED
      BY <3>2, <3>3 DEF Each, Precedes
  <2>4. ASSUME NEW x \in Each(out, 2) PROVE \A y \in R : Precedes(x, y)
    <3>1. PICK i \in DOMAIN out : x = <<out[i], 2>>
      BY Zenon DEF Each
    <3>2. relay.pc = "sending" => Precedes(<<out[i], 1>>, <<relay.n, 1>>)
      BY <1>3, Zenon DEF Line, Before, AtRelay, Each
    <3> QED
      BY <3>1, <3>2 DEF Precedes
  <2> QED
    BY <2>1, <2>2, <2>3, <2>4, Zenon DEF Line, Before
<1>5. InOrder(Requests) /\ Range(Requests) = Each(sent, 2) \cup Range(c2s) \cup W \cup Each(out, 2) \cup R
  <2> DEFINE a == Whole(sent)
             c == Hand(writer, {"send"})
             d == Whole(out)
             e == Hand(relay, {"sending"})
  <2>1. a \in Seq(T) /\ InOrder(a) /\ Range(a) = Each(sent, 2)
    BY <1>1, WholeWay, Zenon DEF RequestsInv
  <2>2. d \in Seq(T) /\ InOrder(d) /\ Range(d) = Each(out, 2)
    BY <1>1, WholeWay, Zenon DEF RequestsInv
  <2>3. c \in Seq(T) /\ InOrder(c) /\ Range(c) = W
    BY <1>1, HandWay, Zenon
  <2>4. e \in Seq(T) /\ InOrder(e) /\ Range(e) = R
    BY <1>1, HandWay, Zenon
  <2>5. Requests = a \o c2s \o c \o d \o e
    BY Zenon DEF Requests
  <2>6. c2s \in Seq(T) /\ InOrder(c2s)
    BY <1>1, Zenon DEF RequestsInv
  <2> HIDE DEF a, c, d, e, T, W, R
  <2> QED
    BY <1>4, <2>1, <2>2, <2>3, <2>4, <2>5, <2>6, LineJoins
<1>6. ASSUME NEW x \in Range(Requests) PROVE x[1] \in 1 .. sends
  <2>1. \E y \in OnRequestLine : y[1] = x[1]
    <3>1. CASE x \in Each(sent, 2) \cup Range(c2s)
      BY <3>1, Zenon DEF OnRequestLine
    <3>2. CASE x \in W
      <4>1. <<writer.n, writer.k + 1>> \in OnRequestLine /\ x = <<writer.n, 2>>
        BY <3>2, Zenon DEF OnRequestLine, AtWriter
      <4> QED
        BY <4>1, Zenon
    <3>3. CASE x \in Each(out, 2)
      <4>1. PICK i \in DOMAIN out : x = <<out[i], 2>>
        BY <3>3, Zenon DEF Each
      <4>2. <<out[i], 1>> \in OnRequestLine
        BY Zenon DEF OnRequestLine, Each
      <4> QED
        BY <4>1, <4>2, Zenon
    <3>4. CASE x \in R
      <4>1. <<relay.n, 1>> \in OnRequestLine /\ x = <<relay.n, 2>>
        BY <3>4, Zenon DEF OnRequestLine, AtRelay
      <4> QED
        BY <4>1, Zenon
    <3> QED
      BY <1>5, <3>1, <3>2, <3>3, <3>4, Zenon
  <2> QED
    BY <2>1, Zenon DEF RequestsInv
<1>7. ASSUME Alive, NEW n \in 1 .. sends, ~dg[n].empty, RelayPasses(n), HopPasses(n)
      PROVE  <<n, 2>> \in Range(Requests)
  <2>1. \/ <<n, 2>> \in Each(sent, 2) \/ <<n, 2>> \in Range(c2s)
        \/ writer.pc = "send" /\ writer.n = n
        \/ <<n, 1>> \in Each(out, 1) \/ <<n, 1>> \in AtRelay
    BY <1>7, Zenon DEF RequestsInv
  <2>2. <<n, 1>> \in Each(out, 1) => <<n, 2>> \in Each(out, 2)
    BY Zenon DEF Each
  <2>3. <<n, 1>> \in AtRelay => <<n, 2>> \in R
    BY Zenon DEF AtRelay
  <2> QED
    BY <1>5, <2>1, <2>2, <2>3, Zenon
<1> QED
  BY <1>5, <1>6, <1>7, Zenon DEF RequestsKept

\* The line of replies says the same of the replies.
LEMMA RepliesFollow ==
    ASSUME Shaped, RepliesInv
    PROVE  RepliesKept
<1> DEFINE T == Nat \X Nat
           H == IF hop.pc \in {"reply", "body"} THEN {<<hop.n, 2>>} ELSE {}
<1>0. MaxReply \in Nat /\ replies \in Nat
  BY TunnelConstants DEF Shaped
<1>1. back \in Seq(Nat) /\ inq \in Seq(Nat) /\ s2c \in Seq(T) /\ reader.n \in Nat /\ hop.n \in Nat
  <2>1. ReplyNos \subseteq Nat /\ AnswerParts \subseteq T
    BY <1>0 DEF ReplyNos, AnswerParts
  <2>2. back \in Seq(ReplyNos) /\ inq \in Seq(ReplyNos) /\ s2c \in Seq(AnswerParts)
    BY Zenon DEF Shaped
  <2>3. reader.n \in Nat /\ hop.n \in Nat
    BY <1>0 DEF Shaped, ReaderStates, HopStates
  <2> HIDE DEF T
  <2> QED
    BY <2>1, <2>2, <2>3, SeqMonotone, Zenon
<1>2. /\ \A i \in DOMAIN back : back[i] \in Nat
      /\ \A i \in DOMAIN inq : inq[i] \in Nat
      /\ \A x \in Range(s2c) : x[1] \in Nat /\ x[2] \in Nat
  <2>1. \A x \in Range(s2c) : x \in Nat \X Nat
    BY <1>1, Elements, Zenon DEF Range
  <2>2. \A x \in Nat \X Nat : x[1] \in Nat /\ x[2] \in Nat
    OBVIOUS
  <2> QED
    BY <1>1, <2>1, <2>2, Elements, Zenon
<1>3. Line(Each(back, 2), Each(inq, 2), AtReader, Range(s2c), AtHop)
  BY Zenon DEF RepliesInv, AnswerLine
<1>4. Line(Each(back, 2), Each(inq, 2), AtReader, Range(s2c), H)
  <2>1. ASSUME NEW x \in Each(back, 2) \cup Each(inq, 2) \cup AtReader \cup Range(s2c), NEW y \in H
        PROVE  Precedes(x, y)
    <3>1. x[1] \in Nat /\ x[2] \in Nat
      BY <1>1, <1>2 DEF Each, AtReader
    <3>2. hop.pc \in {"reply", "body"} /\ y = <<hop.n, 2>>
      BY <2>1, Zenon
    <3>3. \E k \in 1 .. 2 : <<hop.n, k>> \in AtHop
      BY <3>2 DEF AtHop
    <3>4. \E k \in 1 .. 2 : Precedes(x, <<hop.n, k>>)
      BY <1>3, <3>3, Zenon DEF Line, Before
    <3> QED
      BY <1>1, <3>1, <3>2, <3>4 DEF Precedes
  <2> HIDE DEF H
  <2> QED
    BY <1>3, <2>1, Zenon DEF Line, Before
<1>5. InOrder(Answers) /\ Range(Answers) = Each(back, 2) \cup Each(inq, 2) \cup AtReader \cup Range(s2c) \cup H
  <2> DEFINE a == Whole(back)
             b == Whole(inq)
             c == Hand(reader, {"put"})
             e == Hand(hop, {"reply", "body"})
  <2>1. a \in Seq(T) /\ InOrder(a) /\ Range(a) = Each(back, 2)
    BY <1>1, WholeWay, Zenon DEF RepliesInv
  <2>2. b \in Seq(T) /\ InOrder(b) /\ Range(b) = Each(inq, 2)
    BY <1>1, WholeWay, Zenon DEF RepliesInv
  <2>3. c \in Seq(T) /\ InOrder(c) /\ Range(c) = AtReader
    BY <1>1, HandWay, Zenon DEF AtReader
  <2>4. e \in Seq(T) /\ InOrder(e) /\ Range(e) = H
    BY <1>1, HandWay, Zenon
  <2>5. Answers = a \o b \o c \o s2c \o e
    BY Zenon DEF Answers
  <2>6. s2c \in Seq(T) /\ InOrder(s2c)
    BY <1>1, Zenon DEF RepliesInv
  <2> HIDE DEF a, b, c, e, T, H
  <2> QED
    BY <1>4, <2>1, <2>2, <2>3, <2>4, <2>5, <2>6, LineJoins
<1>6. ASSUME NEW x \in Range(Answers) PROVE x[1] \in 1 .. replies
  <2>1. \E y \in OnAnswerLine : y[1] = x[1]
    <3>1. CASE x \in H
      <4>1. hop.pc \in {"reply", "body"} /\ x = <<hop.n, 2>>
        BY <3>1, Zenon
      <4>2. \E k \in 1 .. 2 : <<hop.n, k>> \in OnAnswerLine
        BY <4>1 DEF OnAnswerLine, AtHop
      <4> QED
        BY <4>1, <4>2, Zenon
    <3>2. CASE x \notin H
      <4>1. x \in OnAnswerLine
        BY <1>5, <3>2, Zenon DEF OnAnswerLine
      <4> QED
        BY <4>1, Zenon
    <3> QED
      BY <3>1, <3>2, Zenon
  <2> QED
    BY <2>1, Zenon DEF RepliesInv
<1>7. ASSUME Alive, NEW n \in 1 .. replies, ~rp[n].empty, rp[n].at \notin Bypassed
      PROVE  <<n, 2>> \in Range(Answers)
  <2>1. \/ <<n, 2>> \in Each(back, 2) \/ <<n, 2>> \in Each(inq, 2) \/ <<n, 2>> \in AtReader
        \/ <<n, 2>> \in Range(s2c) \/ (hop.pc \in {"reply", "body"} /\ hop.n = n)
    BY <1>7, Zenon DEF RepliesInv
  <2> QED
    BY <1>5, <2>1, Zenon
<1> QED
  BY <1>5, <1>6, <1>7, Zenon DEF RepliesKept

\* The invariant implies what the tunnel promises.
LEMMA KeptFollows == KeptInv => TunnelKept
<1> SUFFICES ASSUME KeptInv PROVE TunnelKept
  BY Zenon
<1> USE DEF KeptInv
<1>1. TypeOK
  <2>1. /\ relay.pc \in {"dial", "bound", "refused", "select", "sending", "direct", "drop", "gone"}
        /\ relay.n \in 0 .. MaxSend /\ relay.errs \in 0 .. MaxErrors
        /\ writer.pc \in Tasks /\ reader.pc \in Tasks
        /\ hop.pc \in {"request", "select", "reply", "body", "gone"} /\ hop.k \in 0 .. 1
    BY Zenon DEF Shaped, RelayStates, WriterStates, ReaderStates, HopStates, Tasks
  <2>2. IsInjective(lockq) /\ Range(lockq) \subseteq Pumps
    BY DEF Locked, Range
  <2> QED
    BY <2>1, <2>2, Zenon DEF TypeOK, Shaped
<1>2. OnlyAllowedSent
  <2>1. ASSUME NEW i \in DOMAIN sent PROVE HopPasses(sent[i]) /\ RelayPasses(sent[i])
    <3>1. <<sent[i], 2>> \in OnRequestLine
      BY Zenon DEF OnRequestLine, Each
    <3> QED
      BY <3>1, Zenon DEF RequestsInv
  <2> QED
    BY <2>1, Zenon DEF OnlyAllowedSent, RequestsInv, HopPasses, RelayPasses, Increasing
<1> QED
  BY <1>1, <1>2, RequestsFollow, RepliesFollow, Zenon DEF TunnelKept

-----------------------------------------------------------------------------
(* Sequences and lines under the steps.                                    *)

\* Taking the head off a sequence, and appending to one.
LEMMA TailElements ==
    ASSUME NEW T, NEW q \in Seq(T), q # <<>>
    PROVE  /\ Tail(q) \in Seq(T) /\ Head(q) \in T /\ Head(q) = q[1] /\ Len(Tail(q)) = Len(q) - 1
           /\ Len(q) \in Nat \ {0} /\ 1 \in DOMAIN q
           /\ DOMAIN q = 1 .. Len(q) /\ DOMAIN Tail(q) = 1 .. Len(q) - 1
           /\ \A i \in DOMAIN Tail(q) : i + 1 \in DOMAIN q /\ Tail(q)[i] = q[i + 1]
           /\ \A i \in DOMAIN q : q[i] = Head(q) \/ (i - 1 \in DOMAIN Tail(q) /\ Tail(q)[i - 1] = q[i])
OBVIOUS

\* The elements of a sequence with one more at its end.
LEMMA AppendElements ==
    ASSUME NEW T, NEW q \in Seq(T), NEW x \in T
    PROVE  /\ Append(q, x) \in Seq(T) /\ Len(Append(q, x)) = Len(q) + 1 /\ Len(q) \in Nat
           /\ Len(q) + 1 \in DOMAIN Append(q, x) /\ Append(q, x)[Len(q) + 1] = x
           /\ DOMAIN q = 1 .. Len(q) /\ DOMAIN Append(q, x) = 1 .. Len(q) + 1
           /\ \A i \in DOMAIN q : i \in DOMAIN Append(q, x) /\ Append(q, x)[i] = q[i]
           /\ \A i \in DOMAIN Append(q, x) : (i \in DOMAIN q /\ Append(q, x)[i] = q[i])
                                             \/ (i = Len(q) + 1 /\ Append(q, x)[i] = x)
OBVIOUS

\* The elements, and the elements with a part number.
LEMMA TailSets ==
    ASSUME NEW T, NEW q \in Seq(T), q # <<>>, NEW k
    PROVE  /\ Range(Tail(q)) \subseteq Range(q) /\ Head(q) \in Range(q)
           /\ Range(q) = Range(Tail(q)) \cup {Head(q)}
           /\ Each(Tail(q), k) \subseteq Each(q, k) /\ <<Head(q), k>> \in Each(q, k)
           /\ Each(q, k) = Each(Tail(q), k) \cup {<<Head(q), k>>}
<1> DEFINE t == Tail(q)
           h == Head(q)
<1>1. /\ h = q[1] /\ 1 \in DOMAIN q
      /\ \A i \in DOMAIN t : i + 1 \in DOMAIN q /\ t[i] = q[i + 1]
      /\ \A i \in DOMAIN q : q[i] = h \/ (i - 1 \in DOMAIN t /\ t[i - 1] = q[i])
  BY TailElements, Zenon
<1> HIDE DEF t, h
<1>2. Range(q) = Range(t) \cup {h}
  BY <1>1 DEF Range
<1>3. Each(q, k) = Each(t, k) \cup {<<h, k>>}
  BY <1>1 DEF Each
<1> QED
  BY <1>2, <1>3, Zenon DEF t, h

\* Its elements as a set, and as halves of frames.
LEMMA AppendSets ==
    ASSUME NEW T, NEW q \in Seq(T), NEW x \in T, NEW k
    PROVE  /\ Range(Append(q, x)) = Range(q) \cup {x}
           /\ Each(Append(q, x), k) = Each(q, k) \cup {<<x, k>>}
<1> DEFINE a == Append(q, x)
<1>1. /\ Len(q) + 1 \in DOMAIN a /\ a[Len(q) + 1] = x
      /\ \A i \in DOMAIN q : i \in DOMAIN a /\ a[i] = q[i]
      /\ \A i \in DOMAIN a : (i \in DOMAIN q /\ a[i] = q[i]) \/ (i = Len(q) + 1 /\ a[i] = x)
  BY AppendElements, Zenon
<1> HIDE DEF a
<1>2. Range(a) = Range(q) \cup {x}
  BY <1>1, Zenon DEF Range
<1>3. Each(a, k) = Each(q, k) \cup {<<x, k>>}
  BY <1>1, Zenon DEF Each
<1> QED
  BY <1>2, <1>3, Zenon DEF a

\* The halves of frames alone.
LEMMA AppendEach ==
    ASSUME NEW T, NEW q \in Seq(T), NEW x \in T, NEW k
    PROVE  Each(Append(q, x), k) = Each(q, k) \cup {<<x, k>>}
BY AppendSets

\* The order of a sequence of numbers, and of one of parts.
LEMMA TailOrder ==
    ASSUME NEW T, NEW q \in Seq(T), q # <<>>
    PROVE  /\ Increasing(q) => Increasing(Tail(q)) /\ \A i \in DOMAIN Tail(q) : Head(q) < Tail(q)[i]
           /\ InOrder(q) => InOrder(Tail(q)) /\ Before({Head(q)}, Range(Tail(q)))
<1> DEFINE t == Tail(q)
           h == Head(q)
<1>1. /\ h = q[1] /\ 1 \in DOMAIN q /\ Len(q) \in Nat
      /\ DOMAIN q = 1 .. Len(q) /\ DOMAIN t = 1 .. Len(q) - 1
      /\ \A i \in DOMAIN t : i + 1 \in DOMAIN q /\ t[i] = q[i + 1]
  BY TailElements, Zenon
<1> HIDE DEF t, h
<1>2. ASSUME Increasing(q) PROVE Increasing(t) /\ \A i \in DOMAIN t : h < t[i]
  <2>1. ASSUME NEW i \in DOMAIN t, NEW j \in DOMAIN t, i < j PROVE t[i] < t[j]
    <3>1. i + 1 < j + 1 /\ i + 1 \in DOMAIN q /\ j + 1 \in DOMAIN q
      BY <1>1, <2>1
    <3> QED
      BY <1>1, <1>2, <3>1, Zenon DEF Increasing
  <2>2. ASSUME NEW i \in DOMAIN t PROVE h < t[i]
    <3>1. 1 < i + 1 /\ i + 1 \in DOMAIN q
      BY <1>1
    <3> QED
      BY <1>1, <1>2, <3>1, Zenon DEF Increasing
  <2> QED
    BY <2>1, <2>2, Zenon DEF Increasing
<1>3. ASSUME InOrder(q) PROVE InOrder(t) /\ Before({h}, Range(t))
  <2>1. ASSUME NEW i \in DOMAIN t, NEW j \in DOMAIN t, i < j PROVE Precedes(t[i], t[j])
    <3>1. i + 1 < j + 1 /\ i + 1 \in DOMAIN q /\ j + 1 \in DOMAIN q
      BY <1>1, <2>1
    <3> QED
      BY <1>1, <1>3, <3>1, Zenon DEF InOrder
  <2>2. ASSUME NEW i \in DOMAIN t PROVE Precedes(h, t[i])
    <3>1. 1 < i + 1 /\ i + 1 \in DOMAIN q
      BY <1>1
    <3> QED
      BY <1>1, <1>3, <3>1, Zenon DEF InOrder
  <2> QED
    BY <2>1, <2>2, Zenon DEF InOrder, Before, Range
<1> QED
  BY <1>2, <1>3, Zenon DEF t, h

\* What comes last keeps the order.
LEMMA AppendOrder ==
    ASSUME NEW T, NEW q \in Seq(T), NEW x \in T
    PROVE  /\ Increasing(q) /\ (\A i \in DOMAIN q : q[i] < x) => Increasing(Append(q, x))
           /\ InOrder(q) /\ Before(Range(q), {x}) => InOrder(Append(q, x))
<1> DEFINE a == Append(q, x)
<1>1. /\ DOMAIN q = 1 .. Len(q) /\ DOMAIN a = 1 .. Len(q) + 1 /\ Len(q) \in Nat
      /\ \A i \in DOMAIN a : (i \in DOMAIN q /\ a[i] = q[i]) \/ (i = Len(q) + 1 /\ a[i] = x)
  BY AppendElements, Zenon
<1> HIDE DEF a
<1>2. \A i, j \in DOMAIN a : i < j => i \in DOMAIN q /\ a[i] = q[i]
  BY <1>1
<1>3. ASSUME Increasing(q), \A i \in DOMAIN q : q[i] < x PROVE Increasing(a)
  BY <1>1, <1>2, <1>3, Zenon DEF Increasing
<1>4. ASSUME InOrder(q), Before(Range(q), {x}) PROVE InOrder(a)
  BY <1>1, <1>2, <1>4, Zenon DEF InOrder, Before, Range
<1> QED
  BY <1>3, <1>4, Zenon DEF a

\* A line from which things are taken, and one in which something moves up by one
\* place.
LEMMA LineShrinks ==
    ASSUME NEW a, NEW b, NEW c, NEW d, NEW e, Line(a, b, c, d, e),
           NEW f \in SUBSET a, NEW g \in SUBSET b, NEW h \in SUBSET c, NEW i \in SUBSET d,
           NEW j \in SUBSET e
    PROVE  Line(f, g, h, i, j)
BY Zenon DEF Line, Before

\* A message that moves from one place of a line to the place before it keeps
\* the line in order.
LEMMA LineMoves ==
    ASSUME NEW a, NEW b, NEW c, NEW d, NEW e, Line(a, b, c, d, e), NEW m, NEW r, Before({m}, r)
    PROVE  /\ m \in b /\ r \subseteq b => Line(a \cup {m}, r, c, d, e)
           /\ m \in c /\ r \subseteq c => Line(a, b \cup {m}, r, d, e)
           /\ m \in d /\ r \subseteq d => Line(a, b, c \cup {m}, r, e)
           /\ m \in e /\ r \subseteq e => Line(a, b, c, d \cup {m}, r)
<1>1. ASSUME m \in b, r \subseteq b PROVE Line(a \cup {m}, r, c, d, e)
  BY <1>1, Zenon DEF Line, Before
<1>2. ASSUME m \in c, r \subseteq c PROVE Line(a, b \cup {m}, r, d, e)
  BY <1>2, Zenon DEF Line, Before
<1>3. ASSUME m \in d, r \subseteq d PROVE Line(a, b, c \cup {m}, r, e)
  BY <1>3, Zenon DEF Line, Before
<1>4. ASSUME m \in e, r \subseteq e PROVE Line(a, b, c, d \cup {m}, r)
  BY <1>4, Zenon DEF Line, Before
<1> QED
  BY <1>1, <1>2, <1>3, <1>4, Zenon

\* The header of a frame moves up, its body is next.
LEMMA HeaderMoves ==
    ASSUME NEW a, NEW b, NEW d, NEW e, NEW n \in Nat, Line(a, b, {<<n, 1>>}, d, e),
           \A x \in a \cup b : x[1] \in Nat /\ x[2] \in Nat,
           \A x \in d \cup e : x[1] \in Nat /\ x[2] = 1
    PROVE  Line(a, b \cup {<<n, 1>>}, {<<n, 2>>}, d, e)
<1>1. ASSUME NEW x \in a \cup b PROVE Precedes(x, <<n, 2>>)
  <2>1. Precedes(x, <<n, 1>>)
    BY Zenon DEF Line, Before
  <2> QED
    BY <2>1 DEF Precedes
<1>2. ASSUME NEW x \in d \cup e PROVE Precedes(<<n, 2>>, x)
  <2>1. Precedes(<<n, 1>>, x)
    BY Zenon DEF Line, Before
  <2> QED
    BY <2>1 DEF Precedes
<1>3. Precedes(<<n, 1>>, <<n, 2>>)
  BY DEF Precedes
<1> QED
  BY <1>1, <1>2, <1>3, Zenon DEF Line, Before

\* The reader and the writer of a stream stay in step.
LEMMA FramedTail ==
    ASSUME NEW T, NEW w \in Seq(T \X (1 .. 2)), w # <<>>, NEW a \in 0 .. 1, Framed(w, a)
    PROVE  /\ Head(w)[2] = a + 1 /\ Framed(Tail(w), 1 - a)
           /\ \A b \in 0 .. 1 : EndsAt(w, a, b) => EndsAt(Tail(w), 1 - a, b)
<1> DEFINE t == Tail(w)
<1>1. /\ Head(w) = w[1] /\ 1 \in DOMAIN w /\ Len(w) \in Nat \ {0} /\ Len(t) = Len(w) - 1
      /\ DOMAIN w = 1 .. Len(w) /\ DOMAIN t = 1 .. Len(w) - 1 /\ t \in Seq(T \X (1 .. 2))
      /\ \A i \in DOMAIN t : i + 1 \in DOMAIN w /\ t[i] = w[i + 1]
  BY TailElements, Zenon
<1>2. t = <<>> <=> Len(w) = 1
  BY <1>1
<1> HIDE DEF t
<1>3. w[1][2] = a + 1
  BY <1>1, Zenon DEF Framed
<1>4. \A i \in DOMAIN w : w[i][2] \in 1 .. 2
  <2>1. \A i \in DOMAIN w : w[i] \in T \X (1 .. 2)
    BY <1>1
  <2> QED
    BY <2>1, Zenon
<1>5. ASSUME NEW i \in DOMAIN t
      PROVE  t[i][2] = IF i = 1 THEN (1 - a) + 1 ELSE 3 - t[i - 1][2]
  <2>1. i + 1 \in DOMAIN w /\ i + 1 # 1 /\ (i + 1) - 1 = i /\ i \in DOMAIN w /\ t[i] = w[i + 1]
    BY <1>1
  <2>2. w[i + 1][2] = 3 - w[i][2]
    BY <2>1, Zenon DEF Framed
  <2>3. CASE i = 1
    BY <1>3, <2>1, <2>2, <2>3
  <2>4. CASE i # 1
    <3>1. i - 1 \in DOMAIN t /\ t[i - 1] = w[(i - 1) + 1] /\ (i - 1) + 1 = i
      BY <1>1, <2>4
    <3> QED
      BY <2>1, <2>2, <2>4, <3>1, Zenon
  <2> QED
    BY <2>3, <2>4, Zenon
<1>6. ASSUME NEW b \in 0 .. 1, EndsAt(w, a, b) PROVE EndsAt(t, 1 - a, b)
  <2>1. w # <<>> /\ w[Len(w)][2] = 2 - b
    BY <1>1, <1>6, Zenon DEF EndsAt
  <2>2. CASE Len(w) = 1
    BY <1>2, <1>3, <2>1, <2>2 DEF EndsAt
  <2>3. CASE Len(w) # 1
    <3>0. Len(t) \in DOMAIN t /\ Len(t) + 1 = Len(w)
      BY <1>1, <2>3
    <3>1. t[Len(t)] = w[Len(w)] /\ t # <<>>
      BY <1>1, <1>2, <2>3, <3>0, Zenon
    <3> QED
      BY <2>1, <3>1, Zenon DEF EndsAt
  <2> QED
    BY <2>2, <2>3, Zenon
<1> QED
  BY <1>1, <1>3, <1>5, <1>6, Zenon DEF Framed, t

\* Writing the next half of a frame keeps the stream well framed.
LEMMA FramedAppend ==
    ASSUME NEW T, NEW w \in Seq(T \X (1 .. 2)), NEW a \in 0 .. 1, NEW b \in 0 .. 1, NEW n \in T,
           Framed(w, a), EndsAt(w, a, b)
    PROVE  /\ Framed(Append(w, <<n, b + 1>>), a)
           /\ EndsAt(Append(w, <<n, b + 1>>), a, 1 - b)
<1> DEFINE x == <<n, b + 1>>
           p == Append(w, x)
<1>0. x \in T \X (1 .. 2) /\ x[2] = b + 1
  OBVIOUS
<1> HIDE DEF x
<1>1. /\ DOMAIN w = 1 .. Len(w) /\ DOMAIN p = 1 .. Len(w) + 1 /\ Len(w) \in Nat
      /\ Len(p) = Len(w) + 1 /\ p[Len(w) + 1] = x /\ p \in Seq(T \X (1 .. 2))
      /\ \A i \in DOMAIN w : p[i] = w[i]
      /\ \A i \in DOMAIN p : (i \in DOMAIN w /\ p[i] = w[i]) \/ (i = Len(w) + 1 /\ p[i] = x)
  BY <1>0, AppendElements
<1>2. p # <<>> /\ (w = <<>> <=> Len(w) = 0)
  BY <1>1
<1> HIDE DEF p
<1>3. ASSUME NEW i \in DOMAIN p PROVE p[i][2] = IF i = 1 THEN a + 1 ELSE 3 - p[i - 1][2]
  <2>1. CASE i \in DOMAIN w
    <3>1. i # 1 => i - 1 \in DOMAIN w
      BY <1>1, <2>1
    <3> QED
      BY <1>1, <2>1, <3>1, Zenon DEF Framed
  <2>2. CASE i = Len(w) + 1
    <3>1. CASE Len(w) = 0
      BY <1>0, <1>1, <1>2, <2>2, <3>1 DEF EndsAt
    <3>2. CASE Len(w) # 0
      <4>1. i # 1 /\ i - 1 = Len(w) /\ Len(w) \in DOMAIN w /\ w # <<>>
        BY <1>1, <1>2, <2>2, <3>2
      <4>2. w[Len(w)][2] = 2 - b
        BY <4>1, Zenon DEF EndsAt
      <4>3. p[i] = x /\ p[i - 1] = w[Len(w)]
        BY <1>1, <2>2, <4>1, Zenon
      <4> QED
        BY <1>0, <4>1, <4>2, <4>3
    <3> QED
      BY <3>1, <3>2, Zenon
  <2> QED
    BY <1>1, <2>1, <2>2, Zenon
<1>4. EndsAt(p, a, 1 - b)
  BY <1>0, <1>1, <1>2 DEF EndsAt
<1> QED
  BY <1>3, <1>4, Zenon DEF Framed, p, x

-----------------------------------------------------------------------------
(* The way to the world.                                                   *)

\* A step that leaves the way alone: neither end of the stream moves in it.
LEMMA RequestsStay ==
    ASSUME RequestsInv, UNCHANGED <<config, sent, c2s, out, sends>>, AtRelay' = AtRelay,
           UNCHANGED writer \/ (writer.pc = "off" /\ writer' = [pc |-> "recv", n |-> 0, k |-> 0]),
           broken => broken', hop'.pc # "gone" => hop.pc # "gone" /\ hop'.k = hop.k, Alive' => Alive
    PROVE  RequestsInv'
<1>1. \A n : RelayPasses(n)' = RelayPasses(n) /\ HopPasses(n)' = HopPasses(n)
  BY Zenon DEF RelayPasses, HopPasses, Dst, config
<1>2. AtWriter' = AtWriter /\ RequestLine' = RequestLine /\ OnRequestLine' = OnRequestLine
  BY DEF AtWriter, RequestLine, OnRequestLine
<1>3. /\ UNCHANGED <<sent, c2s, out, sends, dg>> /\ writer'.k = writer.k
      /\ writer'.pc = "gone" <=> writer.pc = "gone"
      /\ writer'.pc = "send" <=> writer.pc = "send"
      /\ writer.pc = "send" => writer'.n = writer.n
  BY DEF config, RequestsInv
<1>4. /\ (Increasing(sent) /\ InOrder(c2s) /\ Increasing(out) /\ RequestLine)'
      /\ (\A x \in OnRequestLine : x[1] \in 1 .. sends /\ RelayPasses(x[1]))'
      /\ (\A i \in DOMAIN sent : HopPasses(sent[i]))'
      /\ (writer.pc # "send" => writer.k = 0)'
  BY <1>1, <1>2, <1>3, Zenon DEF RequestsInv
<1>5. (~broken /\ hop.pc # "gone" =>
          Framed(c2s, hop.k) /\ (writer.pc # "gone" => EndsAt(c2s, hop.k, writer.k)))'
  BY <1>3, Zenon DEF RequestsInv
<1>6. (Alive => \A n \in 1 .. sends :
           ~dg[n].empty /\ RelayPasses(n) /\ HopPasses(n) =>
               \/ <<n, 2>> \in Each(sent, 2) \/ <<n, 2>> \in Range(c2s)
               \/ writer.pc = "send" /\ writer.n = n
               \/ <<n, 1>> \in Each(out, 1) \/ <<n, 1>> \in AtRelay)'
  BY <1>1, <1>2, <1>3, Zenon DEF RequestsInv
<1> QED
  BY <1>4, <1>5, <1>6, Zenon DEF RequestsInv

\* A step with which the tunnel is over takes things off the way.
LEMMA RequestsShrink ==
    ASSUME RequestsInv, c2s \in Seq(Parts), UNCHANGED <<config, sent, out, sends>>,
           c2s' = c2s \/ c2s' = <<>> \/ (c2s # <<>> /\ c2s' = Tail(c2s)),
           writer' \in {writer, Gone}, AtRelay' \subseteq AtRelay, ~Alive',
           \/ broken' \/ hop'.pc = "gone"
           \/ ~broken /\ hop.pc # "gone" /\ c2s' = c2s /\ hop'.k = hop.k
    PROVE  RequestsInv'
<1>1. \A n : RelayPasses(n)' = RelayPasses(n) /\ HopPasses(n)' = HopPasses(n)
  BY Zenon DEF RelayPasses, HopPasses, Dst, config
<1>2. AtWriter' \subseteq AtWriter /\ (writer.pc # "send" => writer.k = 0)'
  BY DEF AtWriter, Gone, RequestsInv
<1>3. Range(c2s') \subseteq Range(c2s) /\ InOrder(c2s')
  <2>1. CASE c2s' = <<>>
    BY <2>1 DEF Range, InOrder
  <2>2. CASE c2s # <<>> /\ c2s' = Tail(c2s)
    BY <2>2, TailSets, TailOrder, Zenon DEF RequestsInv
  <2> QED
    BY <2>1, <2>2, Zenon DEF RequestsInv
<1>4. RequestLine'
  BY <1>2, <1>3, LineShrinks DEF RequestLine, RequestsInv
<1>5. OnRequestLine' \subseteq OnRequestLine
  BY <1>2, <1>3, Zenon DEF OnRequestLine
<1>6. (~broken /\ hop.pc # "gone" =>
          Framed(c2s, hop.k) /\ (writer.pc # "gone" => EndsAt(c2s, hop.k, writer.k)))'
  BY DEF RequestsInv, Gone
<1> QED
  BY <1>1, <1>2, <1>3, <1>4, <1>5, <1>6, Zenon DEF RequestsInv

\* RelayReads: a new datagram goes to the end of the line.
LEMMA RequestsRead ==
    ASSUME Shaped, RequestsInv, RelayReads
    PROVE  RequestsInv'
<1> DEFINE n == sends + 1
<1>1. /\ relay.pc = "select" /\ sends < MaxSend /\ sends' = n
      /\ UNCHANGED <<kind, dg, sent, c2s, out, writer, reader, hop, broken>>
      /\ relay' = IF RelayPasses(n) THEN [relay EXCEPT !.pc = "sending", !.n = n] ELSE relay
  BY Zenon DEF RelayReads, config, pumps, wire
<1>2. \A m : RelayPasses(m)' = RelayPasses(m) /\ HopPasses(m)' = HopPasses(m)
  BY <1>1, Zenon DEF RelayPasses, HopPasses, Dst
<1>3. n \in 1 .. MaxSend /\ n \in Nat /\ sends \in Nat
  <2>1. sends \in 0 .. MaxSend /\ MaxSend \in Nat
    BY TunnelConstants, Zenon DEF Shaped
  <2> QED
    BY <1>1, <2>1
<1>4. AtRelay = {} /\ AtRelay' = IF RelayPasses(n) THEN {<<n, 1>>} ELSE {}
  BY <1>1, Zenon DEF AtRelay, Shaped
<1>5. AtWriter' = AtWriter
  BY <1>1, Zenon DEF AtWriter
<1>6. OnRequestLine' = OnRequestLine \cup AtRelay'
  BY <1>1, <1>4, <1>5, Zenon DEF OnRequestLine
<1>7. \A x \in OnRequestLine : x[1] \in 1 .. sends /\ RelayPasses(x[1])
  BY Zenon DEF RequestsInv
<1>8. (\A x \in OnRequestLine : x[1] \in 1 .. sends /\ RelayPasses(x[1]))'
  <2> SUFFICES ASSUME NEW x \in OnRequestLine' PROVE x[1] \in 1 .. n /\ RelayPasses(x[1])
    BY <1>1, <1>2, Zenon
  <2>1. CASE x \in OnRequestLine
    BY <1>3, <1>7, <2>1
  <2>2. CASE x \in AtRelay'
    BY <1>3, <1>4, <2>2
  <2> QED
    BY <1>6, <2>1, <2>2, Zenon
<1>9. RequestLine'
  <2>1. Before(OnRequestLine, AtRelay')
    BY <1>3, <1>4, <1>7 DEF Before, Precedes
  <2> QED
    BY <1>1, <1>5, <2>1, Zenon DEF RequestLine, OnRequestLine, RequestsInv, Line, Before
<1>10. (Alive => \A m \in 1 .. sends :
           ~dg[m].empty /\ RelayPasses(m) /\ HopPasses(m) =>
               \/ <<m, 2>> \in Each(sent, 2) \/ <<m, 2>> \in Range(c2s)
               \/ writer.pc = "send" /\ writer.n = m
               \/ <<m, 1>> \in Each(out, 1) \/ <<m, 1>> \in AtRelay)'
  <2> SUFFICES ASSUME Alive', NEW m \in 1 .. n, ~dg[m].empty, RelayPasses(m), HopPasses(m)
               PROVE  (\/ <<m, 2>> \in Each(sent, 2) \/ <<m, 2>> \in Range(c2s)
                       \/ writer.pc = "send" /\ writer.n = m
                       \/ <<m, 1>> \in Each(out, 1) \/ <<m, 1>> \in AtRelay)'
    BY <1>1, <1>2, Zenon
  <2>1. CASE m = n
    BY <1>4, <2>1, Zenon
  <2>2. CASE m # n
    <3>1. m \in 1 .. sends /\ Alive
      BY <1>1, <1>3, <2>2 DEF Alive
    <3> QED
      BY <1>1, <1>4, <3>1, Zenon DEF RequestsInv
  <2> QED
    BY <2>1, <2>2, Zenon
<1> QED
  BY <1>1, <1>2, <1>8, <1>9, <1>10, Zenon DEF RequestsInv

\* RelaySends: the datagram in hand moves into the channel, or is given up when
\* the writer is gone.
LEMMA RequestsSend ==
    ASSUME Shaped, RequestsInv, RelaySends
    PROVE  RequestsInv'
<1>1. /\ relay.pc = "sending" /\ UNCHANGED <<config, sent, c2s, writer, reader, sends, hop, broken>>
      /\ relay.n \in 0 .. MaxSend
  BY Zenon DEF RelaySends, config, pumps, wire, Shaped
<1>2. AtRelay = {<<relay.n, 1>>} /\ AtRelay' = {}
  BY <1>1, Zenon DEF RelaySends, AtRelay, Shaped
<1>3. CASE writer.pc = "gone"
  <2>1. out' = out
    BY <1>3, Zenon DEF RelaySends
  <2>2. ~Alive'
    BY <1>1, <1>3, Zenon DEF Alive
  <2>3. c2s \in Seq(Parts)
    BY Zenon DEF Shaped
  <2>4. broken' \/ hop'.pc = "gone" \/ (~broken /\ hop.pc # "gone" /\ c2s' = c2s /\ hop'.k = hop.k)
    BY <1>1, Zenon
  <2> QED
    BY <1>1, <1>2, <2>1, <2>2, <2>3, <2>4, RequestsShrink, Zenon
<1>4. CASE writer.pc # "gone"
  <2>0. PICK n \in Nat : n = relay.n
    BY <1>1
  <2>1. out' = Append(out, n)
    BY <1>4, <2>0, Zenon DEF RelaySends
  <2>2. \A m : RelayPasses(m)' = RelayPasses(m) /\ HopPasses(m)' = HopPasses(m)
    BY <1>1, Zenon DEF RelayPasses, HopPasses, Dst, config
  <2>3. n \in 1 .. MaxSend /\ out \in Seq(1 .. MaxSend)
    <3>1. <<n, 1>> \in OnRequestLine
      BY <1>2, <2>0, Zenon DEF OnRequestLine
    <3>2. n \in 1 .. sends /\ sends \in 0 .. MaxSend /\ MaxSend \in Nat
      BY <3>1, TunnelConstants, Zenon DEF RequestsInv, Shaped
    <3> QED
      BY <3>2 DEF Shaped
  <2>4. Each(out', 1) = Each(out, 1) \cup {<<n, 1>>}
    <3>0. PICK S : n \in S /\ out \in Seq(S)
      BY <2>3, Zenon
    <3>1. Each(Append(out, n), 1) = Each(out, 1) \cup {<<n, 1>>}
      BY <3>0, AppendEach
    <3> QED
      BY <2>1, <3>1, Zenon
  <2>5. AtWriter' = AtWriter
    BY <1>1, Zenon DEF AtWriter
  <2>6. RequestLine'
    <3>1. Before({<<n, 1>>}, {})
      BY Zenon DEF Before
    <3>2. Line(Each(sent, 2), Range(c2s), AtWriter, Each(out, 1), AtRelay)
      BY Zenon DEF RequestLine, RequestsInv
    <3>3. Line(Each(sent, 2), Range(c2s), AtWriter, Each(out, 1) \cup {<<n, 1>>}, {})
      BY <1>2, <2>0, <3>1, <3>2, LineMoves, Zenon
    <3> QED
      BY <1>1, <1>2, <2>4, <2>5, <3>3, Zenon DEF RequestLine
  <2>7. OnRequestLine' = OnRequestLine
    BY <1>1, <1>2, <2>0, <2>4, <2>5, Zenon DEF OnRequestLine
  <2>8. Increasing(out')
    <3>1. \A i \in DOMAIN out : out[i] < n
      <4>1. Before(Each(out, 1), {<<n, 1>>})
        BY <1>2, <2>0, Zenon DEF RequestsInv, RequestLine, Line
      <4>2. \A i \in DOMAIN out : Precedes(<<out[i], 1>>, <<n, 1>>)
        BY <4>1, Zenon DEF Before, Each
      <4> QED
        BY <2>3, <4>2 DEF Precedes
    <3> QED
      BY <2>1, <2>3, <3>1, AppendOrder, Zenon DEF RequestsInv
  <2>9. (Alive => \A m \in 1 .. sends :
           ~dg[m].empty /\ RelayPasses(m) /\ HopPasses(m) =>
               \/ <<m, 2>> \in Each(sent, 2) \/ <<m, 2>> \in Range(c2s)
               \/ writer.pc = "send" /\ writer.n = m
               \/ <<m, 1>> \in Each(out, 1) \/ <<m, 1>> \in AtRelay)'
    <3>1. Alive' => Alive
      BY <1>1, Zenon DEF Alive
    <3> QED
      BY <1>1, <1>2, <2>0, <2>2, <2>4, <3>1, Zenon DEF RequestsInv, config
  <2> QED
    BY <1>1, <2>2, <2>6, <2>7, <2>8, <2>9, Zenon DEF RequestsInv
<1> QED
  BY <1>3, <1>4, Zenon

\* WriterTakes: the head of the channel moves into the writer's hand.
LEMMA RequestsTake ==
    ASSUME Shaped, RequestsInv, WriterTakes
    PROVE  RequestsInv'
<1>1. /\ writer.pc = "recv" /\ out # <<>> /\ out' = Tail(out)
      /\ writer' = [pc |-> "send", n |-> Head(out), k |-> 0]
      /\ UNCHANGED <<config, sent, c2s, relay, reader, sends, hop, broken>>
  BY Zenon DEF WriterTakes, wire
<1>2. \A m : RelayPasses(m)' = RelayPasses(m) /\ HopPasses(m)' = HopPasses(m)
  BY <1>1, Zenon DEF RelayPasses, HopPasses, Dst, config
<1>3. out \in Seq(1 .. MaxSend)
  BY Zenon DEF Shaped
<1>4. PICK n \in 1 .. MaxSend : n = Head(out)
  BY <1>1, <1>3, TailElements, Zenon
<1>5. AtWriter = {} /\ AtWriter' = {<<n, 1>>} /\ AtRelay' = AtRelay
  BY <1>1, <1>4 DEF AtWriter, AtRelay
<1>6. Each(out', 1) \subseteq Each(out, 1) /\ Each(out, 1) = Each(out', 1) \cup {<<n, 1>>}
  <2>1. Each(out, 1) = Each(Tail(out), 1) \cup {<<Head(out), 1>>}
    BY <1>1, <1>3, TailSets, Zenon
  <2> QED
    BY <1>1, <1>4, <2>1, Zenon
<1>7. Increasing(out') /\ Before({<<n, 1>>}, Each(out', 1))
  <2>1. Increasing(Tail(out)) /\ \A i \in DOMAIN Tail(out) : Head(out) < Tail(out)[i]
    BY <1>1, <1>3, TailOrder, Zenon DEF RequestsInv
  <2> QED
    BY <1>1, <1>4, <2>1 DEF Before, Each, Precedes
<1>8. RequestLine'
  <2>1. Line(Each(sent, 2), Range(c2s), AtWriter, Each(out, 1), AtRelay)
    BY Zenon DEF RequestLine, RequestsInv
  <2>2. Line(Each(sent, 2), Range(c2s), AtWriter \cup {<<n, 1>>}, Each(out', 1), AtRelay)
    BY <1>6, <1>7, <2>1, LineMoves, Zenon
  <2> QED
    BY <1>1, <1>5, <2>2, Zenon DEF RequestLine
<1>9. OnRequestLine' = OnRequestLine
  BY <1>1, <1>5, <1>6, Zenon DEF OnRequestLine
<1>10. (~broken /\ hop.pc # "gone" =>
          Framed(c2s, hop.k) /\ (writer.pc # "gone" => EndsAt(c2s, hop.k, writer.k)))'
  BY <1>1, Zenon DEF RequestsInv
<1>11. (Alive => \A m \in 1 .. sends :
           ~dg[m].empty /\ RelayPasses(m) /\ HopPasses(m) =>
               \/ <<m, 2>> \in Each(sent, 2) \/ <<m, 2>> \in Range(c2s)
               \/ writer.pc = "send" /\ writer.n = m
               \/ <<m, 1>> \in Each(out, 1) \/ <<m, 1>> \in AtRelay)'
  <2>1. Alive' => Alive
    BY <1>1, Zenon DEF Alive
  <2> QED
    BY <1>1, <1>2, <1>4, <1>5, <1>6, <2>1, Zenon DEF RequestsInv, config
<1> QED
  BY <1>1, <1>2, <1>7, <1>8, <1>9, <1>10, <1>11, Zenon DEF RequestsInv

\* WriterSends: the next part of the frame in the writer's hand goes out.
LEMMA RequestsWrite ==
    ASSUME Shaped, RequestsInv, WriterSends
    PROVE  RequestsInv'
<1>1. /\ writer.pc = "send" /\ ~broken /\ hop.pc # "gone"
      /\ c2s' = Append(c2s, <<writer.n, writer.k + 1>>)
      /\ writer' = IF writer.k = 1 THEN [Off EXCEPT !.pc = "recv"] ELSE [writer EXCEPT !.k = 1]
      /\ UNCHANGED <<config, sent, out, relay, reader, sends, hop, broken>>
  BY Zenon DEF WriterSends
<1>2. \A m : RelayPasses(m)' = RelayPasses(m) /\ HopPasses(m)' = HopPasses(m)
  BY <1>1, Zenon DEF RelayPasses, HopPasses, Dst, config
<1>3. PICK n \in Nat, k \in 0 .. 1 : n = writer.n /\ k = writer.k
  BY DEF Shaped
<1>4. AtWriter = {<<n, k + 1>>} /\ AtRelay' = AtRelay
  BY <1>1, <1>3, Zenon DEF AtWriter, AtRelay
<1>5. /\ writer'.k = 1 - k /\ (writer.pc # "send" => writer.k = 0)'
      /\ k = 1 => AtWriter' = {}
      /\ k = 0 => AtWriter' = {<<n, 2>>} /\ writer'.pc = "send" /\ writer'.n = n
  <2>0. writer \in WriterStates
    BY Zenon DEF Shaped
  <2>1. CASE k = 1
    <3>1. writer' = [pc |-> "recv", n |-> 0, k |-> 0]
      BY <1>1, <1>3, <2>1, Zenon DEF Off
    <3> QED
      BY <2>1, <3>1 DEF AtWriter
  <2>2. CASE k = 0
    <3>1. writer'.pc = "send" /\ writer'.n = n /\ writer'.k = 1
      BY <1>1, <1>3, <2>0, <2>2
    <3> QED
      BY <2>2, <3>1 DEF AtWriter
  <2> QED
    BY <2>1, <2>2
<1>6. n \in 1 .. MaxSend /\ c2s \in Seq(Parts) /\ <<n, k + 1>> \in Parts
  <2>1. <<n, k + 1>> \in OnRequestLine
    BY <1>4, Zenon DEF OnRequestLine
  <2>2. n \in 1 .. sends /\ sends \in 0 .. MaxSend /\ MaxSend \in Nat
    BY <2>1, TunnelConstants, Zenon DEF RequestsInv, Shaped
  <2>3. n \in Nat /\ sends \in Nat
    BY <2>2
  <2>4. n \in 1 .. MaxSend
    BY <2>2, <2>3, Within, Zenon
  <2>5. <<n, k + 1>> \in Parts
    BY <1>4, <2>4 DEF Parts
  <2> QED
    BY <2>4, <2>5, Zenon DEF Shaped
<1>7. Range(c2s') = Range(c2s) \cup {<<n, k + 1>>}
  <2>1. Range(Append(c2s, <<n, k + 1>>)) = Range(c2s) \cup {<<n, k + 1>>}
    BY <1>6, AppendSets
  <2> QED
    BY <1>1, <1>3, <2>1, Zenon
<1>8. Line(Each(sent, 2), Range(c2s), AtWriter, Each(out, 1), AtRelay)
  BY Zenon DEF RequestLine, RequestsInv
<1>9. InOrder(c2s')
  <2>1. Before(Range(c2s), {<<n, k + 1>>})
    BY <1>4, <1>8, Zenon DEF Line
  <2>2. InOrder(Append(c2s, <<n, k + 1>>))
    BY <1>6, <2>1, AppendOrder, Zenon DEF RequestsInv
  <2> QED
    BY <1>1, <1>3, <2>2, Zenon
<1>10. RequestLine'
  <2>1. CASE k = 1
    <3>1. Before({<<n, k + 1>>}, {})
      BY Zenon DEF Before
    <3>2. Line(Each(sent, 2), Range(c2s) \cup {<<n, k + 1>>}, {}, Each(out, 1), AtRelay)
      BY <1>4, <1>8, <3>1, LineMoves, Zenon
    <3> QED
      BY <1>1, <1>4, <1>5, <1>7, <2>1, <3>2, Zenon DEF RequestLine
  <2>2. CASE k = 0
    <3>1. AtWriter = {<<n, 1>>} /\ Range(c2s') = Range(c2s) \cup {<<n, 1>>}
      BY <1>4, <1>7, <2>2
    <3>2. \A x \in OnRequestLine : x[1] \in Nat
      BY DEF RequestsInv
    <3>3. \A x \in Each(sent, 2) \cup Range(c2s) : x[2] \in Nat
      <4>1. \A i \in DOMAIN c2s : c2s[i] \in Parts
        BY <1>6
      <4> QED
        BY <4>1 DEF Each, Range, Parts
    <3>4. \A x \in Each(out, 1) \cup AtRelay : x[2] = 1
      BY DEF Each, AtRelay
    <3>5. Line(Each(sent, 2), Range(c2s) \cup {<<n, 1>>}, {<<n, 2>>}, Each(out, 1), AtRelay)
      BY <1>8, <3>1, <3>2, <3>3, <3>4, HeaderMoves, Zenon DEF OnRequestLine
    <3> QED
      BY <1>1, <1>4, <1>5, <2>2, <3>1, <3>5, Zenon DEF RequestLine
  <2> QED
    BY <2>1, <2>2
<1>11. (\A x \in OnRequestLine : x[1] \in 1 .. sends /\ RelayPasses(x[1]))'
  <2>1. \A x \in OnRequestLine : x[1] \in 1 .. sends /\ RelayPasses(x[1])
    BY Zenon DEF RequestsInv
  <2>2. n \in 1 .. sends /\ RelayPasses(n)
    <3>1. <<n, k + 1>> \in OnRequestLine /\ <<n, k + 1>>[1] = n
      BY <1>4, Zenon DEF OnRequestLine
    <3> QED
      BY <2>1, <3>1, Zenon
  <2>3. OnRequestLine' \subseteq OnRequestLine \cup {<<n, 2>>}
    BY <1>1, <1>4, <1>5, <1>7 DEF OnRequestLine
  <2>4. \A x \in OnRequestLine' : x[1] \in 1 .. sends /\ RelayPasses(x[1])
    BY <2>1, <2>2, <2>3
  <2> QED
    BY <1>1, <1>2, <2>4, Zenon
<1>12. (~broken /\ hop.pc # "gone" =>
          Framed(c2s, hop.k) /\ (writer.pc # "gone" => EndsAt(c2s, hop.k, writer.k)))'
  <2>1. Framed(c2s, hop.k) /\ EndsAt(c2s, hop.k, k)
    BY <1>1, <1>3, Zenon DEF RequestsInv
  <2>2. hop.k \in 0 .. 1 /\ c2s \in Seq((1 .. MaxSend) \X (1 .. 2))
    BY <1>6, Zenon DEF Shaped, Parts
  <2>3. Framed(Append(c2s, <<n, k + 1>>), hop.k) /\ EndsAt(Append(c2s, <<n, k + 1>>), hop.k, 1 - k)
    BY <1>6, <2>1, <2>2, FramedAppend, Zenon
  <2> QED
    BY <1>1, <1>3, <1>5, <2>3, Zenon
<1>13. (Alive => \A m \in 1 .. sends :
           ~dg[m].empty /\ RelayPasses(m) /\ HopPasses(m) =>
               \/ <<m, 2>> \in Each(sent, 2) \/ <<m, 2>> \in Range(c2s)
               \/ writer.pc = "send" /\ writer.n = m
               \/ <<m, 1>> \in Each(out, 1) \/ <<m, 1>> \in AtRelay)'
  <2>1. Alive' => Alive
    BY <1>1, Zenon DEF Alive
  <2>2. k = 1 => <<n, 2>> \in Range(c2s')
    BY <1>7
  <2>3. Each(sent', 2) = Each(sent, 2) /\ Each(out', 1) = Each(out, 1)
    BY <1>1, Zenon
  <2>4. Range(c2s) \subseteq Range(c2s')
    BY <1>7, Zenon
  <2> SUFFICES ASSUME Alive, NEW m \in 1 .. sends, ~dg[m].empty, RelayPasses(m), HopPasses(m)
               PROVE  (\/ <<m, 2>> \in Each(sent, 2) \/ <<m, 2>> \in Range(c2s)
                       \/ writer.pc = "send" /\ writer.n = m
                       \/ <<m, 1>> \in Each(out, 1) \/ <<m, 1>> \in AtRelay)'
    BY <1>1, <1>2, <2>1, Zenon DEF config
  <2>5. \/ <<m, 2>> \in Each(sent, 2) \/ <<m, 2>> \in Range(c2s) \/ n = m
        \/ <<m, 1>> \in Each(out, 1) \/ <<m, 1>> \in AtRelay
    BY <1>3, Zenon DEF RequestsInv
  <2> QED
    BY <1>4, <1>5, <2>2, <2>3, <2>4, <2>5
<1> QED
  BY <1>1, <1>2, <1>5, <1>9, <1>10, <1>11, <1>12, <1>13, Zenon DEF RequestsInv

\* HopFills: the hop takes a part off the stream, and with the last one of a
\* frame the datagram goes out to the world or is dropped.
LEMMA RequestsFill ==
    ASSUME Shaped, RequestsInv, HopFills
    PROVE  RequestsInv'
<1>0. PICK x \in Parts : x = Head(c2s)
  <2>1. c2s # <<>> /\ c2s \in Seq(Parts)
    BY Zenon DEF HopFills, Shaped
  <2> QED
    BY <2>1, TailElements, Zenon
<1> DEFINE n == x[1]
<1>1. /\ hop.pc = "select" /\ ~broken /\ c2s # <<>> /\ c2s' = Tail(c2s)
      /\ UNCHANGED <<config, out, relay, writer, reader, sends, broken>>
      /\ hop.k = 0 => hop' = [hop EXCEPT !.k = 1] /\ sent' = sent
      /\ hop.k # 0 => /\ hop' = [hop EXCEPT !.k = 0]
                      /\ sent' = IF ~dg[n].empty /\ HopPasses(n) THEN Append(sent, n) ELSE sent
  BY <1>0, Zenon DEF HopFills, pumps
<1>2. \A m : RelayPasses(m)' = RelayPasses(m) /\ HopPasses(m)' = HopPasses(m)
  BY <1>1, Zenon DEF RelayPasses, HopPasses, Dst, config
<1>3. /\ c2s \in Seq(Parts) /\ sent \in Seq(1 .. MaxSend) /\ hop.k \in 0 .. 1 /\ n \in 1 .. MaxSend
      /\ c2s \in Seq((1 .. MaxSend) \X (1 .. 2))
  BY Zenon DEF Shaped, Parts
<1>4. hop'.k = 1 - hop.k /\ hop'.pc = "select"
  <2>1. hop \in HopStates
    BY Zenon DEF Shaped
  <2> QED
    BY <1>1, <1>3, <2>1
<1>5. AtWriter' = AtWriter /\ AtRelay' = AtRelay
  BY <1>1, Zenon DEF AtWriter, AtRelay
<1>6. /\ Framed(c2s, hop.k) /\ (writer.pc # "gone" => EndsAt(c2s, hop.k, writer.k))
      /\ writer.k \in 0 .. 1
  BY <1>1, Zenon DEF RequestsInv, Shaped
<1>7. x[2] = hop.k + 1 /\ Framed(c2s', 1 - hop.k)
      /\ (writer.pc # "gone" => EndsAt(c2s', 1 - hop.k, writer.k))
  <2>1. /\ Head(c2s)[2] = hop.k + 1 /\ Framed(Tail(c2s), 1 - hop.k)
        /\ \A b \in 0 .. 1 : EndsAt(c2s, hop.k, b) => EndsAt(Tail(c2s), 1 - hop.k, b)
    BY <1>1, <1>3, <1>6, FramedTail, Zenon
  <2> QED
    BY <1>0, <1>1, <1>6, <2>1, Zenon
<1>8. Range(c2s) = Range(c2s') \cup {x} /\ InOrder(c2s') /\ Before({x}, Range(c2s'))
  <2>1. Range(c2s) = Range(Tail(c2s)) \cup {Head(c2s)}
    BY <1>1, <1>3, TailSets, Zenon
  <2>2. InOrder(Tail(c2s)) /\ Before({Head(c2s)}, Range(Tail(c2s)))
    BY <1>1, <1>3, TailOrder, Zenon DEF RequestsInv
  <2> QED
    BY <1>0, <1>1, <2>1, <2>2, Zenon
<1>9. Line(Each(sent, 2), Range(c2s), AtWriter, Each(out, 1), AtRelay)
  BY Zenon DEF RequestLine, RequestsInv
<1>10. \A y \in OnRequestLine : y[1] \in 1 .. sends /\ RelayPasses(y[1])
  BY Zenon DEF RequestsInv
<1>11. CASE sent' = sent
  <2>1. RequestLine'
    <3>1. Line(Each(sent, 2), Range(c2s'), AtWriter, Each(out, 1), AtRelay)
      BY <1>8, <1>9, LineShrinks
    <3> QED
      BY <1>1, <1>5, <1>11, <3>1, Zenon DEF RequestLine
  <2>2. OnRequestLine' \subseteq OnRequestLine
    BY <1>1, <1>5, <1>8, <1>11, Zenon DEF OnRequestLine
  <2>3. (Alive => \A m \in 1 .. sends :
           ~dg[m].empty /\ RelayPasses(m) /\ HopPasses(m) =>
               \/ <<m, 2>> \in Each(sent, 2) \/ <<m, 2>> \in Range(c2s)
               \/ writer.pc = "send" /\ writer.n = m
               \/ <<m, 1>> \in Each(out, 1) \/ <<m, 1>> \in AtRelay)'
    <3>1. Alive' => Alive
      BY <1>1, Zenon DEF Alive
    <3>2. ASSUME NEW m, x = <<m, 2>> PROVE ~(~dg[m].empty /\ HopPasses(m))
      <4>1. m = n /\ hop.k # 0
        BY <1>3, <1>7, <3>2
      <4>2. sent' = sent /\ sent \in Seq(1 .. MaxSend) => Append(sent, n) # sent
        BY <1>3
      <4> QED
        BY <1>1, <1>3, <1>11, <4>1, <4>2, Zenon
    <3> QED
      BY <1>1, <1>2, <1>5, <1>8, <1>11, <3>1, <3>2, Zenon DEF RequestsInv, config
  <2> QED
    BY <1>1, <1>2, <1>4, <1>7, <1>8, <1>10, <1>11, <2>1, <2>2, <2>3, Zenon DEF RequestsInv
<1>12. CASE sent' # sent
  <2>1. hop.k = 1 /\ sent' = Append(sent, n) /\ HopPasses(n) /\ x = <<n, 2>>
    <3>1. hop.k # 0 /\ sent' = Append(sent, n) /\ HopPasses(n)
      BY <1>1, <1>12, Zenon
    <3> QED
      BY <1>3, <1>7, <3>1 DEF Parts
  <2>2. Each(sent', 2) = Each(sent, 2) \cup {x}
    <3>0. PICK S : n \in S /\ sent \in Seq(S)
      BY <1>3, Zenon
    <3>1. Each(Append(sent, n), 2) = Each(sent, 2) \cup {<<n, 2>>}
      BY <3>0, AppendEach
    <3> QED
      BY <2>1, <3>1, Zenon
  <2>3. RequestLine'
    <3>1. x \in Range(c2s) /\ Range(c2s') \subseteq Range(c2s)
      BY <1>8, Zenon
    <3>2. Line(Each(sent, 2) \cup {x}, Range(c2s'), AtWriter, Each(out, 1), AtRelay)
      BY <1>8, <1>9, <3>1, LineMoves, Zenon
    <3> QED
      BY <1>1, <1>5, <2>2, <3>2, Zenon DEF RequestLine
  <2>4. OnRequestLine' = OnRequestLine
    BY <1>1, <1>5, <1>8, <2>2, Zenon DEF OnRequestLine
  <2>5. Increasing(sent')
    <3>1. \A i \in DOMAIN sent : sent[i] < n
      <4>1. Before(Each(sent, 2), {x})
        BY <1>8, <1>9, Zenon DEF Line, Before
      <4>2. \A i \in DOMAIN sent : Precedes(<<sent[i], 2>>, <<n, 2>>)
        BY <2>1, <4>1, Zenon DEF Before, Each
      <4> QED
        BY <1>3, <4>2 DEF Precedes
    <3>2. Increasing(Append(sent, n))
      BY <1>3, <3>1, AppendOrder, Zenon DEF RequestsInv
    <3> QED
      BY <2>1, <3>2, Zenon
  <2>6. \A i \in DOMAIN sent' : HopPasses(sent'[i])
    <3>1. \A i \in DOMAIN Append(sent, n) : (i \in DOMAIN sent /\ Append(sent, n)[i] = sent[i])
                                            \/ Append(sent, n)[i] = n
      BY <1>3, AppendElements
    <3> QED
      BY <2>1, <3>1, Zenon DEF RequestsInv
  <2>7. (Alive => \A m \in 1 .. sends :
           ~dg[m].empty /\ RelayPasses(m) /\ HopPasses(m) =>
               \/ <<m, 2>> \in Each(sent, 2) \/ <<m, 2>> \in Range(c2s)
               \/ writer.pc = "send" /\ writer.n = m
               \/ <<m, 1>> \in Each(out, 1) \/ <<m, 1>> \in AtRelay)'
    <3>1. Alive' => Alive
      BY <1>1, Zenon DEF Alive
    <3> QED
      BY <1>1, <1>2, <1>5, <1>8, <2>2, <3>1, Zenon DEF RequestsInv, config
  <2> QED
    BY <1>1, <1>2, <1>4, <1>7, <1>8, <1>10, <2>3, <2>4, <2>5, <2>6, <2>7, Zenon DEF RequestsInv
<1> QED
  BY <1>11, <1>12, Zenon

-----------------------------------------------------------------------------
(* The way back.                                                           *)

\* A step that leaves the way alone, the hop's part of it and the reader's.
LEMMA RepliesStay ==
    ASSUME RepliesInv, UNCHANGED <<config, back, inq, s2c, replies>>,
           broken => broken', Alive' => Alive, AtReader' = AtReader,
           reader'.pc # "gone" => reader.pc # "gone" /\ reader'.k = reader.k,
           reader'.pc # "recv" => reader'.k = 0,
           \/ UNCHANGED <<hop>>
           \/ /\ hop.pc \notin {"reply", "body"} /\ hop'.pc \notin {"reply", "body"}
              /\ hop'.pc # "gone" => hop.pc # "gone"
    PROVE  RepliesInv'
<1>1. AtHop' = AtHop
  BY Zenon DEF AtHop
<1>2. AnswerLine' = AnswerLine /\ OnAnswerLine' = OnAnswerLine
  BY <1>1, Zenon DEF AnswerLine, OnAnswerLine
<1>3. (\/ <<hop.pc, hop.n>>' = <<hop.pc, hop.n>>
       \/ hop.pc \notin {"reply", "body"} /\ hop'.pc \notin {"reply", "body"})
  BY Zenon
<1>4. (~broken /\ reader.pc # "gone" =>
           /\ Framed(s2c, reader.k)
           /\ hop.pc # "gone" => EndsAt(s2c, reader.k, IF hop.pc = "body" THEN 1 ELSE 0))'
  BY Zenon DEF RepliesInv
<1>5. (Alive => \A n \in 1 .. replies :
           ~rp[n].empty /\ rp[n].at \notin Bypassed =>
               \/ <<n, 2>> \in Each(back, 2) \/ <<n, 2>> \in Each(inq, 2) \/ <<n, 2>> \in AtReader
               \/ <<n, 2>> \in Range(s2c) \/ (hop.pc \in {"reply", "body"} /\ hop.n = n))'
  BY <1>3, Zenon DEF RepliesInv, config
<1> QED
  BY <1>2, <1>4, <1>5, Zenon DEF RepliesInv

\* A step with which the tunnel is over takes things off the way.
LEMMA RepliesShrink ==
    ASSUME RepliesInv, UNCHANGED <<config, back, inq, replies>>,
           (broken' /\ s2c' = <<>>) \/ UNCHANGED <<s2c, broken>>,
           reader' \in {reader, Gone}, hop' \in {hop, Gone}, ~Alive'
    PROVE  RepliesInv'
<1>1. AtReader' \subseteq AtReader /\ AtHop' \subseteq AtHop /\ (reader.pc # "recv" => reader.k = 0)'
  BY DEF AtReader, AtHop, Gone, RepliesInv
<1>2. Range(s2c') \subseteq Range(s2c) /\ InOrder(s2c')
  <2>1. CASE s2c' = <<>>
    BY <2>1 DEF Range, InOrder
  <2> QED
    BY <2>1, Zenon DEF RepliesInv
<1>3. AnswerLine'
  BY <1>1, <1>2, LineShrinks DEF AnswerLine, RepliesInv
<1>4. OnAnswerLine' \subseteq OnAnswerLine
  BY <1>1, <1>2, Zenon DEF OnAnswerLine
<1>5. (~broken /\ reader.pc # "gone" =>
           /\ Framed(s2c, reader.k)
           /\ hop.pc # "gone" => EndsAt(s2c, reader.k, IF hop.pc = "body" THEN 1 ELSE 0))'
  BY DEF RepliesInv, Gone
<1> QED
  BY <1>1, <1>2, <1>3, <1>4, <1>5, Zenon DEF RepliesInv

\* RelayReceives: a datagram leaves the channel, for the client or for nobody.
LEMMA RepliesReceive ==
    ASSUME Shaped, RepliesInv, RelayReceives
    PROVE  RepliesInv'
<1>0. /\ inq # <<>> /\ inq' = Tail(inq) /\ relay.pc = "select"
      /\ UNCHANGED <<config, s2c, reader, writer, replies, hop, broken>>
      /\ inq \in Seq(1 .. MaxReply) /\ back \in Seq(1 .. MaxReply)
  BY Zenon DEF RelayReceives, pumps, wire, Shaped
<1>1. PICK S : inq \in Seq(S) /\ back \in Seq(S)
  BY <1>0, Zenon
<1>2. PICK n \in S : n = Head(inq)
  BY <1>0, <1>1, TailElements, Zenon
<1>3. n \in 1 .. MaxReply
  BY <1>0, <1>2, TailElements, Zenon
<1>4. AtReader' = AtReader /\ AtHop' = AtHop
  BY <1>0, Zenon DEF AtReader, AtHop
<1>5. Each(inq, 2) = Each(inq', 2) \cup {<<n, 2>>}
  <2>1. Each(inq, 2) = Each(Tail(inq), 2) \cup {<<Head(inq), 2>>}
    BY <1>0, <1>1, TailSets, Zenon
  <2> QED
    BY <1>0, <1>2, <2>1, Zenon
<1>6. Increasing(inq') /\ Before({<<n, 2>>}, Each(inq', 2))
  <2>1. Increasing(Tail(inq)) /\ \A i \in DOMAIN Tail(inq) : Head(inq) < Tail(inq)[i]
    BY <1>0, <1>1, TailOrder, Zenon DEF RepliesInv
  <2> QED
    BY <1>0, <1>2, <2>1 DEF Before, Each, Precedes
<1>7. Line(Each(back, 2), Each(inq, 2), AtReader, Range(s2c), AtHop)
  BY Zenon DEF AnswerLine, RepliesInv
<1>8. \A x \in OnAnswerLine : x[1] \in 1 .. replies
  BY Zenon DEF RepliesInv
<1>9. (~broken /\ reader.pc # "gone" =>
           /\ Framed(s2c, reader.k)
           /\ hop.pc # "gone" => EndsAt(s2c, reader.k, IF hop.pc = "body" THEN 1 ELSE 0))'
  BY <1>0, Zenon DEF RepliesInv
<1>10. CASE back' = back
  <2>1. AnswerLine'
    <3>1. Line(Each(back, 2), Each(inq', 2), AtReader, Range(s2c), AtHop)
      BY <1>5, <1>7, LineShrinks, Zenon
    <3> QED
      BY <1>0, <1>4, <1>10, <3>1, Zenon DEF AnswerLine
  <2>2. OnAnswerLine' \subseteq OnAnswerLine
    BY <1>0, <1>4, <1>5, <1>10, Zenon DEF OnAnswerLine
  <2>3. Alive' => Alive /\ rp[n].at \in Bypassed
    <3>1. Append(back, n) # back
      BY <1>1
    <3> QED
      BY <1>0, <1>2, <1>10, <3>1, Zenon DEF RelayReceives, Alive, Shaped
  <2>4. (Alive => \A m \in 1 .. replies :
           ~rp[m].empty /\ rp[m].at \notin Bypassed =>
               \/ <<m, 2>> \in Each(back, 2) \/ <<m, 2>> \in Each(inq, 2) \/ <<m, 2>> \in AtReader
               \/ <<m, 2>> \in Range(s2c) \/ (hop.pc \in {"reply", "body"} /\ hop.n = m))'
    BY <1>0, <1>4, <1>5, <1>10, <2>3, Zenon DEF RepliesInv, config
  <2> QED
    BY <1>0, <1>6, <1>8, <1>9, <1>10, <2>1, <2>2, <2>4, Zenon DEF RepliesInv
<1>11. CASE back' # back
  <2>1. back' = Append(back, n)
    BY <1>2, <1>11, Zenon DEF RelayReceives
  <2>2. Each(back', 2) = Each(back, 2) \cup {<<n, 2>>}
    <3>1. Each(Append(back, n), 2) = Each(back, 2) \cup {<<n, 2>>}
      BY <1>1, AppendEach
    <3> QED
      BY <2>1, <3>1, Zenon
  <2>3. AnswerLine'
    <3>1. Line(Each(back, 2) \cup {<<n, 2>>}, Each(inq', 2), AtReader, Range(s2c), AtHop)
      BY <1>5, <1>6, <1>7, LineMoves, Zenon
    <3> QED
      BY <1>0, <1>4, <2>2, <3>1, Zenon DEF AnswerLine
  <2>4. OnAnswerLine' = OnAnswerLine
    BY <1>0, <1>4, <1>5, <2>2, Zenon DEF OnAnswerLine
  <2>5. Increasing(back')
    <3>1. \A i \in DOMAIN back : back[i] < n
      <4>1. Before(Each(back, 2), {<<n, 2>>})
        BY <1>5, <1>7, Zenon DEF Line, Before
      <4>2. \A i \in DOMAIN back : Precedes(<<back[i], 2>>, <<n, 2>>)
        BY <4>1, Zenon DEF Before, Each
      <4> QED
        BY <4>2 DEF Precedes
    <3>2. Increasing(Append(back, n))
      BY <1>1, <3>1, AppendOrder, Zenon DEF RepliesInv
    <3> QED
      BY <2>1, <3>2, Zenon
  <2>6. (Alive => \A m \in 1 .. replies :
           ~rp[m].empty /\ rp[m].at \notin Bypassed =>
               \/ <<m, 2>> \in Each(back, 2) \/ <<m, 2>> \in Each(inq, 2) \/ <<m, 2>> \in AtReader
               \/ <<m, 2>> \in Range(s2c) \/ (hop.pc \in {"reply", "body"} /\ hop.n = m))'
    <3>1. Alive' => Alive
      BY <1>0, Zenon DEF Alive
    <3> QED
      BY <1>0, <1>4, <1>5, <2>2, <3>1, Zenon DEF RepliesInv, config
  <2> QED
    BY <1>0, <1>6, <1>8, <1>9, <2>3, <2>4, <2>5, <2>6, Zenon DEF RepliesInv
<1> QED
  BY <1>10, <1>11, Zenon

\* ReaderPuts: the datagram in the reader's hand moves into the channel.
LEMMA RepliesPut ==
    ASSUME Shaped, RepliesInv, ReaderPuts
    PROVE  RepliesInv'
<1>1. /\ reader.pc = "put" /\ inq' = Append(inq, reader.n) /\ reader' = [pc |-> "want", n |-> 0, k |-> 0]
      /\ UNCHANGED <<config, back, s2c, relay, writer, replies, hop, broken>>
  BY Zenon DEF ReaderPuts, wire, Off
<1>2. PICK n : n = reader.n
  BY Zenon
<1>3. AtReader = {<<n, 2>>} /\ AtReader' = {} /\ AtHop' = AtHop /\ reader.k = 0
  BY <1>1, <1>2, Zenon DEF AtReader, AtHop, RepliesInv
<1>4. n \in 1 .. MaxReply /\ inq \in Seq(1 .. MaxReply)
  <2>1. <<n, 2>> \in OnAnswerLine
    BY <1>3, Zenon DEF OnAnswerLine
  <2>2. n \in 1 .. replies /\ replies \in 0 .. MaxReply /\ MaxReply \in Nat
    BY <2>1, TunnelConstants, Zenon DEF RepliesInv, Shaped
  <2> QED
    BY <2>2 DEF Shaped
<1>5. PICK S : n \in S /\ inq \in Seq(S)
  BY <1>4, Zenon
<1>6. Each(inq', 2) = Each(inq, 2) \cup {<<n, 2>>}
  <2>1. Each(Append(inq, n), 2) = Each(inq, 2) \cup {<<n, 2>>}
    BY <1>5, AppendEach
  <2> QED
    BY <1>1, <1>2, <2>1, Zenon
<1>7. Line(Each(back, 2), Each(inq, 2), AtReader, Range(s2c), AtHop)
  BY Zenon DEF AnswerLine, RepliesInv
<1>8. AnswerLine'
  <2>1. Before({<<n, 2>>}, {})
    BY Zenon DEF Before
  <2>2. Line(Each(back, 2), Each(inq, 2) \cup {<<n, 2>>}, {}, Range(s2c), AtHop)
    BY <1>3, <1>7, <2>1, LineMoves, Zenon
  <2> QED
    BY <1>1, <1>3, <1>6, <2>2, Zenon DEF AnswerLine
<1>9. OnAnswerLine' = OnAnswerLine
  BY <1>1, <1>3, <1>6, Zenon DEF OnAnswerLine
<1>10. Increasing(inq')
  <2>1. \A i \in DOMAIN inq : inq[i] < n
    <3>1. Before(Each(inq, 2), {<<n, 2>>})
      BY <1>3, <1>7, Zenon DEF Line
    <3>2. \A i \in DOMAIN inq : Precedes(<<inq[i], 2>>, <<n, 2>>)
      BY <3>1, Zenon DEF Before, Each
    <3> QED
      BY <3>2 DEF Precedes
  <2>2. Increasing(Append(inq, n))
    BY <1>5, <2>1, AppendOrder, Zenon DEF RepliesInv
  <2> QED
    BY <1>1, <1>2, <2>2, Zenon
<1>11. (~broken /\ reader.pc # "gone" =>
           /\ Framed(s2c, reader.k)
           /\ hop.pc # "gone" => EndsAt(s2c, reader.k, IF hop.pc = "body" THEN 1 ELSE 0))'
  BY <1>1, <1>3, Zenon DEF RepliesInv
<1>12. (Alive => \A m \in 1 .. replies :
           ~rp[m].empty /\ rp[m].at \notin Bypassed =>
               \/ <<m, 2>> \in Each(back, 2) \/ <<m, 2>> \in Each(inq, 2) \/ <<m, 2>> \in AtReader
               \/ <<m, 2>> \in Range(s2c) \/ (hop.pc \in {"reply", "body"} /\ hop.n = m))'
  <2>1. Alive' => Alive
    BY <1>1, Zenon DEF Alive
  <2> QED
    BY <1>1, <1>3, <1>6, <2>1, Zenon DEF RepliesInv, config
<1> QED
  BY <1>1, <1>8, <1>9, <1>10, <1>11, <1>12, Zenon DEF RepliesInv

\* ReaderFills: the reader takes a part off the stream; with the last one of a
\* frame the datagram is in its hand, unless it is empty.
LEMMA RepliesFill ==
    ASSUME Shaped, RepliesInv, ReaderFills
    PROVE  RepliesInv'
<1>0. PICK x \in AnswerParts : x = Head(s2c)
  <2>1. s2c # <<>> /\ s2c \in Seq(AnswerParts)
    BY Zenon DEF ReaderFills, Shaped
  <2> QED
    BY <2>1, TailElements, Zenon
<1> DEFINE n == x[1]
<1>1. /\ reader.pc = "recv" /\ ~broken /\ s2c # <<>> /\ s2c' = Tail(s2c)
      /\ UNCHANGED <<config, back, inq, relay, writer, replies, hop, broken>>
      /\ reader.k \in 0 .. 1
  BY Zenon DEF ReaderFills, Shaped
<1>2. /\ reader.k = 0 => reader' = [reader EXCEPT !.k = 1]
      /\ reader.k = 1 /\ rp[n].empty => reader' = [reader EXCEPT !.k = 0]
      /\ reader.k = 1 /\ ~rp[n].empty => reader' = [pc |-> "put", n |-> n, k |-> 0]
  BY <1>0 DEF ReaderFills
<1>3. /\ s2c \in Seq(AnswerParts) /\ s2c \in Seq((1 .. MaxReply) \X (1 .. 2)) /\ n \in 1 .. MaxReply
      /\ reader \in ReaderStates
  BY Zenon DEF Shaped, AnswerParts
<1>4. /\ reader'.k = 1 - reader.k /\ reader'.pc # "gone"
      /\ reader'.pc # "recv" => reader'.k = 0
      /\ AtReader = {}
      /\ AtReader' = IF reader.k = 1 /\ ~rp[n].empty THEN {<<n, 2>>} ELSE {}
  <2>1. CASE reader.k = 0
    BY <1>1, <1>2, <1>3, <2>1 DEF AtReader
  <2>2. CASE reader.k = 1 /\ rp[n].empty
    <3>1. reader'.k = 0 /\ reader'.pc = "recv"
      BY <1>1, <1>2, <1>3, <2>2, Zenon
    <3> QED
      BY <1>1, <2>2, <3>1 DEF AtReader
  <2>3. CASE reader.k = 1 /\ ~rp[n].empty
    BY <1>1, <1>2, <1>3, <2>3 DEF AtReader
  <2> QED
    BY <1>1, <2>1, <2>2, <2>3
<1>5. AtHop' = AtHop
  BY <1>1, Zenon DEF AtHop
<1>6. Framed(s2c, reader.k) /\ (hop.pc # "gone" => EndsAt(s2c, reader.k, IF hop.pc = "body" THEN 1 ELSE 0))
  BY <1>1, Zenon DEF RepliesInv
<1>7. /\ x[2] = reader.k + 1 /\ Framed(s2c', 1 - reader.k)
      /\ hop.pc # "gone" => EndsAt(s2c', 1 - reader.k, IF hop.pc = "body" THEN 1 ELSE 0)
  <2>1. /\ Head(s2c)[2] = reader.k + 1 /\ Framed(Tail(s2c), 1 - reader.k)
        /\ \A b \in 0 .. 1 : EndsAt(s2c, reader.k, b) => EndsAt(Tail(s2c), 1 - reader.k, b)
    BY <1>1, <1>3, <1>6, FramedTail, Zenon
  <2> QED
    BY <1>0, <1>1, <1>6, <2>1
<1>8. Range(s2c) = Range(s2c') \cup {x} /\ InOrder(s2c') /\ Before({x}, Range(s2c'))
  <2>1. Range(s2c) = Range(Tail(s2c)) \cup {Head(s2c)}
    BY <1>1, <1>3, TailSets, Zenon
  <2>2. InOrder(Tail(s2c)) /\ Before({Head(s2c)}, Range(Tail(s2c)))
    BY <1>1, <1>3, TailOrder, Zenon DEF RepliesInv
  <2> QED
    BY <1>0, <1>1, <2>1, <2>2, Zenon
<1>9. Line(Each(back, 2), Each(inq, 2), AtReader, Range(s2c), AtHop)
  BY Zenon DEF AnswerLine, RepliesInv
<1>10. \A y \in OnAnswerLine : y[1] \in 1 .. replies
  BY Zenon DEF RepliesInv
<1>11. Alive' => Alive
  BY <1>1, Zenon DEF Alive
<1>12. CASE AtReader' = {}
  <2>1. AnswerLine'
    <3>1. Line(Each(back, 2), Each(inq, 2), AtReader, Range(s2c'), AtHop)
      BY <1>8, <1>9, LineShrinks
    <3> QED
      BY <1>1, <1>4, <1>5, <1>12, <3>1, Zenon DEF AnswerLine
  <2>2. OnAnswerLine' \subseteq OnAnswerLine
    BY <1>1, <1>5, <1>8, <1>12, Zenon DEF OnAnswerLine
  <2>3. \A m : x = <<m, 2>> => rp[m].empty
    <3>1. reader.k = 1 => rp[n].empty
      BY <1>4, <1>12, Zenon
    <3> QED
      BY <1>1, <1>7, <3>1
  <2>4. (Alive => \A m \in 1 .. replies :
           ~rp[m].empty /\ rp[m].at \notin Bypassed =>
               \/ <<m, 2>> \in Each(back, 2) \/ <<m, 2>> \in Each(inq, 2) \/ <<m, 2>> \in AtReader
               \/ <<m, 2>> \in Range(s2c) \/ (hop.pc \in {"reply", "body"} /\ hop.n = m))'
    BY <1>1, <1>4, <1>8, <1>11, <2>3, Zenon DEF RepliesInv, config
  <2> QED
    BY <1>1, <1>4, <1>7, <1>8, <1>10, <2>1, <2>2, <2>4, Zenon DEF RepliesInv
<1>13. CASE AtReader' # {}
  <2>1. AtReader' = {x}
    <3>1. reader.k = 1 /\ AtReader' = {<<n, 2>>}
      BY <1>4, <1>13, Zenon
    <3> QED
      BY <1>7, <3>1 DEF AnswerParts
  <2>2. AnswerLine'
    <3>1. x \in Range(s2c) /\ Range(s2c') \subseteq Range(s2c)
      BY <1>8, Zenon
    <3>2. Line(Each(back, 2), Each(inq, 2), AtReader \cup {x}, Range(s2c'), AtHop)
      BY <1>8, <1>9, <3>1, LineMoves, Zenon
    <3> QED
      BY <1>1, <1>4, <1>5, <2>1, <3>2, Zenon DEF AnswerLine
  <2>3. OnAnswerLine' = OnAnswerLine
    BY <1>1, <1>4, <1>5, <1>8, <2>1, Zenon DEF OnAnswerLine
  <2>4. (Alive => \A m \in 1 .. replies :
           ~rp[m].empty /\ rp[m].at \notin Bypassed =>
               \/ <<m, 2>> \in Each(back, 2) \/ <<m, 2>> \in Each(inq, 2) \/ <<m, 2>> \in AtReader
               \/ <<m, 2>> \in Range(s2c) \/ (hop.pc \in {"reply", "body"} /\ hop.n = m))'
    BY <1>1, <1>4, <1>8, <1>11, <2>1, Zenon DEF RepliesInv, config
  <2> QED
    BY <1>1, <1>4, <1>7, <1>8, <1>10, <2>2, <2>3, <2>4, Zenon DEF RepliesInv
<1> QED
  BY <1>12, <1>13, Zenon

\* FromPeer: a datagram of the world goes to the end of the line, or is dropped
\* because its source is bypassed.
LEMMA RepliesArrive ==
    ASSUME Shaped, RepliesInv, FromPeer
    PROVE  RepliesInv'
<1> DEFINE n == replies + 1
<1>1. /\ hop.pc = "select" /\ replies < MaxReply /\ replies' = n
      /\ UNCHANGED <<config, back, inq, s2c, reader, writer, relay, broken>>
      /\ hop' = IF rp[n].at \in Bypassed THEN hop ELSE [hop EXCEPT !.pc = "reply", !.n = n]
  BY Zenon DEF FromPeer, pumps, wire
<1>2. replies \in Nat /\ n \in Nat
  <2>1. replies \in 0 .. MaxReply /\ MaxReply \in Nat
    BY TunnelConstants, Zenon DEF Shaped
  <2> QED
    BY <1>1, <2>1
<1>3. /\ AtHop = {} /\ AtHop' = (IF rp[n].at \in Bypassed THEN {} ELSE {<<n, 1>>})
      /\ rp[n].at \notin Bypassed => hop'.pc = "reply" /\ hop'.n = n
      /\ hop'.pc # "body" /\ hop.pc # "body" /\ hop.pc # "gone"
  <2>1. hop \in HopStates
    BY Zenon DEF Shaped
  <2> QED
    BY <1>1, <2>1, Zenon DEF AtHop
<1>4. AtReader' = AtReader
  BY <1>1, Zenon DEF AtReader
<1>5. \A x \in OnAnswerLine : x[1] \in 1 .. replies
  BY Zenon DEF RepliesInv
<1>6. OnAnswerLine' = OnAnswerLine \cup AtHop'
  BY <1>1, <1>3, <1>4, Zenon DEF OnAnswerLine
<1>7. (\A x \in OnAnswerLine : x[1] \in 1 .. replies)'
  <2> SUFFICES ASSUME NEW x \in OnAnswerLine' PROVE x[1] \in 1 .. n
    BY <1>1, Zenon
  <2>1. CASE x \in OnAnswerLine
    BY <1>2, <1>5, <2>1
  <2>2. CASE x \in AtHop'
    BY <1>2, <1>3, <2>2
  <2> QED
    BY <1>6, <2>1, <2>2, Zenon
<1>8. AnswerLine'
  <2>1. Before(OnAnswerLine, AtHop')
    BY <1>2, <1>3, <1>5 DEF Before, Precedes
  <2> QED
    BY <1>1, <1>4, <2>1, Zenon DEF AnswerLine, OnAnswerLine, RepliesInv, Line, Before
<1>9. (Alive => \A m \in 1 .. replies :
           ~rp[m].empty /\ rp[m].at \notin Bypassed =>
               \/ <<m, 2>> \in Each(back, 2) \/ <<m, 2>> \in Each(inq, 2) \/ <<m, 2>> \in AtReader
               \/ <<m, 2>> \in Range(s2c) \/ (hop.pc \in {"reply", "body"} /\ hop.n = m))'
  <2> SUFFICES ASSUME Alive', NEW m \in 1 .. n, ~rp[m].empty, rp[m].at \notin Bypassed
               PROVE  (\/ <<m, 2>> \in Each(back, 2) \/ <<m, 2>> \in Each(inq, 2) \/ <<m, 2>> \in AtReader
                       \/ <<m, 2>> \in Range(s2c) \/ (hop.pc \in {"reply", "body"} /\ hop.n = m))'
    BY <1>1, Zenon DEF config
  <2>1. CASE m = n
    BY <1>3, <2>1, Zenon
  <2>2. CASE m # n
    <3>1. m \in 1 .. replies /\ Alive
      BY <1>1, <1>2, <1>3, <2>2 DEF Alive
    <3> QED
      BY <1>1, <1>4, <3>1, Zenon DEF RepliesInv
  <2> QED
    BY <2>1, <2>2, Zenon
<1>10. (~broken /\ reader.pc # "gone" =>
           /\ Framed(s2c, reader.k)
           /\ hop.pc # "gone" => EndsAt(s2c, reader.k, IF hop.pc = "body" THEN 1 ELSE 0))'
  BY <1>1, <1>3, Zenon DEF RepliesInv
<1> QED
  BY <1>1, <1>7, <1>8, <1>9, <1>10, Zenon DEF RepliesInv

\* HopReplies: the next part of the frame in the hop's hand goes out.
LEMMA RepliesWrite ==
    ASSUME Shaped, RepliesInv, HopReplies
    PROVE  RepliesInv'
<1>1. /\ hop.pc \in {"reply", "body"} /\ ~broken
      /\ s2c' = Append(s2c, <<hop.n, IF hop.pc = "reply" THEN 1 ELSE 2>>)
      /\ hop' = IF hop.pc = "reply" THEN [hop EXCEPT !.pc = "body"] ELSE [hop EXCEPT !.pc = "select", !.n = 0]
      /\ UNCHANGED <<config, back, inq, reader, writer, relay, replies, broken>>
  BY Zenon DEF HopReplies, pumps
<1>2. PICK n \in Nat, b \in 0 .. 1 : n = hop.n /\ b = IF hop.pc = "body" THEN 1 ELSE 0
  BY DEF Shaped
<1>3. /\ AtHop = {<<n, b + 1>>} /\ s2c' = Append(s2c, <<n, b + 1>>)
      /\ b = 1 => AtHop' = {} /\ hop'.pc = "select"
      /\ b = 0 => AtHop' = {<<n, 2>>} /\ hop'.pc = "body" /\ hop'.n = n
  <2>0. hop \in HopStates
    BY Zenon DEF Shaped
  <2>1. CASE hop.pc = "reply"
    BY <1>1, <1>2, <2>0, <2>1 DEF AtHop
  <2>2. CASE hop.pc = "body"
    BY <1>1, <1>2, <2>0, <2>2 DEF AtHop
  <2> QED
    BY <1>1, <2>1, <2>2, Zenon
<1>4. AtReader' = AtReader
  BY <1>1, Zenon DEF AtReader
<1>5. n \in 1 .. MaxReply /\ n \in 1 .. replies /\ s2c \in Seq(AnswerParts) /\ <<n, b + 1>> \in AnswerParts
  <2>1. <<n, b + 1>> \in OnAnswerLine
    BY <1>3, Zenon DEF OnAnswerLine
  <2>2. n \in 1 .. replies /\ replies \in 0 .. MaxReply /\ MaxReply \in Nat
    BY <2>1, TunnelConstants, Zenon DEF RepliesInv, Shaped
  <2>3. n \in Nat /\ replies \in Nat
    BY <2>2
  <2>4. n \in 1 .. MaxReply
    BY <2>2, <2>3, Within, Zenon
  <2>5. <<n, b + 1>> \in AnswerParts
    BY <1>3, <2>4 DEF AnswerParts
  <2> QED
    BY <2>2, <2>4, <2>5, Zenon DEF Shaped
<1>6. Range(s2c') = Range(s2c) \cup {<<n, b + 1>>}
  <2>1. Range(Append(s2c, <<n, b + 1>>)) = Range(s2c) \cup {<<n, b + 1>>}
    BY <1>5, AppendSets
  <2> QED
    BY <1>3, <2>1, Zenon
<1>7. Line(Each(back, 2), Each(inq, 2), AtReader, Range(s2c), AtHop)
  BY Zenon DEF AnswerLine, RepliesInv
<1>8. InOrder(s2c')
  <2>1. Before(Range(s2c), {<<n, b + 1>>})
    BY <1>3, <1>7, Zenon DEF Line
  <2>2. InOrder(Append(s2c, <<n, b + 1>>))
    BY <1>5, <2>1, AppendOrder, Zenon DEF RepliesInv
  <2> QED
    BY <1>3, <2>2, Zenon
<1>9. AnswerLine'
  <2>1. CASE b = 1
    <3>1. Before({<<n, b + 1>>}, {})
      BY Zenon DEF Before
    <3>2. Line(Each(back, 2), Each(inq, 2), AtReader, Range(s2c) \cup {<<n, b + 1>>}, {})
      BY <1>3, <1>7, <3>1, LineMoves, Zenon
    <3> QED
      BY <1>1, <1>3, <1>4, <1>6, <2>1, <3>2, Zenon DEF AnswerLine
  <2>2. CASE b = 0
    <3>1. AtHop = {<<n, 1>>} /\ Range(s2c') = Range(s2c) \cup {<<n, 1>>} /\ AtHop' = {<<n, 2>>}
      BY <1>3, <1>6, <2>2
    <3>2. \A x \in OnAnswerLine : x[1] \in Nat
      BY DEF RepliesInv
    <3>3. \A x \in Each(back, 2) \cup Each(inq, 2) \cup AtReader \cup Range(s2c) : x[2] \in Nat
      <4>1. \A i \in DOMAIN s2c : s2c[i] \in AnswerParts
        BY <1>5
      <4> QED
        BY <4>1 DEF Each, Range, AnswerParts, AtReader
    <3>4. ASSUME NEW x \in Each(back, 2) \cup Each(inq, 2) \cup AtReader \cup Range(s2c)
          PROVE  Precedes(x, <<n, 1>>) /\ Precedes(x, <<n, 2>>)
      <4>1. Precedes(x, <<n, 1>>)
        BY <1>7, <3>1, Zenon DEF Line, Before
      <4>2. x[1] \in Nat /\ x[2] \in Nat
        BY <3>2, <3>3, Zenon DEF OnAnswerLine
      <4> QED
        BY <4>1, <4>2 DEF Precedes
    <3>5. Precedes(<<n, 1>>, <<n, 2>>)
      BY DEF Precedes
    <3>6. Line(Each(back, 2), Each(inq, 2), AtReader, Range(s2c) \cup {<<n, 1>>}, {<<n, 2>>})
      BY <1>7, <3>4, <3>5, Zenon DEF Line, Before
    <3> QED
      BY <1>1, <1>4, <3>1, <3>6, Zenon DEF AnswerLine
  <2> QED
    BY <2>1, <2>2
<1>10. (\A x \in OnAnswerLine : x[1] \in 1 .. replies)'
  <2>1. \A x \in OnAnswerLine : x[1] \in 1 .. replies
    BY Zenon DEF RepliesInv
  <2>2. OnAnswerLine' \subseteq OnAnswerLine \cup {<<n, 2>>}
    BY <1>1, <1>3, <1>4, <1>6 DEF OnAnswerLine
  <2>3. \A x \in OnAnswerLine' : x[1] \in 1 .. replies
    BY <1>5, <2>1, <2>2
  <2> QED
    BY <1>1, <2>3, Zenon
<1>11. (~broken /\ reader.pc # "gone" =>
           /\ Framed(s2c, reader.k)
           /\ hop.pc # "gone" => EndsAt(s2c, reader.k, IF hop.pc = "body" THEN 1 ELSE 0))'
  <2> SUFFICES ASSUME reader.pc # "gone"
               PROVE  Framed(s2c', reader.k) /\ EndsAt(s2c', reader.k, IF hop'.pc = "body" THEN 1 ELSE 0)
    BY <1>1, Zenon
  <2>1. Framed(s2c, reader.k) /\ EndsAt(s2c, reader.k, b)
    BY <1>1, <1>2, Zenon DEF RepliesInv
  <2>2. reader.k \in 0 .. 1 /\ s2c \in Seq((1 .. MaxReply) \X (1 .. 2))
    BY <1>5, Zenon DEF Shaped, AnswerParts
  <2>3. Framed(Append(s2c, <<n, b + 1>>), reader.k) /\ EndsAt(Append(s2c, <<n, b + 1>>), reader.k, 1 - b)
    BY <1>5, <2>1, <2>2, FramedAppend, Zenon
  <2>4. (IF hop'.pc = "body" THEN 1 ELSE 0) = 1 - b
    BY <1>2, <1>3
  <2> QED
    BY <1>3, <2>3, <2>4, Zenon
<1>12. (Alive => \A m \in 1 .. replies :
           ~rp[m].empty /\ rp[m].at \notin Bypassed =>
               \/ <<m, 2>> \in Each(back, 2) \/ <<m, 2>> \in Each(inq, 2) \/ <<m, 2>> \in AtReader
               \/ <<m, 2>> \in Range(s2c) \/ (hop.pc \in {"reply", "body"} /\ hop.n = m))'
  <2>1. Alive' => Alive
    BY <1>1, Zenon DEF Alive
  <2>2. b = 1 => <<n, 2>> \in Range(s2c')
    BY <1>6
  <2>3. Each(back', 2) = Each(back, 2) /\ Each(inq', 2) = Each(inq, 2) /\ Range(s2c) \subseteq Range(s2c')
    BY <1>1, <1>6, Zenon
  <2> SUFFICES ASSUME Alive, NEW m \in 1 .. replies, ~rp[m].empty, rp[m].at \notin Bypassed
               PROVE  (\/ <<m, 2>> \in Each(back, 2) \/ <<m, 2>> \in Each(inq, 2) \/ <<m, 2>> \in AtReader
                       \/ <<m, 2>> \in Range(s2c) \/ (hop.pc \in {"reply", "body"} /\ hop.n = m))'
    BY <1>1, <2>1, Zenon DEF config
  <2>4. \/ <<m, 2>> \in Each(back, 2) \/ <<m, 2>> \in Each(inq, 2) \/ <<m, 2>> \in AtReader
        \/ <<m, 2>> \in Range(s2c) \/ n = m
    BY <1>2, Zenon DEF RepliesInv
  <2> QED
    BY <1>2, <1>3, <1>4, <2>2, <2>3, <2>4
<1> QED
  BY <1>1, <1>8, <1>9, <1>10, <1>11, <1>12, Zenon DEF RepliesInv

-----------------------------------------------------------------------------
(* Every step of a tunnel.                                                 *)

\* Every step keeps the line of requests.
LEMMA RequestsNext ==
    ASSUME Shaped, RequestsInv, Next
    PROVE  RequestsInv'
<1> USE DEF wire, pumps
<1>0. c2s \in Seq(Parts) /\ relay \in RelayStates
      /\ hop \in HopStates
  BY Zenon DEF Shaped
<1>1. CASE Opens
  <2>1. writer.pc = "off" /\ reader.pc = "off"
    BY <1>1, Zenon DEF Opens, Shaped
  <2>2. AtRelay' = AtRelay /\ (Alive' => Alive)
    BY <1>0, <1>1, <2>1, Zenon DEF Opens, AtRelay, Alive
  <2> QED
    BY <1>1, <2>1, <2>2, RequestsStay, Zenon DEF Opens, Off
<1>2. CASE DialFails
  <2>1. AtRelay' \subseteq AtRelay /\ ~Alive'
    BY <1>0, <1>2, Zenon DEF DialFails, AtRelay, Alive, Gone
  <2> QED
    BY <1>0, <1>2, <2>1, RequestsShrink, Zenon DEF DialFails
<1>3. CASE RelayReads
  BY <1>3, RequestsRead, Zenon
<1>4. CASE RelaySends
  BY <1>4, RequestsSend, Zenon
<1>5. CASE RelayReceives \/ RelayRecvFails \/ RelayEnds \/ RelayDrops
  <2>1. /\ UNCHANGED <<config, sent, c2s, out, writer, sends, broken, hop>>
        /\ relay.pc \in {"select", "drop"} /\ relay'.pc \in {"select", "drop", "gone"}
        /\ Alive' => Alive
    <3>1. CASE RelayReceives
      BY <1>0, <3>1, Zenon DEF RelayReceives, Alive
    <3>2. CASE RelayRecvFails
      BY <1>0, <3>2, Zenon DEF RelayRecvFails, Alive
    <3>3. CASE RelayEnds \/ RelayDrops
      BY <1>0, <3>3, Zenon DEF RelayEnds, RelayDrops, Alive
    <3> QED
      BY <1>5, <3>1, <3>2, <3>3, Zenon
  <2>2. AtRelay' = AtRelay
    BY <2>1, Zenon DEF AtRelay
  <2> QED
    BY <2>1, <2>2, RequestsStay, Zenon
<1>6. CASE WriterTakes
  BY <1>6, RequestsTake, Zenon
<1>7. CASE WriterSends
  BY <1>7, RequestsWrite, Zenon
<1>8. CASE Leaves("w") \/ Leaves("r")
  <2>1. UNCHANGED <<config, relay, sent, out, sends, c2s, broken, hop>> /\ writer' \in {writer, Gone} /\ ~Alive'
    BY <1>8 DEF Leaves, Alive, Gone
  <2>2. AtRelay' \subseteq AtRelay
    BY <2>1, Zenon DEF AtRelay
  <2> QED
    BY <1>0, <2>1, <2>2, RequestsShrink, Zenon
<1>9. CASE ReaderWants \/ ReaderFills \/ ReaderPuts
  <2>1. /\ UNCHANGED <<config, relay, sent, c2s, out, writer, sends, broken, hop>>
        /\ Alive' => Alive
    BY <1>9 DEF ReaderWants, ReaderFills, ReaderPuts, Alive
  <2>2. AtRelay' = AtRelay
    BY <2>1, Zenon DEF AtRelay
  <2> QED
    BY <2>1, <2>2, RequestsStay, Zenon
<1>10. CASE HopBinds
  <2>1. /\ UNCHANGED <<config, sent, c2s, out, writer, sends, broken, reader>>
        /\ relay.pc = "dial" /\ relay'.pc \in {"bound", "refused"}
        /\ hop.pc = "request" /\ (hop'.pc = "gone" \/ (hop'.pc = "select" /\ hop'.k = hop.k))
    BY <1>0, <1>10 DEF HopBinds, Shaped, Gone
  <2>2. AtRelay' = AtRelay /\ (Alive' => Alive)
    BY <1>10, <2>1, Zenon DEF AtRelay, Alive, HopBinds
  <2> QED
    BY <1>10, <2>1, <2>2, RequestsStay, Zenon DEF HopBinds
<1>11. CASE HopFills
  BY <1>11, RequestsFill, Zenon
<1>12. CASE HopReplies \/ FromPeer \/ HopEnds
  <2>1. /\ UNCHANGED <<config, relay, sent, c2s, out, writer, reader, sends, broken>>
        /\ hop'.pc # "gone" => hop.pc # "gone" /\ hop'.k = hop.k
    <3>1. CASE HopReplies
      BY <1>0, <3>1, Zenon DEF HopReplies
    <3>2. CASE FromPeer
      BY <1>0, <3>2, Zenon DEF FromPeer
    <3>3. CASE HopEnds
      BY <3>3, Zenon DEF HopEnds, Gone
    <3> QED
      BY <1>12, <3>1, <3>2, <3>3, Zenon
  <2>2. AtRelay' = AtRelay /\ (Alive' => Alive)
    BY <2>1, Zenon DEF AtRelay, Alive
  <2> QED
    BY <2>1, <2>2, RequestsStay, Zenon
<1>13. CASE HopSocketFails
  <2>1. AtRelay' \subseteq AtRelay /\ ~Alive' /\ hop'.pc = "gone"
    BY <1>13, Zenon DEF HopSocketFails, AtRelay, Alive, Gone
  <2> QED
    BY <1>0, <1>13, <2>1, RequestsShrink, Zenon DEF HopSocketFails
<1>14. CASE Breaks
  <2>1. AtRelay' \subseteq AtRelay /\ ~Alive' /\ writer' \in {writer, Gone}
    BY <1>14, Zenon DEF Breaks, AtRelay, Alive
  <2> QED
    BY <1>0, <1>14, <2>1, RequestsShrink, Zenon DEF Breaks
<1>15. CASE Over
  <2>1. UNCHANGED vars
    BY <1>15, Zenon DEF Over
  <2>2. AtRelay' = AtRelay /\ (Alive' => Alive)
    BY <2>1, Zenon DEF vars, AtRelay, Alive
  <2> QED
    BY <2>1, <2>2, RequestsStay, Zenon DEF vars
<1> QED
  BY <1>1, <1>2, <1>3, <1>4, <1>5, <1>6, <1>7, <1>8, <1>9, <1>10, <1>11, <1>12, <1>13, <1>14, <1>15, Zenon
  DEF Next, Relay, Writer, Reader, Hop, WriterFails, WriterEnds, ReaderEnds, Aborted

\* Every step keeps the line of replies.
LEMMA RepliesNext ==
    ASSUME Shaped, RepliesInv, Next
    PROVE  RepliesInv'
<1> USE DEF wire, pumps
<1>0. /\ relay \in RelayStates
      /\ reader \in ReaderStates
      /\ hop \in HopStates
      /\ (reader.pc # "recv" => reader.k = 0)
  BY Zenon DEF Shaped, RepliesInv
<1>1. CASE Opens
  <2>1. writer.pc = "off" /\ reader.pc = "off"
    BY <1>1, Zenon DEF Opens, Shaped
  <2>2. reader'.pc = "want" /\ reader'.k = 0 /\ reader.k = 0
    BY <1>0, <1>1, <2>1, Zenon DEF Opens, Off
  <2>3. AtReader' = AtReader /\ (Alive' => Alive)
    BY <1>0, <1>1, <2>1, <2>2, Zenon DEF Opens, AtReader, Alive
  <2> QED
    BY <1>1, <2>1, <2>2, <2>3, RepliesStay, Zenon DEF Opens
<1>2. CASE DialFails
  <2>1. ~Alive'
    BY <1>2, Zenon DEF DialFails, Alive, Gone
  <2> QED
    BY <1>2, <2>1, RepliesShrink, Zenon DEF DialFails
<1>3. CASE RelayReads \/ RelaySends \/ RelayRecvFails \/ RelayEnds \/ RelayDrops \/ WriterTakes \/ WriterSends
  <2>1. UNCHANGED <<config, back, inq, s2c, replies, broken, reader, hop>> /\ (Alive' => Alive)
    <3>1. CASE RelayReads
      BY <1>0, <3>1, Zenon DEF RelayReads, Alive
    <3>2. CASE RelaySends
      BY <1>0, <3>2, Zenon DEF RelaySends, Alive
    <3>3. CASE RelayRecvFails
      BY <1>0, <3>3, Zenon DEF RelayRecvFails, Alive
    <3>4. CASE RelayEnds \/ RelayDrops
      BY <1>0, <3>4, Zenon DEF RelayEnds, RelayDrops, Alive
    <3>5. CASE WriterTakes \/ WriterSends
      BY <1>0, <3>5 DEF WriterTakes, WriterSends, Alive
    <3> QED
      BY <1>3, <3>1, <3>2, <3>3, <3>4, <3>5, Zenon
  <2>2. AtReader' = AtReader
    BY <2>1, Zenon DEF AtReader
  <2> QED
    BY <1>0, <2>1, <2>2, RepliesStay, Zenon
<1>4. CASE RelayReceives
  BY <1>4, RepliesReceive, Zenon
<1>5. CASE Leaves("w") \/ Leaves("r")
  <2>1. UNCHANGED <<config, back, inq, s2c, replies, broken, hop>> /\ reader' \in {reader, Gone} /\ ~Alive'
    BY <1>5 DEF Leaves, Alive, Gone
  <2> QED
    BY <2>1, RepliesShrink, Zenon
<1>6. CASE ReaderWants
  <2>1. /\ UNCHANGED <<config, back, inq, s2c, replies, broken, hop, relay, writer>> /\ reader.pc = "want"
        /\ reader'.pc = "recv" /\ reader'.k = reader.k
    BY <1>0, <1>6, Zenon DEF ReaderWants
  <2>2. AtReader' = AtReader /\ (Alive' => Alive)
    BY <2>1, Zenon DEF AtReader, Alive
  <2> QED
    BY <1>0, <2>1, <2>2, RepliesStay, Zenon
<1>7. CASE ReaderFills
  BY <1>7, RepliesFill, Zenon
<1>8. CASE ReaderPuts
  BY <1>8, RepliesPut, Zenon
<1>9. CASE HopBinds
  <2>1. /\ UNCHANGED <<config, back, inq, s2c, replies, broken, reader, writer>>
        /\ relay.pc = "dial" /\ hop.pc = "request" /\ hop'.pc \in {"gone", "select"}
    BY <1>0, <1>9 DEF HopBinds, Shaped, Gone
  <2>2. AtReader' = AtReader /\ (Alive' => Alive)
    BY <2>1, Zenon DEF AtReader, Alive
  <2> QED
    BY <1>0, <2>1, <2>2, RepliesStay, Zenon
<1>10. CASE HopFills
  <2>1. /\ UNCHANGED <<config, back, inq, s2c, replies, broken, reader, writer, relay>>
        /\ hop.pc = "select" /\ hop'.pc = "select"
    BY <1>0, <1>10, Zenon DEF HopFills
  <2>2. AtReader' = AtReader /\ (Alive' => Alive)
    BY <2>1, Zenon DEF AtReader, Alive
  <2> QED
    BY <1>0, <2>1, <2>2, RepliesStay, Zenon
<1>11. CASE HopReplies
  BY <1>11, RepliesWrite, Zenon
<1>12. CASE FromPeer
  BY <1>12, RepliesArrive, Zenon
<1>13. CASE HopEnds \/ HopSocketFails
  <2>1. UNCHANGED <<config, back, inq, s2c, replies, broken, reader>> /\ hop' = Gone /\ ~Alive'
    BY <1>13 DEF HopEnds, HopSocketFails, Alive, Gone
  <2> QED
    BY <2>1, RepliesShrink, Zenon
<1>14. CASE Breaks
  <2>1. ~Alive'
    BY <1>14, Zenon DEF Breaks, Alive
  <2> QED
    BY <1>14, <2>1, RepliesShrink, Zenon DEF Breaks
<1>15. CASE Over
  <2>1. UNCHANGED vars
    BY <1>15, Zenon DEF Over
  <2>2. AtReader' = AtReader /\ (Alive' => Alive)
    BY <2>1, Zenon DEF vars, AtReader, Alive
  <2> QED
    BY <1>0, <2>1, <2>2, RepliesStay, Zenon DEF vars
<1> QED
  BY <1>1, <1>2, <1>3, <1>4, <1>5, <1>6, <1>7, <1>8, <1>9, <1>10, <1>11, <1>12, <1>13, <1>14, <1>15, Zenon
  DEF Next, Relay, Writer, Reader, Hop, WriterFails, WriterEnds, ReaderEnds, Aborted

HIDE DEF SendNos, ReplyNos, RelayStates, WriterStates, ReaderStates, HopStates

\* What a task has in its hand is a datagram that there is.
LEMMA HandsTyped ==
    ASSUME Shaped, RequestsInv, RepliesInv
    PROVE  /\ relay.pc = "sending" => relay.n \in 1 .. MaxSend
           /\ writer.pc = "send" => writer.n \in 1 .. MaxSend
           /\ reader.pc = "put" => reader.n \in 1 .. MaxReply
           /\ hop.pc \in {"reply", "body"} => hop.n \in 1 .. MaxReply
<1>1. \A i \in 1 .. sends : i \in 1 .. MaxSend
  BY TunnelConstants DEF Shaped
<1>2. \A i \in 1 .. replies : i \in 1 .. MaxReply
  BY TunnelConstants DEF Shaped
<1>3. relay.pc = "sending" => relay.n \in 1 .. sends
  <2>1. relay.pc = "sending" => <<relay.n, 1>> \in OnRequestLine
    BY Zenon DEF OnRequestLine, AtRelay
  <2> QED
    BY <2>1, Zenon DEF RequestsInv
<1>4. writer.pc = "send" => writer.n \in 1 .. sends
  <2>1. writer.pc = "send" => <<writer.n, writer.k + 1>> \in OnRequestLine
    BY Zenon DEF OnRequestLine, AtWriter
  <2> QED
    BY <2>1, Zenon DEF RequestsInv
<1>5. reader.pc = "put" => reader.n \in 1 .. replies
  <2>1. reader.pc = "put" => <<reader.n, 2>> \in OnAnswerLine
    BY Zenon DEF OnAnswerLine, AtReader
  <2> QED
    BY <2>1, Zenon DEF RepliesInv
<1>6. hop.pc \in {"reply", "body"} => hop.n \in 1 .. replies
  <2>1. hop.pc \in {"reply", "body"} => <<hop.n, 1>> \in OnAnswerLine \/ <<hop.n, 2>> \in OnAnswerLine
    BY Zenon DEF OnAnswerLine, AtHop
  <2> QED
    BY <2>1, Zenon DEF RepliesInv
<1> QED
  BY <1>1, <1>2, <1>3, <1>4, <1>5, <1>6, Zenon

\* The steps of the relay task keep the shape of the state.
LEMMA ShapedRelay ==
    ASSUME Shaped, RequestsInv, RepliesInv, Opens \/ DialFails \/ Relay
    PROVE  Shaped'
<1> USE DEF wire, pumps, config
<1>0. MaxSend \in Nat /\ MaxReply \in Nat /\ MaxErrors \in Nat
  BY TunnelConstants, Zenon
<1>r. relay \in RelayStates
  BY Zenon DEF Shaped
<1>1. CASE Opens
  <2>1. relay' \in RelayStates /\ relay'.pc = "select" /\ relay.pc = "bound"
    BY <1>r, <1>1, Zenon DEF Opens, RelayStates
  <2>2. writer' \in WriterStates /\ reader' \in ReaderStates
    BY <1>0, <1>1 DEF Opens, Off, WriterStates, ReaderStates
  <2>3. UNCHANGED <<kind, dg, rp, abort, sends, replies, out, inq, c2s, s2c, closed, hop, sent, back>>
    BY <1>1, Zenon DEF Opens
  <2> QED
    BY <2>1, <2>2, <2>3, Zenon DEF Shaped
<1>2. CASE DialFails
  <2>1. relay' \in RelayStates /\ relay'.pc = "gone"
    BY <1>r, <1>2, Zenon DEF DialFails, RelayStates
  <2>2. writer' \in WriterStates /\ reader' \in ReaderStates
    BY <1>0, <1>2 DEF DialFails, Gone, WriterStates, ReaderStates
  <2>3. UNCHANGED <<kind, dg, rp, abort, sends, replies, out, inq, c2s, s2c, hop, sent, back>> /\ closed'
    BY <1>2, Zenon DEF DialFails
  <2> QED
    BY <2>1, <2>2, <2>3, Zenon DEF Shaped
<1>3. CASE RelayReads
  <2>1. sends' \in 0 .. MaxSend /\ sends' \in Nat
    <3>1. sends \in 0 .. MaxSend /\ sends < MaxSend /\ sends' = sends + 1
      BY <1>3, Zenon DEF RelayReads, Shaped
    <3> QED
      BY <1>0, <3>1
  <2>2. relay' \in RelayStates /\ relay'.pc \in {"select", "sending"} /\ relay.pc = "select"
    <3>1. CASE relay' = relay
      BY <1>r, <1>3, <3>1, Zenon DEF RelayReads
    <3>2. CASE relay' = [relay EXCEPT !.pc = "sending", !.n = sends + 1]
      <4>1. sends' = sends + 1 /\ relay.pc = "select"
        BY <1>3, Zenon DEF RelayReads
      <4> QED
        BY <1>r, <2>1, <3>2, <4>1, Zenon DEF RelayStates
    <3> QED
      BY <1>3, <3>1, <3>2, Zenon DEF RelayReads
  <2>3. UNCHANGED <<kind, dg, rp, abort, replies, out, inq, writer, reader, c2s, s2c, closed, hop, sent, back>>
    BY <1>3, Zenon DEF RelayReads
  <2> QED
    BY <2>1, <2>2, <2>3, Zenon DEF Shaped
<1>4. CASE RelaySends
  <2>1. out' \in Seq(SendNos) /\ Len(out') <= ChanCap
    <3>1. CASE out' = out
      BY <3>1, Zenon DEF Shaped
    <3>2. CASE Len(out) < ChanCap /\ out' = Append(out, relay.n)
      <4>1. relay.n \in SendNos /\ out \in Seq(SendNos) /\ ChanCap \in Nat
        BY <1>4, HandsTyped, TunnelConstants, Zenon DEF RelaySends, Shaped, SendNos
      <4>2. Len(Append(out, relay.n)) = Len(out) + 1 /\ Append(out, relay.n) \in Seq(SendNos) /\ Len(out) \in Nat
        BY <4>1
      <4> QED
        BY <3>2, <4>1, <4>2
    <3> QED
      BY <1>4, <3>1, <3>2, Zenon DEF RelaySends
  <2>2. relay' \in RelayStates /\ relay'.pc \in {"select", "drop"} /\ relay.pc = "sending"
    <3>1. relay.pc = "sending" /\ \E p \in {"select", "drop"} : relay' = [relay EXCEPT !.pc = p, !.n = 0]
      BY <1>4, Zenon DEF RelaySends
    <3>2. PICK p \in {"select", "drop"} : relay' = [pc |-> p, n |-> 0, errs |-> relay.errs]
      BY <1>r, <3>1, Zenon DEF RelayStates
    <3> QED
      BY <1>0, <1>r, <3>1, <3>2 DEF RelayStates
  <2>3. UNCHANGED <<kind, dg, rp, abort, sends, replies, inq, writer, reader, c2s, s2c, closed, hop, sent, back>>
    BY <1>4, Zenon DEF RelaySends
  <2> QED
    BY <2>1, <2>2, <2>3, Zenon DEF Shaped
<1>5. CASE RelayReceives
  <2>0. inq \in Seq(ReplyNos) /\ back \in Seq(ReplyNos) /\ inq # <<>> /\ Len(inq) <= ChanCap /\ ChanCap \in Nat
    BY <1>5, TunnelConstants, Zenon DEF RelayReceives, Shaped
  <2>1. /\ \A q \in Seq(ReplyNos), n \in Nat : q # <<>> /\ Len(q) <= n => Tail(q) \in Seq(ReplyNos) /\ Len(Tail(q)) <= n
        /\ \A q, b \in Seq(ReplyNos) : q # <<>> => Append(b, Head(q)) \in Seq(ReplyNos)
    OBVIOUS
  <2>2. inq' \in Seq(ReplyNos) /\ back' \in Seq(ReplyNos) /\ Len(inq') <= ChanCap
    <3>1. inq' = Tail(inq) /\ (back' = back \/ back' = Append(back, Head(inq)))
      BY <1>5, Zenon DEF RelayReceives
    <3> QED
      BY <2>0, <2>1, <3>1, Zenon
  <2>3. relay' \in RelayStates /\ relay'.pc \in {"select", "drop"} /\ relay.pc = "select"
    <3>1. CASE relay' = [relay EXCEPT !.errs = 0]
      BY <1>0, <1>r, <1>5, <3>1 DEF RelayReceives, RelayStates
    <3>2. CASE relay' = [relay EXCEPT !.pc = "drop", !.errs = 0]
      <4>1. relay' = [pc |-> "drop", n |-> relay.n, errs |-> 0]
        BY <1>r, <3>2, Zenon DEF RelayStates
      <4> QED
        BY <1>0, <1>r, <1>5, <4>1 DEF RelayReceives, RelayStates
    <3> QED
      BY <1>5, <3>1, <3>2, Zenon DEF RelayReceives
  <2>4. UNCHANGED <<kind, dg, rp, abort, sends, replies, out, writer, reader, c2s, s2c, closed, hop, sent>>
    BY <1>5, Zenon DEF RelayReceives
  <2> QED
    BY <2>2, <2>3, <2>4, Zenon DEF Shaped
<1>6. CASE RelayRecvFails \/ RelayEnds \/ RelayDrops
  <2>1. relay' \in RelayStates /\ relay'.pc \in {"select", "drop", "gone"} /\ relay.pc \in {"select", "drop"}
    <3>1. CASE RelayRecvFails
      <4>1. relay.pc = "select" /\ (\/ relay.errs < MaxErrors /\ relay' = [relay EXCEPT !.errs = @ + 1]
                                    \/ relay' = [relay EXCEPT !.pc = "drop"])
        BY <3>1, Zenon DEF RelayRecvFails
      <4> QED
        BY <1>0, <1>r, <4>1 DEF RelayStates
    <3>2. CASE RelayEnds
      BY <1>0, <1>r, <3>2, Zenon DEF RelayEnds, RelayStates
    <3>3. CASE RelayDrops
      <4>1. relay' = [pc |-> "gone", n |-> 0, errs |-> relay.errs] /\ relay.pc = "drop"
        BY <1>r, <3>3, Zenon DEF RelayDrops, RelayStates
      <4> QED
        BY <1>0, <1>r, <4>1 DEF RelayStates
    <3> QED
      BY <1>6, <3>1, <3>2, <3>3, Zenon
  <2>2. /\ UNCHANGED <<kind, dg, rp, sends, replies, out, inq, writer, reader, c2s, s2c, closed, hop, sent, back>>
        /\ abort' = abort \/ relay'.pc = "gone"
    <3>1. RelayDrops => relay'.pc = "gone"
      BY <1>r, Zenon DEF RelayDrops, RelayStates
    <3> QED
      BY <1>6, <3>1, Zenon DEF RelayRecvFails, RelayEnds, RelayDrops
  <2> QED
    BY <2>1, <2>2 DEF Shaped
<1> QED
  BY <1>1, <1>2, <1>3, <1>4, <1>5, <1>6, Zenon DEF Relay

\* The steps of the two pumps keep it.
LEMMA ShapedPumps ==
    ASSUME Shaped, RequestsInv, RepliesInv, Writer \/ Reader \/ Aborted
    PROVE  Shaped'
<1> USE DEF wire, pumps, config
<1>0. MaxSend \in Nat /\ MaxReply \in Nat /\ WireCap \in Nat /\ ChanCap \in Nat
  BY TunnelConstants, Zenon
<1>1. CASE WriterTakes
  <2>1. out \in Seq(SendNos) /\ out # <<>> /\ Len(out) <= ChanCap
    BY <1>1, Zenon DEF WriterTakes, Shaped
  <2>2. Tail(out) \in Seq(SendNos) /\ Len(Tail(out)) <= ChanCap /\ Head(out) \in SendNos
    BY <1>0, <2>1, Taken, Zenon
  <2>3. writer' \in WriterStates
    <3>1. Head(out) \in 0 .. MaxSend
      BY <1>0, <2>2 DEF SendNos
    <3> QED
      BY <1>1, <3>1 DEF WriterTakes, WriterStates
  <2>4. /\ UNCHANGED <<kind, dg, rp, abort, relay, sends, replies, inq, reader, c2s, s2c, closed, hop, sent, back>>
        /\ out' = Tail(out) /\ writer.pc = "recv"
    BY <1>1, Zenon DEF WriterTakes
  <2> QED
    BY <2>2, <2>3, <2>4, Zenon DEF Shaped
<1>2. CASE WriterSends
  <2>1. c2s \in Seq(Parts) /\ Len(c2s) < WireCap /\ <<writer.n, writer.k + 1>> \in Parts
    BY <1>2, HandsTyped DEF WriterSends, Shaped, Parts, WriterStates
  <2>2. Append(c2s, <<writer.n, writer.k + 1>>) \in Seq(Parts) /\ Len(Append(c2s, <<writer.n, writer.k + 1>>)) <= WireCap
    BY <1>0, <2>1, Put, Zenon
  <2>3. writer' \in WriterStates
    <3>1. CASE writer.k = 1
      BY <1>0, <1>2, <3>1 DEF WriterSends, Off, WriterStates
    <3>2. CASE writer.k # 1
      <4>1. writer' = [writer EXCEPT !.k = 1] /\ writer \in WriterStates
        BY <1>2, <3>2, Zenon DEF WriterSends, Shaped
      <4> QED
        BY <4>1 DEF WriterStates
    <3> QED
      BY <3>1, <3>2, Zenon
  <2>4. /\ UNCHANGED <<kind, dg, rp, abort, relay, sends, replies, out, inq, reader, s2c, closed, hop, sent, back>>
        /\ c2s' = Append(c2s, <<writer.n, writer.k + 1>>) /\ writer.pc = "send"
    BY <1>2, Zenon DEF WriterSends
  <2> QED
    BY <2>2, <2>3, <2>4, Zenon DEF Shaped
<1>3. CASE (Leaves("w") /\ writer.pc # "off") \/ (Leaves("r") /\ reader.pc # "off") \/ Aborted
  <2>1. Leaves("w") \/ Leaves("r")
    BY <1>3, Zenon DEF Aborted
  <2>2. /\ writer' \in WriterStates
        /\ reader' \in ReaderStates
    <3>1. Gone \in WriterStates /\ Gone \in ReaderStates
      BY <1>0 DEF Gone, WriterStates, ReaderStates
    <3> QED
      BY <2>1, <3>1, Zenon DEF Leaves, Shaped
  <2>3. UNCHANGED <<kind, dg, rp, abort, relay, sends, replies, out, inq, c2s, s2c, hop, sent, back>> /\ (closed => closed')
    BY <2>1, Zenon DEF Leaves
  <2>4. relay.pc \notin {"dial", "bound", "refused"}
    BY <1>3, Zenon DEF Aborted, Shaped
  <2> QED
    BY <2>2, <2>3, <2>4, Zenon DEF Shaped
<1>4. CASE ReaderWants
  <2>1. reader' \in ReaderStates
    BY <1>4, Zenon DEF ReaderWants, Shaped, ReaderStates
  <2>2. /\ UNCHANGED <<kind, dg, rp, abort, relay, sends, replies, out, inq, writer, c2s, s2c, closed, hop, sent, back>>
        /\ reader.pc = "want"
    BY <1>4, Zenon DEF ReaderWants
  <2> QED
    BY <2>1, <2>2, Zenon DEF Shaped
<1>5. CASE ReaderFills
  <2>1. s2c \in Seq(AnswerParts) /\ s2c # <<>> /\ Len(s2c) <= WireCap
    BY <1>5, Zenon DEF ReaderFills, Shaped
  <2>2. Tail(s2c) \in Seq(AnswerParts) /\ Len(Tail(s2c)) <= WireCap /\ Head(s2c) \in AnswerParts
    BY <1>0, <2>1, Taken, Zenon
  <2>3. reader' \in ReaderStates
    <3>1. Head(s2c)[1] \in 0 .. MaxReply
      BY <1>0, <2>2 DEF AnswerParts
    <3>2. \/ reader' = [reader EXCEPT !.k = 1] \/ reader' = [reader EXCEPT !.k = 0]
          \/ reader' = [pc |-> "put", n |-> Head(s2c)[1], k |-> 0]
      BY <1>5, Zenon DEF ReaderFills
    <3>3. reader \in ReaderStates
      BY Zenon DEF Shaped
    <3> QED
      BY <3>1, <3>2, <3>3 DEF ReaderStates
  <2>4. /\ UNCHANGED <<kind, dg, rp, abort, relay, sends, replies, out, inq, writer, c2s, closed, hop, sent, back>>
        /\ s2c' = Tail(s2c) /\ reader.pc = "recv"
    BY <1>5, Zenon DEF ReaderFills
  <2> QED
    BY <2>2, <2>3, <2>4, Zenon DEF Shaped
<1>6. CASE ReaderPuts
  <2>1. reader.n \in ReplyNos /\ inq \in Seq(ReplyNos) /\ Len(inq) < ChanCap
    BY <1>6, HandsTyped, Zenon DEF ReaderPuts, Shaped, ReplyNos
  <2>2. Append(inq, reader.n) \in Seq(ReplyNos) /\ Len(Append(inq, reader.n)) <= ChanCap
    BY <1>0, <2>1, Put, Zenon
  <2>3. reader' \in ReaderStates
    BY <1>0, <1>6 DEF ReaderPuts, Off, ReaderStates
  <2>4. /\ UNCHANGED <<kind, dg, rp, abort, relay, sends, replies, out, writer, c2s, s2c, closed, hop, sent, back>>
        /\ inq' = Append(inq, reader.n) /\ reader.pc = "put"
    BY <1>6, Zenon DEF ReaderPuts
  <2> QED
    BY <2>2, <2>3, <2>4, Zenon DEF Shaped
<1> QED
  BY <1>1, <1>2, <1>3, <1>4, <1>5, <1>6, Zenon DEF Writer, Reader, WriterFails, WriterEnds, ReaderEnds

\* The steps of the hop and of the network keep it.
LEMMA ShapedHop ==
    ASSUME Shaped, RequestsInv, RepliesInv, Hop \/ FromPeer \/ HopSocketFails \/ Breaks \/ Over
    PROVE  Shaped'
<1> USE DEF wire, pumps, config
<1>0. MaxSend \in Nat /\ MaxReply \in Nat /\ WireCap \in Nat /\ ChanCap \in Nat
  BY TunnelConstants, Zenon
<1>h. hop \in HopStates
  BY Zenon DEF Shaped
<1>1. CASE HopBinds
  <2>1. hop' \in HopStates /\ hop'.pc # "request"
    <3>1. CASE hop' = [hop EXCEPT !.pc = "select"]
      BY <1>h, <3>1, Zenon DEF HopStates
    <3>2. CASE hop' = Gone
      BY <1>0, <3>2 DEF Gone, HopStates
    <3> QED
      BY <1>1, <3>1, <3>2, Zenon DEF HopBinds
  <2>2. relay.pc = "dial"
    BY <1>1, Zenon DEF HopBinds, Shaped
  <2>3. relay' \in RelayStates
    BY <1>1, Zenon DEF HopBinds, Shaped, RelayStates
  <2>4. UNCHANGED <<kind, dg, rp, abort, sends, replies, out, inq, writer, reader, c2s, s2c, closed, sent, back>>
    BY <1>1, Zenon DEF HopBinds
  <2> QED
    BY <2>1, <2>2, <2>3, <2>4, Zenon DEF Shaped
<1>2. CASE HopFills
  <2>1. c2s \in Seq(Parts) /\ c2s # <<>> /\ Len(c2s) <= WireCap /\ sent \in Seq(SendNos)
    BY <1>2, Zenon DEF HopFills, Shaped
  <2>2. Tail(c2s) \in Seq(Parts) /\ Len(Tail(c2s)) <= WireCap /\ Head(c2s) \in Parts
    BY <1>0, <2>1, Taken, Zenon
  <2>3. sent' \in Seq(SendNos)
    <3>1. Head(c2s)[1] \in SendNos
      BY <2>2, Zenon DEF Parts, SendNos
    <3>2. Append(sent, Head(c2s)[1]) \in Seq(SendNos)
      BY <2>1, <3>1, AppendElements, Zenon
    <3>3. sent' = sent \/ sent' = Append(sent, Head(c2s)[1])
      BY <1>2, Zenon DEF HopFills
    <3> QED
      BY <2>1, <3>2, <3>3, Zenon
  <2>4. hop' \in HopStates /\ hop'.pc = "select"
    <3>1. hop.pc = "select" /\ (hop' = [hop EXCEPT !.k = 1] \/ hop' = [hop EXCEPT !.k = 0])
      BY <1>2, Zenon DEF HopFills
    <3> QED
      BY <1>h, <3>1 DEF HopStates
  <2>5. UNCHANGED <<kind, dg, rp, abort, relay, sends, replies, out, inq, writer, reader, s2c, closed, back>> /\ c2s' = Tail(c2s)
    BY <1>2, Zenon DEF HopFills
  <2> QED
    BY <2>2, <2>3, <2>4, <2>5, Zenon DEF Shaped
<1>3. CASE HopReplies
  <2> DEFINE x == <<hop.n, IF hop.pc = "reply" THEN 1 ELSE 2>>
  <2>1. s2c \in Seq(AnswerParts) /\ Len(s2c) < WireCap /\ x \in AnswerParts
    BY <1>3, HandsTyped DEF HopReplies, Shaped, AnswerParts
  <2>2. Append(s2c, x) \in Seq(AnswerParts) /\ Len(Append(s2c, x)) <= WireCap
    BY <1>0, <2>1, Put, Zenon
  <2>3. hop' \in HopStates /\ hop'.pc \in {"body", "select"}
    <3>1. CASE hop' = [hop EXCEPT !.pc = "body"]
      BY <1>h, <3>1, Zenon DEF HopStates
    <3>2. CASE hop' = [hop EXCEPT !.pc = "select", !.n = 0]
      <4>1. hop' = [pc |-> "select", n |-> 0, k |-> hop.k]
        BY <1>h, <3>2, Zenon DEF HopStates
      <4> QED
        BY <1>0, <1>h, <4>1 DEF HopStates
    <3> QED
      BY <1>3, <3>1, <3>2, Zenon DEF HopReplies
  <2>4. UNCHANGED <<kind, dg, rp, abort, relay, sends, replies, out, inq, writer, reader, c2s, closed, sent, back>> /\ s2c' = Append(s2c, x)
    BY <1>3, Zenon DEF HopReplies
  <2> QED
    BY <2>2, <2>3, <2>4, Zenon DEF Shaped
<1>4. CASE FromPeer
  <2>1. replies' \in 0 .. MaxReply /\ replies' = replies + 1
    <3>1. replies \in 0 .. MaxReply /\ replies < MaxReply /\ replies' = replies + 1
      BY <1>4, Zenon DEF FromPeer, Shaped
    <3> QED
      BY <1>0, <3>1
  <2>2. hop' \in HopStates /\ hop'.pc \in {"reply", "select"}
    <3>1. CASE hop' = hop
      BY <1>h, <1>4, <3>1, Zenon DEF FromPeer
    <3>2. CASE hop' = [hop EXCEPT !.pc = "reply", !.n = replies + 1]
      BY <1>h, <2>1, <3>2, Zenon DEF HopStates
    <3> QED
      BY <1>4, <3>1, <3>2, Zenon DEF FromPeer
  <2>3. UNCHANGED <<kind, dg, rp, abort, relay, sends, out, inq, writer, reader, c2s, s2c, closed, sent, back>>
    BY <1>4, Zenon DEF FromPeer
  <2> QED
    BY <2>1, <2>2, <2>3, Zenon DEF Shaped
<1>5. CASE HopEnds \/ HopSocketFails
  <2>1. hop' \in HopStates /\ hop'.pc = "gone"
    <3>1. hop' = Gone
      BY <1>5, Zenon DEF HopEnds, HopSocketFails
    <3> QED
      BY <1>0, <3>1 DEF Gone, HopStates
  <2>2. c2s' \in Seq(Parts) /\ Len(c2s') <= WireCap
    <3>1. CASE c2s' = c2s
      BY <3>1, Zenon DEF Shaped
    <3>2. CASE c2s # <<>> /\ c2s' = Tail(c2s)
      <4>1. c2s \in Seq(Parts) /\ Len(c2s) <= WireCap
        BY Zenon DEF Shaped
      <4>2. Tail(c2s) \in Seq(Parts) /\ Len(Tail(c2s)) = Len(c2s) - 1 /\ Len(c2s) \in Nat
        BY <3>2, <4>1
      <4> QED
        BY <1>0, <3>2, <4>1, <4>2
    <3> QED
      BY <1>5, <3>1, <3>2, Zenon DEF HopEnds, HopSocketFails
  <2>3. UNCHANGED <<kind, dg, rp, abort, relay, sends, replies, out, inq, writer, reader, s2c, closed, sent, back>>
    BY <1>5, Zenon DEF HopEnds, HopSocketFails
  <2> QED
    BY <2>1, <2>2, <2>3, Zenon DEF Shaped
<1>6. CASE Breaks
  <2>1. UNCHANGED <<kind, dg, rp, abort, relay, sends, replies, out, inq, writer, reader, hop, closed, sent, back>> /\ c2s' = <<>> /\ s2c' = <<>>
    BY <1>6, Zenon DEF Breaks
  <2>2. <<>> \in Seq(Parts) /\ <<>> \in Seq(AnswerParts) /\ Len(<<>>) <= WireCap
    BY <1>0
  <2> QED
    BY <2>1, <2>2, Zenon DEF Shaped
<1>7. CASE Over
  BY <1>7, Zenon DEF Over, vars, Shaped
<1> QED
  BY <1>1, <1>2, <1>3, <1>4, <1>5, <1>6, <1>7, Zenon DEF Hop

-----------------------------------------------------------------------------
(* The mutex.                                                              *)

\* What is taken out of a queue leaves the rest as it was.
LEMMA TakenOutElements ==
    ASSUME NEW T, NEW q \in Seq(T), NEW i \in DOMAIN q
    PROVE  /\ TakenOut(q, i) \in Seq(T)
           /\ \A j \in DOMAIN TakenOut(q, i) :
                  TakenOut(q, i)[j] = q[IF j < i THEN j ELSE j + 1] /\ (IF j < i THEN j ELSE j + 1) \in DOMAIN q \ {i}
<1> DEFINE a == SubSeq(q, 1, i - 1)
           b == SubSeq(q, i + 1, Len(q))
<1>1. i \in 1 .. Len(q) /\ Len(q) \in Nat /\ DOMAIN q = 1 .. Len(q)
  OBVIOUS
<1>2. a \in Seq(T) /\ Len(a) = i - 1 /\ \A j \in 1 .. i - 1 : a[j] = q[j]
  BY <1>1
<1>3. b \in Seq(T) /\ Len(b) = Len(q) - i /\ \A j \in 1 .. Len(q) - i : b[j] = q[j + i]
  BY <1>1
<1> HIDE DEF a, b
<1>4. a \o b \in Seq(T) /\ Len(a \o b) = Len(q) - 1 /\ DOMAIN (a \o b) = 1 .. Len(q) - 1
  <2>1. a \o b \in Seq(T) /\ Len(a \o b) = Len(a) + Len(b)
    <3>1. \A x, y \in Seq(T) : x \o y \in Seq(T) /\ Len(x \o y) = Len(x) + Len(y)
      OBVIOUS
    <3> QED
      BY <1>2, <1>3, <3>1, Zenon
  <2>2. DOMAIN (a \o b) = 1 .. Len(a \o b)
    BY <2>1, Positions, Zenon
  <2>3. Len(a \o b) = Len(q) - 1
    <3>1. \A n, k \in Int : (k - 1) + (n - k) = n - 1
      OBVIOUS
    <3>2. Len(q) \in Int /\ i \in Int
      BY <1>1
    <3>3. (i - 1) + (Len(q) - i) = Len(q) - 1
      BY <3>1, <3>2, Zenon
    <3> QED
      BY <1>2, <1>3, <2>1, <3>3, Zenon
  <2> QED
    BY <2>1, <2>2, <2>3, Zenon
<1>5. ASSUME NEW j \in 1 .. Len(q) - 1
      PROVE  (a \o b)[j] = q[IF j < i THEN j ELSE j + 1] /\ (IF j < i THEN j ELSE j + 1) \in DOMAIN q \ {i}
  <2>0. \A x, y \in Seq(T) : \A k \in 1 .. Len(x) + Len(y) :
          (x \o y)[k] = IF k <= Len(x) THEN x[k] ELSE y[k - Len(x)]
    OBVIOUS
  <2>a. j \in 1 .. Len(a) + Len(b)
    BY <1>1, <1>2, <1>3
  <2>b. (a \o b)[j] = IF j <= i - 1 THEN a[j] ELSE b[j - (i - 1)]
    BY <1>2, <1>3, <2>0, <2>a, Zenon
  <2>1. CASE j < i
    <3>1. j <= i - 1 /\ j \in 1 .. i - 1 /\ j \in DOMAIN q \ {i}
      BY <1>1, <2>1
    <3> QED
      BY <1>2, <2>1, <2>b, <3>1, Zenon
  <2>2. CASE ~(j < i)
    <3>0. ~(j <= i - 1) /\ j - (i - 1) \in 1 .. Len(q) - i
      BY <1>1, <2>2
    <3>1. (a \o b)[j] = b[j - (i - 1)] /\ j - (i - 1) \in 1 .. Len(q) - i
      BY <2>b, <3>0, Zenon
    <3>2. b[j - (i - 1)] = q[j - (i - 1) + i]
      BY <1>3, <3>1, Zenon
    <3>3. j - (i - 1) + i = j + 1 /\ j + 1 \in DOMAIN q \ {i}
      BY <1>1, <2>2
    <3> QED
      BY <2>2, <3>1, <3>2, <3>3, Zenon
  <2> QED
    BY <2>1, <2>2, Zenon
<1>6. TakenOut(q, i) = a \o b
  BY Zenon DEF TakenOut, a, b
<1> QED
  BY <1>4, <1>5, <1>6, Zenon

\* A pump asks for the lock while it is not in the queue.
LEMMA LockAsked ==
    ASSUME Locked, NEW p \in Pumps, \A i \in DOMAIN lockq : lockq[i] # p
    PROVE  /\ Append(lockq, p) \in Seq(Pumps) /\ IsInjective(Append(lockq, p))
           /\ \A i \in DOMAIN Append(lockq, p) :
                  Append(lockq, p)[i] = p \/ (i \in DOMAIN lockq /\ Append(lockq, p)[i] = lockq[i])
<1> DEFINE a == Append(lockq, p)
<1>1. lockq \in Seq(Pumps) /\ IsInjective(lockq)
  BY Zenon DEF Locked
<1>2. /\ a \in Seq(Pumps) /\ DOMAIN a = 1 .. Len(lockq) + 1 /\ DOMAIN lockq = 1 .. Len(lockq)
      /\ \A i \in DOMAIN a : (i \in DOMAIN lockq /\ a[i] = lockq[i]) \/ (i = Len(lockq) + 1 /\ a[i] = p)
  BY <1>1, AppendElements, Zenon
<1> HIDE DEF a
<1>3. IsInjective(a)
  BY <1>1, <1>2, Zenon DEF IsInjective
<1> QED
  BY <1>2, <1>3, Zenon DEF a

\* The holder hands it on.
LEMMA LockPassed ==
    ASSUME Locked, NEW p, Holds(p)
    PROVE  /\ Tail(lockq) \in Seq(Pumps) /\ IsInjective(Tail(lockq))
           /\ \A i \in DOMAIN Tail(lockq) : Tail(lockq)[i] # p /\ i + 1 \in DOMAIN lockq /\ Tail(lockq)[i] = lockq[i + 1]
<1> DEFINE t == Tail(lockq)
<1>1. lockq \in Seq(Pumps) /\ IsInjective(lockq) /\ lockq # <<>> /\ Head(lockq) = p
  BY Zenon DEF Locked, Holds
<1>2. /\ t \in Seq(Pumps) /\ p = lockq[1] /\ 1 \in DOMAIN lockq
      /\ DOMAIN lockq = 1 .. Len(lockq) /\ DOMAIN t = 1 .. Len(lockq) - 1 /\ Len(lockq) \in Nat
      /\ \A i \in DOMAIN t : i + 1 \in DOMAIN lockq /\ t[i] = lockq[i + 1]
  BY <1>1, TailElements, Zenon
<1> HIDE DEF t
<1>3. IsInjective(t)
  <2> SUFFICES ASSUME NEW i \in DOMAIN t, NEW j \in DOMAIN t, t[i] = t[j] PROVE i = j
    BY Zenon DEF IsInjective
  <2>1. i \in Int /\ j \in Int
    BY <1>2
  <2>2. i + 1 = j + 1
    BY <1>1, <1>2 DEF IsInjective
  <2> QED
    BY <2>1, <2>2
<1>4. ASSUME NEW i \in DOMAIN t PROVE t[i] # p
  <2>1. i \in Nat /\ i >= 1 /\ i + 1 \in DOMAIN lockq /\ t[i] = lockq[i + 1]
    BY <1>2
  <2>2. lockq[i + 1] = lockq[1] => i + 1 = 1
    BY <1>1, <1>2, <2>1, Zenon DEF IsInjective
  <2> QED
    BY <1>2, <2>1, <2>2
<1> QED
  BY <1>2, <1>3, <1>4, Zenon DEF t

\* A pump that leaves is in the queue no longer.
LEMMA LockLeft ==
    ASSUME Locked, NEW p
    PROVE  /\ Without(p) \in Seq(Pumps) /\ IsInjective(Without(p))
           /\ \A i \in DOMAIN Without(p) : Without(p)[i] # p /\ \E j \in DOMAIN lockq : Without(p)[i] = lockq[j]
<1>1. lockq \in Seq(Pumps) /\ IsInjective(lockq)
  BY Zenon DEF Locked
<1>2. CASE \A i \in DOMAIN lockq : lockq[i] # p
  <2>1. Without(p) = lockq
    BY <1>2, Zenon DEF Without
  <2> QED
    BY <1>1, <1>2, <2>1, Zenon
<1>3. CASE \E i \in DOMAIN lockq : lockq[i] = p
  <2>1. PICK i \in DOMAIN lockq : lockq[i] = p /\ Without(p) = TakenOut(lockq, i)
    BY <1>3, Zenon DEF Without
  <2> DEFINE r == TakenOut(lockq, i)
             at(j) == IF j < i THEN j ELSE j + 1
  <2>2. r \in Seq(Pumps) /\ \A j \in DOMAIN r : r[j] = lockq[at(j)] /\ at(j) \in DOMAIN lockq \ {i}
    BY <1>1, TakenOutElements, Zenon
  <2>3. \A j \in DOMAIN r : j \in Int
    BY <2>2
  <2>4. i \in Int
    BY <1>1
  <2> HIDE DEF r
  <2>5. IsInjective(r)
    <3> SUFFICES ASSUME NEW j \in DOMAIN r, NEW k \in DOMAIN r, r[j] = r[k] PROVE j = k
      BY Zenon DEF IsInjective
    <3>1. at(j) = at(k)
      <4>1. r[j] = lockq[at(j)] /\ r[k] = lockq[at(k)] /\ at(j) \in DOMAIN lockq /\ at(k) \in DOMAIN lockq
        BY <2>2, Zenon
      <4> HIDE DEF at
      <4> QED
        BY <1>1, <4>1, Zenon DEF IsInjective
    <3> QED
      BY <2>3, <2>4, <3>1
  <2>6. ASSUME NEW j \in DOMAIN r PROVE r[j] # p /\ \E k \in DOMAIN lockq : r[j] = lockq[k]
    <3>1. PICK k \in DOMAIN lockq \ {i} : r[j] = lockq[k]
      BY <2>2, Zenon
    <3> QED
      BY <1>1, <2>1, <3>1, Zenon DEF IsInjective
  <2> QED
    BY <2>1, <2>2, <2>5, <2>6, Zenon DEF r
<1> QED
  BY <1>2, <1>3, Zenon

\* The frames are written and read whole, one task at a time.
LEMMA LockedNext ==
    ASSUME Shaped, Locked, Next
    PROVE  Locked'
<1> USE DEF wire, pumps
<1>0. /\ relay.pc \in {"dial", "bound", "refused"} => writer.pc = "off" /\ reader.pc = "off"
      /\ reader \in ReaderStates /\ writer \in WriterStates
  BY Zenon DEF Shaped
<1>1. CASE Opens \/ DialFails
  <2>1. UNCHANGED lockq /\ writer.pc = "off" /\ reader.pc = "off"
    BY <1>0, <1>1, Zenon DEF Opens, DialFails
  <2> QED
    BY <2>1, Zenon DEF Locked
<1>2. CASE Relay \/ Hop \/ FromPeer \/ HopSocketFails \/ Breaks \/ Over
  <2>1. UNCHANGED <<lockq, writer, reader>>
    <3>1. CASE Relay
      BY <3>1, Zenon DEF Relay, RelayReads, RelaySends, RelayReceives, RelayRecvFails, RelayEnds, RelayDrops
    <3>2. CASE Hop \/ FromPeer \/ HopSocketFails \/ Breaks \/ Over
      BY <3>2, Zenon DEF Hop, HopBinds, HopFills, HopReplies, HopEnds, FromPeer, HopSocketFails, Breaks, Over, vars
    <3> QED
      BY <1>2, <3>1, <3>2, Zenon
  <2> QED
    BY <2>1, Zenon DEF Locked
<1>3. CASE WriterTakes
  <2>1. \A i \in DOMAIN lockq : lockq[i] # "w"
    BY <1>3, Zenon DEF WriterTakes, Locked
  <2>2. lockq' = Append(lockq, "w") /\ writer'.pc = "send" /\ UNCHANGED reader
    BY <1>3, Zenon DEF WriterTakes
  <2>3. "w" \in Pumps
    BY Zenon DEF Pumps
  <2> QED
    BY <2>1, <2>2, <2>3, LockAsked, Zenon DEF Locked
<1>4. CASE WriterSends
  <2>1. CASE UNCHANGED lockq
    <3>1. writer'.pc = "send" /\ UNCHANGED reader
      <4>1. writer.k # 1 => writer' = [writer EXCEPT !.k = 1] /\ writer.pc = "send"
        BY <1>4, Zenon DEF WriterSends
      <4>2. writer.k # 1
        <5>1. Holds("w")
          BY <1>4, Zenon DEF WriterSends
        <5>2. Len(Tail(lockq)) # Len(lockq)
          <6>1. lockq \in Seq(Pumps) /\ lockq # <<>>
            BY <5>1, Zenon DEF Holds, Locked
          <6> QED
            BY <6>1, TailElements
        <5> QED
          BY <1>4, <2>1, <5>2, Zenon DEF WriterSends
      <4> QED
        BY <1>0, <1>4, <4>1, <4>2, Zenon DEF WriterSends, WriterStates
    <3> QED
      BY <2>1, <3>1, Zenon DEF Locked
  <2>2. CASE lockq' = Tail(lockq)
    <3>1. Holds("w") /\ UNCHANGED reader
      BY <1>4, Zenon DEF WriterSends
    <3> QED
      BY <2>2, <3>1, LockPassed, Zenon DEF Locked
  <2> QED
    BY <1>4, <2>1, <2>2, Zenon DEF WriterSends
<1>5. CASE Leaves("w")
  BY <1>5, LockLeft DEF Leaves, Locked
<1>6. CASE Leaves("r")
  BY <1>6, LockLeft DEF Leaves, Locked
<1>7. CASE ReaderWants
  <2>1. \A i \in DOMAIN lockq : lockq[i] # "r"
    BY <1>7, Zenon DEF ReaderWants, Locked
  <2>2. lockq' = Append(lockq, "r") /\ reader'.pc = "recv" /\ UNCHANGED writer
    BY <1>0, <1>7, Zenon DEF ReaderWants, ReaderStates
  <2>3. "r" \in Pumps
    BY Zenon DEF Pumps
  <2> QED
    BY <2>1, <2>2, <2>3, LockAsked, Zenon DEF Locked
<1>8. CASE ReaderFills
  <2>1. Holds("r") /\ UNCHANGED writer /\ reader.pc = "recv"
    BY <1>8, Zenon DEF ReaderFills
  <2>2. CASE lockq' = Tail(lockq)
    BY <2>1, <2>2, LockPassed, Zenon DEF Locked
  <2>3. CASE UNCHANGED lockq /\ \E k \in 0 .. 1 : reader' = [reader EXCEPT !.k = k]
    <3>1. reader'.pc = "recv"
      BY <1>0, <2>1, <2>3, Zenon DEF ReaderStates
    <3> QED
      BY <2>1, <2>3, <3>1, Zenon DEF Locked
  <2> QED
    BY <1>8, <2>2, <2>3 DEF ReaderFills
<1>9. CASE ReaderPuts
  <2>1. UNCHANGED <<lockq, writer>> /\ reader.pc = "put"
    BY <1>9, Zenon DEF ReaderPuts
  <2> QED
    BY <2>1, Zenon DEF Locked
<1> QED
  BY <1>1, <1>2, <1>3, <1>4, <1>5, <1>6, <1>7, <1>8, <1>9, Zenon
  DEF Next, Writer, Reader, WriterFails, WriterEnds, ReaderEnds, Aborted

-----------------------------------------------------------------------------
(* The relay without a hop.                                                *)

\* Nothing on the ways, nothing to say about them.
LEMMA NothingRelayed ==
    ASSUME direct, NoTunnelInv, relay.pc # "dial"
    PROVE  RequestsInv /\ RepliesInv
<1>1. /\ out = <<>> /\ inq = <<>> /\ c2s = <<>> /\ s2c = <<>> /\ sent = <<>> /\ back = <<>>
      /\ writer.pc # "send" /\ writer.k = 0 /\ reader.pc # "put" /\ reader.k = 0
      /\ hop.pc = "gone" /\ relay.pc # "sending"
  BY DEF NoTunnelInv, Off, Gone
<1>2. Each(sent, 2) = {} /\ Each(out, 1) = {} /\ Each(back, 2) = {} /\ Each(inq, 2) = {} /\ Range(c2s) = {} /\ Range(s2c) = {}
  BY <1>1 DEF Each, Range
<1>3. AtWriter = {} /\ AtRelay = {} /\ AtReader = {} /\ AtHop = {}
  BY <1>1, Zenon DEF AtWriter, AtRelay, AtReader, AtHop
<1>4. Increasing(sent) /\ Increasing(out) /\ Increasing(back) /\ Increasing(inq) /\ InOrder(c2s) /\ InOrder(s2c)
  BY <1>1 DEF Increasing, InOrder
<1>5. RequestLine /\ OnRequestLine = {} /\ AnswerLine /\ OnAnswerLine = {}
  BY <1>2, <1>3, Zenon DEF RequestLine, OnRequestLine, AnswerLine, OnAnswerLine, Line, Before
<1>6. ~Alive /\ DOMAIN sent = {}
  BY <1>1 DEF Alive
<1>7. ~broken /\ reader.pc # "gone" => Framed(s2c, reader.k)
  BY <1>1 DEF Framed
<1>8. RequestsInv
  BY <1>1, <1>4, <1>5, <1>6, Zenon DEF RequestsInv
<1>9. RepliesInv
  BY <1>1, <1>4, <1>5, <1>6, <1>7, Zenon DEF RepliesInv
<1> QED
  BY <1>8, <1>9, Zenon

\* Setting up, or failing to.
LEMMA DirectSetsUp ==
    ASSUME IInv, Shaped, Locked, NoTunnelInv, DirectOpens \/ DirectFails
    PROVE  Shaped' /\ Locked' /\ NoTunnelInv' /\ DirectKept' /\ relay'.pc # "dial"
<1> USE DEF config
<1>0. MaxSend \in Nat /\ MaxReply \in Nat
  BY TunnelConstants, Zenon
<1>1. /\ direct /\ relay.pc = "dial"
      /\ UNCHANGED <<kind, dg, rp, sends, replies, out, inq, lockq, abort, c2s, s2c, sent, back,
                     direct, owner, world, client, lost>>
      /\ writer' = Gone /\ reader' = Gone /\ hop' = Gone /\ closed'
      /\ \E p \in {"direct", "gone"} : relay' = [relay EXCEPT !.pc = p]
  BY Zenon DEF DirectOpens, DirectFails, NoTunnel
<1>2. relay' \in RelayStates /\ relay'.pc \in {"direct", "gone"}
  <2>1. relay \in RelayStates
    BY Zenon DEF Shaped
  <2> QED
    BY <1>1, <2>1, Zenon DEF RelayStates
<1>3. writer' \in WriterStates /\ reader' \in ReaderStates /\ hop' \in HopStates /\ hop'.pc = "gone"
  BY <1>0, <1>1 DEF Gone, WriterStates, ReaderStates, HopStates
<1>4. Shaped'
  BY <1>1, <1>2, <1>3, Zenon DEF Shaped
<1>5. Locked'
  <2>1. writer.pc = "off" /\ reader.pc = "off"
    BY <1>1, Zenon DEF Shaped
  <2> QED
    BY <1>1, <2>1, Zenon DEF Locked
<1>6. NoTunnelInv'
  BY <1>1, <1>2, <1>3, Zenon DEF NoTunnelInv
<1>7. DirectKept'
  <2>1. sends = 0 /\ replies = 0 /\ world = <<>> /\ client = <<>> /\ lost = {}
    BY <1>1, Zenon DEF NoTunnelInv
  <2> QED
    BY <1>1, <2>1 DEF DirectKept, Increasing, Range
<1> QED
  BY <1>2, <1>4, <1>5, <1>6, <1>7, Zenon

\* What is sent of the next datagram is what DirectKept says is.
LEMMA PassesIsKept ==
    ASSUME IInv, NoTunnelInv, direct, sends < MaxSend
    PROVE  LET n == sends + 1 IN
           DirectPasses(n) <=> /\ kind = "ssu" => RelayPasses(n)
                               /\ kind = "associate" => dg[n].from = dg[1].from /\ ~dg[n].frag /\ HopPasses(n)
<1> DEFINE n == sends + 1
<1>1. CASE kind = "associate"
  <2>1. Owner(n).who = dg[1].from
    <3>0. sends \in Nat /\ 1 \in 1 .. MaxSend /\ dg \in [1 .. MaxSend -> Datagrams]
      BY TunnelConstants DEF IInv, Typed
    <3>1. CASE sends = 0
      BY <1>1, <3>1 DEF Owner, IInv, OwnerIsFirst
    <3>2. CASE sends > 0
      <4>1. dg[1].from \in Clients
        BY <3>0, Zenon DEF Datagrams
      <4>2. owner.who = dg[1].from /\ owner.who # Nobody
        BY <1>1, <3>2, <4>1, RelayConstants, Zenon DEF IInv, OwnerIsFirst
      <4> QED
        BY <4>2, Zenon DEF Owner
    <3> QED
      BY <3>0, <3>1, <3>2
  <2> QED
    BY <1>1, <2>1, Zenon DEF DirectPasses
<1>2. CASE kind # "associate"
  BY <1>2, Zenon DEF DirectPasses
<1> QED
  BY <1>1, <1>2, Zenon

\* A datagram of the client side.
LEMMA DirectReadsKeeps ==
    ASSUME IInv, Shaped, Locked, NoTunnelInv, DirectKept, DirectReads
    PROVE  Shaped' /\ Locked' /\ NoTunnelInv' /\ DirectKept' /\ relay'.pc # "dial"
<1> USE DEF config, pumps, wire
<1> DEFINE n == sends + 1
<1>1. /\ direct /\ relay.pc = "direct" /\ sends < MaxSend /\ sends' = n /\ owner' = Owner(n)
      /\ UNCHANGED <<kind, dg, rp, replies, out, inq, writer, reader, lockq, abort, c2s, s2c, closed, hop,
                     sent, back, direct, client>>
  BY Zenon DEF DirectReads
<1>2. \/ /\ UNCHANGED <<relay, lost>> /\ ~DirectPasses(n) /\ world' = world
      \/ /\ UNCHANGED <<relay, lost>> /\ DirectPasses(n) /\ world' = Append(world, n)
      \/ /\ DirectPasses(n) /\ lost' = lost \cup {n} /\ UNCHANGED world
         /\ (relay' = relay /\ kind = "ssu") \/ relay' = [relay EXCEPT !.pc = "gone"]
  BY Zenon DEF DirectReads
<1>3. sends \in Nat /\ n \in Nat /\ n \in 1 .. MaxSend /\ world \in Seq(Nat) /\ replies \in Nat
  <2>1. MaxSend \in Nat /\ MaxReply \in Nat /\ sends \in 0 .. MaxSend /\ replies \in 0 .. MaxReply
    BY TunnelConstants, Zenon DEF Shaped
  <2> QED
    BY <1>1, <2>1 DEF IInv, Typed
<1>4. relay' \in RelayStates /\ relay'.pc \in {"direct", "gone"} /\ (relay'.pc = "direct" => relay' = relay)
  <2>1. relay \in RelayStates
    BY Zenon DEF Shaped
  <2>2. relay' = relay \/ relay' = [relay EXCEPT !.pc = "gone"]
    BY <1>2, Zenon
  <2> QED
    BY <1>1, <2>1, <2>2, Zenon DEF RelayStates
<1>5. Shaped'
  <2>1. sends' \in 0 .. MaxSend
    BY <1>1, <1>3
  <2>2. ~abort /\ (hop.pc = "request" => closed)
    BY <1>1, Zenon DEF Shaped
  <2> QED
    BY <1>1, <1>4, <2>1, <2>2, Zenon DEF Shaped
<1>6. Locked'
  BY <1>1, Zenon DEF Locked
<1>7. dg[n].from \in Clients
  BY <1>3, Zenon DEF Shaped, Datagrams
<1>8. NoTunnelInv'
  <2>1. lost' \subseteq 1 .. n
    <3>1. \A i \in 1 .. sends : i \in 1 .. n
      BY <1>3
    <3>2. n \in 1 .. n
      BY <1>3
    <3>3. lost' = lost \/ lost' = lost \cup {n}
      BY <1>2, Zenon
    <3>4. lost \subseteq 1 .. sends
      BY <1>1, Zenon DEF NoTunnelInv
    <3> HIDE DEF n
    <3> QED
      BY <3>1, <3>2, <3>3, <3>4, Zenon
  <2>2. owner'.since \in 0 .. replies /\ ~(kind = "associate" /\ owner'.who = Nobody)
    BY <1>1, <1>3, <1>7, RelayConstants DEF NoTunnelInv, Owner
  <2> QED
    BY <1>1, <1>4, <2>1, <2>2, Zenon DEF NoTunnelInv
<1>9. DirectKept'
  <2> SUFFICES ASSUME relay'.pc = "direct" PROVE DirectKept'
    BY Zenon DEF DirectKept
  <2> DEFINE Kept(m) == /\ kind = "ssu" => RelayPasses(m)
                        /\ kind = "associate" => dg[m].from = dg[1].from /\ ~dg[m].frag /\ HopPasses(m)
  <2>0. \A m : RelayPasses(m)' = RelayPasses(m) /\ HopPasses(m)' = HopPasses(m)
    BY <1>1, Zenon DEF RelayPasses, HopPasses, Dst
  <2>1. /\ Increasing(world) /\ Increasing(client) /\ (lost # {} => kind = "ssu")
        /\ Range(world) = {m \in 1 .. sends : m \notin lost /\ Kept(m)}
        /\ Range(client) = {r \in 1 .. replies : Returns(r)}
    BY <1>1, Zenon DEF DirectKept
  <2>2. DirectPasses(n) <=> Kept(n)
    BY <1>1, PassesIsKept, Zenon
  <2>3. n \notin lost /\ lost \subseteq 1 .. sends
    BY <1>1, <1>3 DEF NoTunnelInv
  <2> HIDE DEF Kept
  <2>4. Increasing(world') /\ Range(world') = {m \in 1 .. n : m \notin lost' /\ Kept(m)}
    <3>1. CASE UNCHANGED <<relay, lost>> /\ ~DirectPasses(n) /\ world' = world
      BY <1>3, <2>1, <2>2, <3>1
    <3>2. CASE UNCHANGED <<relay, lost>> /\ DirectPasses(n) /\ world' = Append(world, n)
      <4>1. \A i \in DOMAIN world : world[i] < n
        <5>1. \A i \in DOMAIN world : world[i] \in Range(world)
          BY Zenon DEF Range
        <5> QED
          BY <1>3, <2>1, <5>1
      <4>2. Increasing(Append(world, n)) /\ Range(Append(world, n)) = Range(world) \cup {n}
        <5>1. n \in Nat /\ world \in Seq(Nat)
          BY <1>3, Zenon
        <5> HIDE DEF n
        <5>2. Increasing(Append(world, n))
          BY <2>1, <4>1, <5>1, AppendOrder, Zenon
        <5>3. Range(Append(world, n)) = Range(world) \cup {n}
          BY <5>1, AppendSets
        <5> QED
          BY <5>2, <5>3, Zenon
      <4> QED
        BY <1>3, <2>1, <2>2, <2>3, <3>2, <4>2
    <3>3. CASE lost' = lost \cup {n} /\ UNCHANGED world
      BY <1>3, <2>1, <3>3
    <3> QED
      BY <1>2, <3>1, <3>2, <3>3, Zenon
  <2>5. Range(client') = {r \in 1 .. replies : Returns(r)'}
    <3>1. ASSUME NEW r \in 1 .. replies PROVE Returns(r)' = Returns(r)
      <4>1. CASE kind = "associate" /\ owner.who = Nobody
        <5>1. owner'.since = replies
          BY <1>1, <4>1, Zenon DEF Owner
        <5>2. ~Returns(r) /\ ~Returns(r)'
          BY <1>1, <1>3, <4>1, <5>1 DEF Returns
        <5>3. Returns(r) \in BOOLEAN /\ Returns(r)' \in BOOLEAN
          BY <1>1, <4>1, Zenon DEF Returns
        <5> QED
          BY <5>2, <5>3, Zenon
      <4>2. CASE ~(kind = "associate" /\ owner.who = Nobody)
        BY <1>1, <4>2, Zenon DEF Owner, Returns
      <4> QED
        BY <4>1, <4>2, Zenon
    <3> QED
      BY <1>1, <2>1, <3>1, Zenon
  <2>6. lost' # {} => kind = "ssu"
    <3>1. relay'.pc = "direct" /\ lost' # lost => kind = "ssu"
      <4>1. relay \in RelayStates
        BY Zenon DEF Shaped
      <4>2. relay' = [relay EXCEPT !.pc = "gone"] => relay'.pc = "gone"
        BY <4>1, Zenon DEF RelayStates
      <4> QED
        BY <1>2, <4>2, Zenon
    <3> QED
      BY <2>1, <3>1, Zenon
  <2>7. \A m : Kept(m)' <=> Kept(m)
    BY <1>1, <2>0, Zenon DEF Kept
  <2>8. (Range(world) = {m \in 1 .. sends : m \notin lost /\ Kept(m)})'
    BY <1>1, <2>4, <2>7, Zenon
  <2> QED
    BY <1>1, <2>1, <2>4, <2>5, <2>6, <2>8, Zenon DEF DirectKept, Kept
<1> QED
  BY <1>4, <1>5, <1>6, <1>8, <1>9, Zenon

\* A datagram of the world.
LEMMA DirectReceivesKeeps ==
    ASSUME IInv, Shaped, Locked, NoTunnelInv, DirectKept, DirectReceives
    PROVE  Shaped' /\ Locked' /\ NoTunnelInv' /\ DirectKept' /\ relay'.pc # "dial"
<1> USE DEF config, pumps, wire
<1> DEFINE n == replies + 1
<1>1. /\ direct /\ relay.pc = "direct" /\ replies < MaxReply /\ replies' = n
      /\ UNCHANGED <<kind, dg, rp, sends, out, inq, writer, reader, lockq, abort, c2s, s2c, closed, hop,
                     sent, back, direct, owner, world, lost>>
      /\ relay' = [relay EXCEPT !.errs = 0] \/ relay' = [relay EXCEPT !.pc = "gone"]
      /\ \/ client' = (IF Returns(n) THEN Append(client, n) ELSE client)
         \/ client' = client /\ relay' = [relay EXCEPT !.pc = "gone"]
  BY Zenon DEF DirectReceives
<1>2. replies \in Nat /\ n \in Nat /\ n \in 1 .. MaxReply /\ client \in Seq(Nat) /\ owner.since \in 0 .. replies
  <2>1. MaxReply \in Nat /\ replies \in 0 .. MaxReply
    BY TunnelConstants, Zenon DEF Shaped
  <2> QED
    BY <1>1, <2>1 DEF NoTunnelInv
<1>3. relay' \in RelayStates /\ relay'.pc \in {"direct", "gone"} /\ (relay' = [relay EXCEPT !.pc = "gone"] => relay'.pc = "gone")
  <2>1. relay \in RelayStates /\ MaxErrors \in Nat
    BY TunnelConstants, Zenon DEF Shaped
  <2>2. CASE relay' = [relay EXCEPT !.errs = 0]
    BY <1>1, <2>1, <2>2 DEF RelayStates
  <2>3. CASE relay' = [relay EXCEPT !.pc = "gone"]
    BY <1>1, <2>1, <2>3, Zenon DEF RelayStates
  <2> QED
    BY <1>1, <2>2, <2>3, Zenon
<1>4. Shaped'
  <2>1. replies' \in 0 .. MaxReply
    BY <1>1, <1>2
  <2>2. ~abort /\ (hop.pc = "request" => closed)
    BY <1>1, Zenon DEF Shaped
  <2> QED
    BY <1>1, <1>3, <2>1, <2>2, Zenon DEF Shaped
<1>5. Locked'
  BY <1>1, Zenon DEF Locked
<1>6. client' \in Seq(Nat)
  <2>1. Append(client, n) \in Seq(Nat)
    BY <1>2
  <2> QED
    BY <1>1, <1>2, <2>1, Zenon
<1>7. NoTunnelInv'
  <2>1. owner.since \in 0 .. n
    BY <1>2
  <2>2. kind = "associate" /\ owner.who = Nobody => client' = <<>> /\ sends = 0
    BY <1>1, Zenon DEF NoTunnelInv, Returns
  <2> QED
    BY <1>1, <1>3, <1>6, <2>1, <2>2, Zenon DEF NoTunnelInv
<1>8. DirectKept'
  <2> SUFFICES ASSUME relay'.pc = "direct" PROVE DirectKept'
    BY Zenon DEF DirectKept
  <2>1. /\ Increasing(world) /\ Increasing(client) /\ (lost # {} => kind = "ssu")
        /\ Range(client) = {r \in 1 .. replies : Returns(r)}
    BY <1>1, Zenon DEF DirectKept
  <2>2. \A r : Returns(r)' = Returns(r)
    BY <1>1, Zenon DEF Returns
  <2>3. client' = IF Returns(n) THEN Append(client, n) ELSE client
    BY <1>1, <1>3, Zenon
  <2>4. Increasing(client') /\ Range(client') = {r \in 1 .. n : Returns(r)}
    <3>1. CASE ~Returns(n)
      BY <1>2, <2>1, <2>3, <3>1
    <3>2. CASE Returns(n)
      <4>1. \A i \in DOMAIN client : client[i] < n
        <5>1. \A i \in DOMAIN client : client[i] \in Range(client)
          BY Zenon DEF Range
        <5> QED
          BY <1>2, <2>1, <5>1
      <4>2. Increasing(Append(client, n)) /\ Range(Append(client, n)) = Range(client) \cup {n}
        <5>1. n \in Nat /\ client \in Seq(Nat)
          BY <1>2, Zenon
        <5> HIDE DEF n
        <5>2. Increasing(Append(client, n))
          BY <2>1, <4>1, <5>1, AppendOrder, Zenon
        <5>3. Range(Append(client, n)) = Range(client) \cup {n}
          BY <5>1, AppendSets
        <5> QED
          BY <5>2, <5>3, Zenon
      <4> QED
        BY <1>2, <2>1, <2>3, <3>2, <4>2
    <3> QED
      BY <3>1, <3>2, Zenon
  <2>5. (Range(client) = {r \in 1 .. replies : Returns(r)})'
    BY <1>1, <2>2, <2>4, Zenon
  <2>6. (Range(world) = {m \in 1 .. sends :
               /\ m \notin lost
               /\ kind = "ssu" => RelayPasses(m)
               /\ kind = "associate" => dg[m].from = dg[1].from /\ ~dg[m].frag /\ HopPasses(m)})'
    <3>1. \A m : RelayPasses(m)' = RelayPasses(m) /\ HopPasses(m)' = HopPasses(m)
      BY <1>1, Zenon DEF RelayPasses, HopPasses, Dst
    <3> QED
      BY <1>1, <3>1, Zenon DEF DirectKept
  <2> QED
    BY <1>1, <2>1, <2>4, <2>5, <2>6, Zenon DEF DirectKept
<1> QED
  BY <1>3, <1>4, <1>5, <1>7, <1>8, Zenon

\* The handler ends, or counts an error.
LEMMA DirectEndsKeeps ==
    ASSUME Shaped, Locked, NoTunnelInv, DirectKept, DirectRecvFails \/ DirectEnds
    PROVE  Shaped' /\ Locked' /\ NoTunnelInv' /\ DirectKept' /\ relay'.pc # "dial"
<1> USE DEF config, pumps, wire, dvars
<1>1. /\ direct /\ relay.pc = "direct"
      /\ UNCHANGED <<kind, dg, rp, sends, replies, out, inq, writer, reader, lockq, abort, c2s, s2c, closed, hop,
                     sent, back, direct, owner, world, client, lost>>
      /\ \/ relay.errs < MaxErrors /\ relay' = [relay EXCEPT !.errs = @ + 1]
         \/ relay' = [relay EXCEPT !.pc = "gone"]
  BY Zenon DEF DirectRecvFails, DirectEnds
<1>2. relay' \in RelayStates /\ relay'.pc \in {"direct", "gone"}
  <2>1. relay \in RelayStates /\ MaxErrors \in Nat
    BY TunnelConstants, Zenon DEF Shaped
  <2> QED
    BY <1>1, <2>1 DEF RelayStates
<1>3. Shaped'
  <2>1. ~abort /\ (hop.pc = "request" => closed)
    BY <1>1, Zenon DEF Shaped
  <2> QED
    BY <1>1, <1>2, <2>1, Zenon DEF Shaped
<1>4. Locked'
  BY <1>1, Zenon DEF Locked
<1>5. NoTunnelInv'
  BY <1>1, <1>2, Zenon DEF NoTunnelInv
<1>6. DirectKept'
  <2>1. \A m : RelayPasses(m)' = RelayPasses(m) /\ HopPasses(m)' = HopPasses(m) /\ Returns(m)' = Returns(m)
    BY <1>1, Zenon DEF RelayPasses, HopPasses, Dst, Returns
  <2> QED
    BY <1>1, <2>1, Zenon DEF DirectKept
<1> QED
  BY <1>2, <1>3, <1>4, <1>5, <1>6, Zenon

-----------------------------------------------------------------------------
(* The theorem.                                                            *)

\* Every step keeps it.
LEMMA KeptNext == KeptInv /\ [RelayNext]_allvars => KeptInv'
<1> SUFFICES ASSUME KeptInv, [RelayNext]_allvars PROVE KeptInv'
  BY Zenon
<1> USE DEF KeptInv
<1>0. IInv'
  BY NextIInv, Zenon
<1>1. CASE Tunnelled
  <2>1. Next /\ ~direct'
    BY <1>1, Zenon DEF Tunnelled, dvars
  <2>2. Shaped'
    BY <2>1, ShapedRelay, ShapedPumps, ShapedHop, Zenon DEF Next
  <2>3. Locked' /\ RequestsInv' /\ RepliesInv'
    BY <2>1, LockedNext, RequestsNext, RepliesNext, Zenon
  <2>4. NoTunnelInv' /\ DirectKept'
    BY <2>1, Zenon DEF NoTunnelInv, DirectKept
  <2> QED
    BY <1>0, <2>2, <2>3, <2>4, Zenon
<1>2. CASE DirectOpens \/ DirectFails \/ Loop \/ DirectEnds
  <2>1. Shaped' /\ Locked' /\ NoTunnelInv' /\ DirectKept' /\ relay'.pc # "dial"
    BY <1>2, DirectSetsUp, DirectReadsKeeps, DirectReceivesKeeps, DirectEndsKeeps, Zenon DEF Loop
  <2>2. direct'
    <3>1. CASE DirectOpens \/ DirectFails
      <4>1. direct /\ direct' = direct
        BY <3>1, Zenon DEF DirectOpens, DirectFails
      <4> QED
        BY <4>1, Zenon
    <3>2. CASE DirectReads \/ DirectReceives
      BY <3>2 DEF DirectReads, DirectReceives
    <3>3. CASE DirectRecvFails \/ DirectEnds
      BY <3>3 DEF DirectRecvFails, DirectEnds, dvars
    <3> QED
      BY <1>2, <3>1, <3>2, <3>3, Zenon DEF Loop
  <2>3. RequestsInv' /\ RepliesInv'
    <3>1. (direct /\ NoTunnelInv /\ relay.pc # "dial" => RequestsInv /\ RepliesInv)'
      BY NothingRelayed, PTL
    <3> QED
      BY <2>1, <2>2, <3>1, Zenon
  <2> QED
    BY <1>0, <2>1, <2>3, Zenon
<1>3. CASE ControlCloses \/ RelayOver \/ UNCHANGED allvars
  <2>1. UNCHANGED <<vars, direct, owner, world, client, lost>>
    BY <1>3, Zenon DEF ControlCloses, RelayOver, allvars, dvars
  <2>2. UNCHANGED <<kind, dg, rp, relay, sends, replies, out, inq, writer, reader, lockq, abort, c2s, s2c, closed,
                    broken, hop, sent, back, direct, owner, world, client, lost>>
    BY <2>1, Zenon DEF vars, config, pumps, wire
  <2>3. Shaped' /\ Locked' /\ NoTunnelInv'
    <3>1. Shaped'
      BY <2>2, Zenon DEF Shaped
    <3>2. Locked'
      BY <2>2, Zenon DEF Locked
    <3>3. NoTunnelInv'
      BY <2>2, Zenon DEF NoTunnelInv
    <3> QED
      BY <3>1, <3>2, <3>3, Zenon
  <2>4. \A m : RelayPasses(m)' = RelayPasses(m) /\ HopPasses(m)' = HopPasses(m) /\ Returns(m)' = Returns(m)
    BY <2>2, Zenon DEF RelayPasses, HopPasses, Dst, Returns
  <2>5. DirectKept'
    BY <2>2, <2>4, Zenon DEF DirectKept
  <2>6. AtRelay' = AtRelay /\ AtReader' = AtReader /\ (Alive' => Alive)
    BY <2>2, Zenon DEF AtRelay, AtReader, Alive
  <2>7. RequestsInv'
    BY <2>2, <2>6, RequestsStay, Zenon DEF config
  <2>8. RepliesInv'
    <3>1. reader.pc # "recv" => reader.k = 0
      BY Zenon DEF RepliesInv
    <3> QED
      BY <2>2, <2>6, <3>1, RepliesStay, Zenon DEF config
  <2> QED
    BY <1>0, <2>3, <2>5, <2>7, <2>8, Zenon
<1> QED
  BY <1>1, <1>2, <1>3, Zenon DEF RelayNext

\* A relay relays what its lists let through: while it is up all of it, once and
\* in order in both directions, through the channels, the pumps that share the
\* tunnel's mutex, the stream and the hop's select!, or without a hop; and after
\* any end of any part of it, nothing else, nothing twice and nothing out of order
\* (handle of forward.rs and ss.rs, dial_udp of chain.rs, tunnel_server_udp).
THEOREM RelayKeeps == RelaySpec => []TunnelKept
<1> QED BY KeptInit, KeptNext, KeptFollows, PTL DEF RelaySpec

=============================================================================
