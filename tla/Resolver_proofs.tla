--------------------------- MODULE Resolver_proofs ---------------------------
(***************************************************************************)
(* Proofs about Resolver and DnsProxy for any callers, servers, answers,   *)
(* histories of the file and requests: resolve tries every server and      *)
(* both types of address before it gives up, a stale answer gets into the  *)
(* cache only through a call that was under way when it was cleared, and   *)
(* a client is given a reply with its own ID that fits it.                 *)
(***************************************************************************)
EXTENDS DnsProxy, TLAPS

-----------------------------------------------------------------------------
(* Types.                                                                  *)

Settings == [cfg : Config, ver : Nat]
Keys == Types \cup {"several"}
Points == {"idle", "load", "done", "dial", "shake", "ask"}
Replies == [id : Nat, len : Nat, ok : BOOLEAN]
CallRec == [pc : Points, id : Nat, got : Replies, st : Settings, i : Nat, t : Keys,
            from : Servers \cup {NoServer}, err : BOOLEAN, tried : SUBSET (Nat \X Keys)]
WatchRec == [pc : {"look", "open", "write", "clear", "over"}, last : Nat, cfg : Config, ver : Nat]
Asked == UNION {Requests[h] : h \in Histories}

\* The lengths a reply can have: that of an answer, or of what does not decode.
Lens == {a.len : a \in Answers} \cup {40}

-----------------------------------------------------------------------------
(* What is true of a call, seen as a record.                               *)

FirstOf(r) == IF r.st.cfg.prefer = "ipv6" THEN "AAAA" ELSE "A"
SecondOf(r) == IF r.st.cfg.prefer = "ipv6" THEN "A" ELSE "AAAA"
ServersIn(r) == r.st.cfg.servers

\* It is at a server of its configuration.
Placed(r) ==
    /\ r.pc # "idle" /\ ServersIn(r) # <<>> => r.i \in 1 .. Len(ServersIn(r))
    /\ r.pc \in Asking => ServersIn(r) # <<>>

\* What resolve has tried before the query it is at.
Prior(r) == ((1 .. r.i - 1) \X Types) \cup (IF r.t = FirstOf(r) THEN {} ELSE {<<r.i, FirstOf(r)>>})
All(r) == (1 .. Len(ServersIn(r))) \X Types

\* A resolve that runs has tried all that comes before, without success; one
\* that is done has tried everything, or has found an address at once where it
\* is.
Trying(r) ==
    /\ r.t \in Types
    /\ r.pc \in {"load"} \cup Asking =>
          ServersIn(r) # <<>> /\ r.from = NoServer /\ r.tried = Prior(r)
    /\ r.pc = "done" /\ ServersIn(r) # <<>> =>
          r.tried = IF r.from = NoServer THEN All(r) ELSE Prior(r) \cup {<<r.i, r.t>>}

\* An exchange that is done without an error has the client's ID in its reply.
Fitting(r) == r.pc = "done" /\ ~r.err => r.got.id = r.id /\ r.got.len \in Lens

Sound(c, r) ==
    /\ r \in CallRec /\ Placed(r)
    /\ c \in Resolvers => Trying(r)
    /\ c \in Exchangers => Fitting(r)

\* A call keeps the configuration it began with, and the client's ID.
Same(r, s) == r.st = s.st /\ r.id = s.id

CallsSound == call \in [Callers -> CallRec] /\ \A c \in Callers : Sound(c, call[c])

-----------------------------------------------------------------------------
(* The inductive invariant.                                                *)

CacheTyped == cache \in [Types -> Item \cup {NoItem}] /\ \A k \in Types : cache[k] # NoItem => cache[k].len \in Lens
FileTyped == file \in [mod : Nat, texts : Histories] /\ file.mod \in 1 .. Len(file.texts)
ControlTyped == st \in Settings /\ stopped \in BOOLEAN /\ now \in 0 .. MaxNow /\ watch \in WatchRec /\ calls \in [Callers -> Nat]
Typed == ControlTyped /\ FileTyped /\ CacheTyped

\* Between a clear and the next replacement, what is in the cache and the calls
\* that run are of the present configuration or were there at the clear.
Known(v) == v = st.ver \/ v \in old
Fresh ==
    watch.pc # "clear" =>
        /\ \A k \in Types : cache[k] # NoItem => Known(cache[k].ver)
        /\ \A c \in Callers : call[c].pc # "idle" => Known(call[c].st.ver)

Outs == [is : {"nothing", "closed"}] \cup [is : {"status"}, code : Nat]
        \cup [is : {"reply"}, id : Nat, len : Nat, tc : BOOLEAN, ok : BOOLEAN]
ClientRec == [at : {"none", "asking", "over"}, req : Asked, out : Outs]
Fits(q, o) ==
    o.is = "reply" =>
        /\ o.id = q.id
        /\ q.mode = "udp" => o.len <= Limit(q)
        /\ o.tc => q.mode = "udp" /\ \E a \in Answers : a.len > Limit(q)
ClientsSound ==
    /\ client \in [Exchangers -> ClientRec]
    /\ \A x \in Exchangers :
          /\ client[x].at = "asking" => call[x].id = client[x].req.id
          /\ Fits(client[x].req, client[x].out)

IInv == Typed /\ CallsSound /\ Fresh /\ ClientsSound

-----------------------------------------------------------------------------
(* Records and sets.                                                       *)

\* One call changes.
LEMMA CallStep ==
    ASSUME CallsSound, NEW c \in Callers, NEW r, Sound(c, r), call' = [call EXCEPT ![c] = r]
    PROVE  CallsSound'
<1>1. call' \in [Callers -> CallRec]
  BY Zenon DEF CallsSound, Sound
<1>2. \A d \in Callers : Sound(d, call'[d])
  BY Zenon DEF CallsSound
<1>. QED BY <1>1, <1>2, Zenon DEF CallsSound, Sound, Placed, Trying, Fitting, Prior, All, ServersIn, FirstOf, SecondOf

\* Both types at server i, after all before it.
LEMMA NextPlace ==
    ASSUME NEW i \in Nat, i >= 1, NEW a, NEW b, {a, b} = Types
    PROVE  ((1 .. i - 1) \X Types) \cup {<<i, a>>} \cup {<<i, b>>} = (1 .. i) \X Types
<1>. DEFINE S == ((1 .. i - 1) \X Types) \cup {<<i, a>>} \cup {<<i, b>>}
<1>1. ASSUME NEW x \in S PROVE x \in (1 .. i) \X Types
  <2>1. CASE x \in (1 .. i - 1) \X Types
    <3>1. 1 .. i - 1 \subseteq 1 .. i
      OBVIOUS
    <3>. QED BY <3>1, <2>1, Zenon
  <2>2. CASE x = <<i, a>> \/ x = <<i, b>>
    BY <2>2
  <2>. QED BY <2>1, <2>2, Zenon
<1>2. ASSUME NEW x \in (1 .. i) \X Types PROVE x \in S
  <2>1. PICK n \in 1 .. i, t \in Types : x = <<n, t>>
    OBVIOUS
  <2>2. n \in 1 .. i - 1 \/ n = i
    OBVIOUS
  <2>3. t = a \/ t = b
    BY Zenon
  <2>. QED BY <2>1, <2>2, <2>3, Zenon
<1>3. S = (1 .. i) \X Types
  <2>. HIDE DEF S
  <2>. QED BY <1>1, <1>2, Zenon
<1>. QED BY <1>3, Zenon

\* The configuration of a call is one.
LEMMA CallConfig ==
    ASSUME NEW r \in CallRec
    PROVE  ServersIn(r) \in Seq(Servers) /\ Len(ServersIn(r)) \in Nat /\ (ServersIn(r) # <<>> => Len(ServersIn(r)) >= 1)
<1>1. r.st.cfg \in Config
  BY Zenon DEF CallRec, Settings
<1>2. ServersIn(r) \in Seq(Servers)
  BY <1>1, Zenon DEF Config, ServersIn
<1>. QED BY <1>2

\* The two types, in the order of preference.
LEMMA Preference ==
    ASSUME NEW r
    PROVE  {FirstOf(r), SecondOf(r)} = Types /\ FirstOf(r) # SecondOf(r)
BY Zenon DEF FirstOf, SecondOf, Types

-----------------------------------------------------------------------------
(* A query of resolve is over.                                             *)

\* Advance leaves a resolve with all that comes before tried, or done.
LEMMA AdvanceSound ==
    ASSUME CallsSound, NEW c \in Resolvers, call[c].pc \in {"load"} \cup Asking, NEW some \in BOOLEAN,
           NEW err \in BOOLEAN, NEW from \in Servers \cup {NoServer}, some => from \in Servers
    PROVE  LET r == Advance(c, some, err, from) IN Sound(c, r) /\ Same(r, call[c]) /\ r.pc # "idle"
<1>. DEFINE o == call[c]
            r == [o EXCEPT !.tried = @ \cup {<<o.i, o.t>>}]
            a == Advance(c, some, err, from)
<1>0. c \in Callers /\ c \notin Exchangers /\ NoServer \notin Servers
  BY ResolverConstants, Zenon DEF Callers
<1>1. o \in CallRec /\ Placed(o) /\ Trying(o)
  BY <1>0, Zenon DEF CallsSound, Sound
<1>2. o.pc # "idle" /\ ServersIn(o) # <<>> /\ o.from = NoServer /\ o.tried = Prior(o) /\ o.t \in Types
  BY <1>1, Zenon DEF Trying, Asking
<1>3. o.i \in 1 .. Len(ServersIn(o)) /\ Len(ServersIn(o)) \in Nat /\ ServersIn(o) \in Seq(Servers)
  BY <1>1, <1>2, CallConfig, Zenon DEF Placed
<1>4. First(c) = FirstOf(o) /\ Second(c) = SecondOf(o) /\ ServersOf(c) = ServersIn(o)
  BY Zenon DEF First, Second, ServersOf, FirstOf, SecondOf, ServersIn
<1>5. o.tried \cup {<<o.i, o.t>>} \in SUBSET (Nat \X Keys)
  <2>1. o.tried \in SUBSET (Nat \X Keys) /\ o.i \in Nat /\ o.t \in Keys
    BY <1>1, Zenon DEF CallRec
  <2>. QED BY <2>1
<1>6. r \in CallRec /\ r.tried = o.tried \cup {<<o.i, o.t>>} /\ r.st = o.st /\ r.i = o.i /\ r.t = o.t /\ r.id = o.id
      /\ r.from = o.from /\ r.pc = o.pc
  BY <1>1, <1>5, Zenon DEF CallRec
<1>. HIDE DEF r, a
<1>7. CASE some
  <2>1. a = [r EXCEPT !.pc = "done", !.from = from, !.err = FALSE]
    BY <1>7, Zenon DEF Advance, a, r
  <2>2. /\ a \in CallRec /\ a.pc = "done" /\ a.from = from /\ a.st = o.st /\ a.i = o.i /\ a.t = o.t /\ a.id = o.id
        /\ a.tried = o.tried \cup {<<o.i, o.t>>}
    BY <2>1, <1>6, Zenon DEF CallRec, Points
  <2>3. Placed(a)
    BY <2>2, <1>2, <1>3, Zenon DEF Placed, ServersIn, Asking
  <2>4. Prior(a) = Prior(o)
    BY <2>2, Zenon DEF Prior, FirstOf
  <2>5. Trying(a)
    BY <2>2, <2>4, <1>0, <1>2, <1>7, Zenon DEF Trying, Asking
  <2>. QED BY <2>2, <2>3, <2>5, <1>0, Zenon DEF Sound, Same, a
<1>8. CASE ~some /\ o.t = First(c)
  <2>1. a = [r EXCEPT !.pc = "load", !.t = Second(c)]
    BY <1>8, <1>6, Zenon DEF Advance, a, r
  <2>2. /\ a \in CallRec /\ a.pc = "load" /\ a.from = NoServer /\ a.st = o.st /\ a.i = o.i /\ a.t = SecondOf(o) /\ a.id = o.id
        /\ a.tried = o.tried \cup {<<o.i, o.t>>} /\ a.t \in Types
    BY <2>1, <1>6, <1>4, <1>2, Preference, Zenon DEF CallRec, Points, Keys
  <2>3. Placed(a)
    BY <2>2, <1>2, <1>3, Zenon DEF Placed, ServersIn, Asking
  <2>4. FirstOf(a) = FirstOf(o) /\ ServersIn(a) = ServersIn(o)
    BY <2>2, Zenon DEF FirstOf, ServersIn
  <2>5. a.tried = Prior(a)
    <3>1. o.tried = (1 .. o.i - 1) \X Types
      BY <1>8, <1>4, <1>2, Zenon DEF Prior
    <3>2. a.t # FirstOf(a)
      BY <2>2, <2>4, Preference, Zenon
    <3>. QED BY <3>1, <3>2, <2>2, <2>4, <1>8, <1>4, Zenon DEF Prior
  <2>6. Trying(a)
    BY <2>2, <2>4, <2>5, <1>2, Zenon DEF Trying, Asking
  <2>. QED BY <2>2, <2>3, <2>6, <1>0, Zenon DEF Sound, Same, a
<1>9. CASE ~some /\ o.t # First(c)
  <2>1. o.t = SecondOf(o)
    BY <1>9, <1>2, <1>4, Preference, Zenon
  <2>2. o.tried \cup {<<o.i, o.t>>} = (1 .. o.i) \X Types
    <3>1. o.tried = ((1 .. o.i - 1) \X Types) \cup {<<o.i, FirstOf(o)>>}
      BY <1>9, <1>4, <1>2, Zenon DEF Prior
    <3>2. o.i \in Nat /\ o.i >= 1 /\ {FirstOf(o), SecondOf(o)} = Types
      BY <1>3, Preference
    <3>. QED BY <3>1, <3>2, <2>1, NextPlace
  <2>3. CASE o.i < Len(ServersOf(c))
    <3>1. a = [r EXCEPT !.pc = "load", !.i = @ + 1, !.t = First(c), !.err = err]
      BY <1>9, <1>6, <2>3, Zenon DEF Advance, a, r
    <3>2. /\ a \in CallRec /\ a.pc = "load" /\ a.from = NoServer /\ a.st = o.st /\ a.i = o.i + 1 /\ a.t = FirstOf(o) /\ a.id = o.id
          /\ a.tried = (1 .. o.i) \X Types /\ a.t \in Types
      <4>1. FirstOf(o) \in Types /\ FirstOf(o) \in Keys /\ o.i + 1 \in Nat
        BY Preference, <1>3 DEF Keys
      <4>. QED BY <4>1, <3>1, <1>6, <1>4, <1>2, <2>2, Zenon DEF CallRec, Points
    <3>3. FirstOf(a) = FirstOf(o) /\ ServersIn(a) = ServersIn(o)
      BY <3>2, Zenon DEF FirstOf, ServersIn
    <3>4. Placed(a)
      BY <3>2, <3>3, <1>2, <1>3, <1>4, <2>3 DEF Placed, Asking
    <3>5. a.tried = Prior(a)
      <4>1. a.i - 1 = o.i
        BY <3>2, <1>3
      <4>. QED BY <4>1, <3>2, <3>3, Zenon DEF Prior
    <3>6. Trying(a)
      BY <3>2, <3>3, <3>5, <1>2, Zenon DEF Trying, Asking
    <3>. QED BY <3>2, <3>4, <3>6, <1>0, Zenon DEF Sound, Same, a
  <2>4. CASE ~(o.i < Len(ServersOf(c)))
    <3>1. a = [r EXCEPT !.pc = "done", !.err = err]
      BY <1>9, <1>6, <2>4, Zenon DEF Advance, a, r
    <3>2. /\ a \in CallRec /\ a.pc = "done" /\ a.from = NoServer /\ a.st = o.st /\ a.i = o.i /\ a.t = o.t /\ a.id = o.id
          /\ a.tried = (1 .. o.i) \X Types /\ a.t \in Types
      BY <3>1, <1>6, <1>2, <2>2, Zenon DEF CallRec, Points
    <3>3. ServersIn(a) = ServersIn(o)
      BY <3>2, Zenon DEF ServersIn
    <3>4. Placed(a)
      BY <3>2, <3>3, <1>2, <1>3, Zenon DEF Placed, Asking
    <3>5. o.i = Len(ServersIn(a))
      BY <3>3, <1>3, <1>4, <2>4
    <3>6. Trying(a)
      BY <3>2, <3>5, Zenon DEF Trying, Asking, All
    <3>. QED BY <3>2, <3>4, <3>6, <1>0, Zenon DEF Sound, Same, a
  <2>. QED BY <2>3, <2>4, Zenon
<1>. QED BY <1>7, <1>8, <1>9, Zenon DEF a

-----------------------------------------------------------------------------
(* The steps of a call.                                                    *)

\* A call goes on to another point of its query.
LEMMA PointMoves ==
    ASSUME CallsSound, NEW c \in Callers, call[c].pc \in {"load"} \cup Asking, ServersIn(call[c]) # <<>>,
           NEW p \in Asking
    PROVE  LET r == [call[c] EXCEPT !.pc = p] IN Sound(c, r) /\ Same(r, call[c]) /\ r.pc # "idle"
<1>. DEFINE o == call[c]
            r == [o EXCEPT !.pc = p]
<1>1. o \in CallRec /\ Placed(o) /\ (c \in Resolvers => Trying(o))
  BY Zenon DEF CallsSound, Sound
<1>2. /\ r \in CallRec /\ r.pc = p /\ r.from = o.from /\ r.st = o.st /\ r.i = o.i /\ r.t = o.t /\ r.id = o.id
      /\ r.tried = o.tried
  BY <1>1, Zenon DEF CallRec, Points, Asking
<1>. HIDE DEF r
<1>3. r.pc # "idle" /\ r.pc # "done" /\ o.pc # "idle"
  BY <1>2, Zenon DEF Asking
<1>4. ServersIn(r) = ServersIn(o) /\ Prior(r) = Prior(o)
  BY <1>2, Zenon DEF ServersIn, Prior, FirstOf
<1>5. Placed(r)
  BY <1>1, <1>2, <1>3, <1>4, Zenon DEF Placed
<1>6. c \in Resolvers => Trying(r)
  BY <1>1, <1>2, <1>3, <1>4, Zenon DEF Trying
<1>7. Fitting(r)
  BY <1>3, Zenon DEF Fitting
<1>. QED BY <1>2, <1>3, <1>5, <1>6, <1>7, Zenon DEF Sound, Same, r

\* The lengths of replies are numbers.
LEMMA LensNat == Lens \subseteq Nat
<1>1. \A a \in Answers : a.len \in Nat
  BY ResolverConstants, Zenon
<1>. QED BY <1>1 DEF Lens

\* An exchange has its reply: the bytes of an answer, with the client's ID.
LEMMA ExchangeDone ==
    ASSUME CallsSound, NEW c \in Exchangers, call[c].pc \in {"load"} \cup Asking, NEW from \in Servers, NEW was,
           NEW n \in Lens, NEW ok \in BOOLEAN
    PROVE  LET r == [call[c] EXCEPT !.pc = "done", !.from = from, !.got = set_msg_id(call[c].id, was, n, ok)]
           IN  Sound(c, r) /\ Same(r, call[c]) /\ r.pc # "idle"
<1>. DEFINE o == call[c]
            r == [o EXCEPT !.pc = "done", !.from = from, !.got = set_msg_id(o.id, was, n, ok)]
<1>0. c \in Callers /\ c \notin Resolvers /\ n \in Nat
  BY ResolverConstants, LensNat, Zenon DEF Callers
<1>1. o \in CallRec /\ Placed(o) /\ o.id \in Nat
  BY <1>0, Zenon DEF CallsSound, Sound, CallRec
<1>2. set_msg_id(o.id, was, n, ok) = [id |-> o.id, len |-> n, ok |-> ok] /\ set_msg_id(o.id, was, n, ok) \in Replies
  BY <1>0, <1>1, Zenon DEF set_msg_id, Replies
<1>3. /\ r \in CallRec /\ r.pc = "done" /\ r.st = o.st /\ r.i = o.i /\ r.id = o.id
      /\ r.got = set_msg_id(o.id, was, n, ok)
  BY <1>1, <1>2, Zenon DEF CallRec, Points
<1>. HIDE DEF r
<1>4. ServersIn(r) = ServersIn(o) /\ o.pc # "idle"
  BY <1>3, Zenon DEF ServersIn, Asking
<1>5. Placed(r)
  BY <1>1, <1>3, <1>4, Zenon DEF Placed, Asking
<1>6. Fitting(r)
  BY <1>2, <1>3 DEF Fitting
<1>. QED BY <1>0, <1>3, <1>5, <1>6, Zenon DEF Sound, Same, r

\* An exchange has failed with one server: it is at the next, or done.
LEMMA NextServerSound ==
    ASSUME CallsSound, NEW c \in Exchangers, call[c].pc \in Asking
    PROVE  LET r == NextServer(c) IN Sound(c, r) /\ Same(r, call[c]) /\ r.pc # "idle"
<1>. DEFINE o == call[c]
            q == [o EXCEPT !.tried = @ \cup {<<o.i, o.t>>}]
            r == NextServer(c)
<1>0. c \in Callers /\ c \notin Resolvers
  BY ResolverConstants, Zenon DEF Callers
<1>1. o \in CallRec /\ Placed(o)
  BY <1>0, Zenon DEF CallsSound, Sound
<1>2. ServersIn(o) # <<>> /\ o.pc # "idle" /\ ServersOf(c) = ServersIn(o)
  BY <1>1, Zenon DEF Placed, Asking, ServersOf, ServersIn
<1>3. o.i \in 1 .. Len(ServersIn(o)) /\ Len(ServersIn(o)) \in Nat
  BY <1>1, <1>2, CallConfig, Zenon DEF Placed
<1>4. o.tried \cup {<<o.i, o.t>>} \in SUBSET (Nat \X Keys)
  <2>1. o.tried \in SUBSET (Nat \X Keys) /\ o.i \in Nat /\ o.t \in Keys
    BY <1>1, Zenon DEF CallRec
  <2>. QED BY <2>1
<1>5. q \in CallRec /\ q.st = o.st /\ q.i = o.i /\ q.id = o.id
  BY <1>1, <1>4, Zenon DEF CallRec
<1>. HIDE DEF q, r
<1>6. CASE o.i < Len(ServersOf(c))
  <2>1. r = [q EXCEPT !.pc = Start(c, o.i + 1), !.i = @ + 1]
    BY <1>5, <1>6, Zenon DEF NextServer, q, r
  <2>2. Start(c, o.i + 1) \in {"ask", "dial"}
    BY Zenon DEF Start
  <2>3. r \in CallRec /\ r.pc \in {"ask", "dial"} /\ r.st = o.st /\ r.i = o.i + 1 /\ r.id = o.id
    <3>1. PICK p \in {"ask", "dial"} : r = [q EXCEPT !.pc = p, !.i = @ + 1]
      BY <2>1, <2>2, Zenon
    <3>2. q.i \in Nat /\ q.i + 1 \in Nat
      BY <1>5, <1>3
    <3>. QED BY <3>1, <3>2, <1>5, Zenon DEF CallRec, Points
  <2>4. ServersIn(r) = ServersIn(o)
    BY <2>3, Zenon DEF ServersIn
  <2>5. Placed(r)
    BY <2>3, <2>4, <1>2, <1>3, <1>6 DEF Placed
  <2>6. Fitting(r)
    BY <2>3, Zenon DEF Fitting
  <2>. QED BY <1>0, <2>3, <2>5, <2>6, Zenon DEF Sound, Same, r
<1>7. CASE ~(o.i < Len(ServersOf(c)))
  <2>1. r = [q EXCEPT !.pc = "done", !.err = TRUE]
    BY <1>5, <1>7, Zenon DEF NextServer, q, r
  <2>2. r \in CallRec /\ r.pc = "done" /\ r.err = TRUE /\ r.st = o.st /\ r.i = o.i /\ r.id = o.id
    BY <2>1, <1>5, Zenon DEF CallRec, Points
  <2>3. ServersIn(r) = ServersIn(o)
    BY <2>2, Zenon DEF ServersIn
  <2>4. Placed(r)
    BY <2>2, <2>3, <1>2, <1>3, Zenon DEF Placed, Asking
  <2>5. Fitting(r)
    BY <2>2, Zenon DEF Fitting
  <2>. QED BY <1>0, <2>2, <2>4, <2>5, Zenon DEF Sound, Same, r
<1>. QED BY <1>6, <1>7, Zenon

\* What a step of a call does: its record stays sound, and the cache gets an
\* answer under the configuration of the call, or loses one.
Goes(c) ==
    /\ call[c].pc # "idle"
    /\ \E r : Sound(c, r) /\ Same(r, call[c]) /\ r.pc # "idle" /\ call' = [call EXCEPT ![c] = r]
    /\ CacheTyped'
    /\ \A k \in Types : cache'[k] # NoItem => cache'[k] = cache[k] \/ cache'[k].ver = call[c].st.ver
    /\ Quiet

\* The cache as it is.
LEMMA CacheAsItIs ==
    ASSUME CacheTyped, UNCHANGED cache
    PROVE  CacheTyped' /\ \A k \in Types : cache'[k] = cache[k]
BY Zenon DEF CacheTyped, Item

\* An answer is stored, or not.
LEMMA StoredTyped ==
    ASSUME Typed, CallsSound, NEW c \in Callers, NEW k \in Keys, NEW a \in Answers, NEW from \in Servers,
           cache' = Stored(c, k, a, from)
    PROVE  /\ CacheTyped'
           /\ \A j \in Types : cache'[j] = cache[j] \/ cache'[j].ver = call[c].st.ver
<1>1. call[c].id \in Nat /\ call[c].st.cfg.ttl \in Nat /\ call[c].st.ver \in Nat
  BY Zenon DEF CallsSound, CallRec, Settings, Config
<1>2. a.some \in BOOLEAN /\ a.rr \in Nat \cup {NoTtl} /\ a.len \in Nat /\ a.len \in Lens
  BY ResolverConstants, Zenon DEF Lens
<1>3. now \in 0 .. MaxNow /\ CacheTyped
  BY Zenon DEF Typed, ControlTyped
<1>. DEFINE e == [some |-> a.some, rr |-> a.rr, ts |-> now, id |-> call[c].id, len |-> a.len,
                  ttl |-> call[c].st.cfg.ttl, from |-> from, ver |-> call[c].st.ver]
<1>4. e \in Item /\ e.len = a.len /\ e.ver = call[c].st.ver
  BY <1>1, <1>2, <1>3, Zenon DEF Item
<1>5. cache' = cache \/ (k \in Types /\ cache' = [cache EXCEPT ![k] = e])
  BY Zenon DEF Stored
<1>. HIDE DEF e
<1>6. CASE cache' = cache
  BY <1>6, <1>3, CacheAsItIs, Zenon
<1>7. CASE k \in Types /\ cache' = [cache EXCEPT ![k] = e]
  <2>1. cache' \in [Types -> Item \cup {NoItem}]
    BY <1>7, <1>3, <1>4, Zenon DEF CacheTyped
  <2>2. \A j \in Types : cache'[j] = cache[j] \/ cache'[j] = e
    BY <1>7, <1>3, Zenon DEF CacheTyped
  <2>. QED BY <2>1, <2>2, <1>2, <1>3, <1>4, Zenon DEF CacheTyped
<1>. QED BY <1>5, <1>6, <1>7, Zenon

\* A look into the cache.
LEMMA LoadGoes ==
    ASSUME Typed, CallsSound, NEW c \in Callers, Load(c)
    PROVE  Goes(c)
<1>. DEFINE o == call[c]
            k == o.t
<1>0. o.pc = "load" /\ o.pc # "idle" /\ Quiet /\ CacheTyped
  BY Zenon DEF Load, Typed
<1>1. o \in CallRec /\ Sound(c, o) /\ Placed(o) /\ k \in Keys
  BY Zenon DEF CallsSound, Sound, CallRec
<1>2. CASE k \in Types /\ Live(cache[k])
  <2>0. cache[k] # NoItem /\ cache[k] \in Item
    BY <1>0, <1>2, Zenon DEF Live, CacheTyped
  <2>1. cache[k].some \in BOOLEAN /\ cache[k].from \in Servers /\ cache[k].len \in Lens
    BY <1>0, <1>2, <2>0, Zenon DEF Item, CacheTyped
  <2>2. CacheTyped' /\ \A j \in Types : cache'[j] = cache[j]
    BY <1>0, <1>2, CacheAsItIs, Zenon DEF Load
  <2>3. CASE c \in Resolvers
    <3>. DEFINE r == Advance(c, cache[k].some, FALSE, cache[k].from)
    <3>1. Sound(c, r) /\ Same(r, o) /\ r.pc # "idle"
      BY <2>1, <2>3, <1>0, AdvanceSound, Zenon
    <3>2. call' = [call EXCEPT ![c] = r]
      BY <1>2, <2>3, Zenon DEF Load
    <3>. HIDE DEF r
    <3>. QED BY <3>1, <3>2, <2>2, <1>0, Zenon DEF Goes
  <2>4. CASE c \notin Resolvers
    <3>. DEFINE r == [o EXCEPT !.pc = "done", !.from = cache[k].from,
                               !.got = set_msg_id(o.id, cache[k].id, cache[k].len, TRUE)]
    <3>0. c \in Exchangers
      BY <2>4, Zenon DEF Callers
    <3>1. Sound(c, r) /\ Same(r, o) /\ r.pc # "idle"
      BY <2>1, <3>0, <1>0, ExchangeDone, Zenon
    <3>2. call' = [call EXCEPT ![c] = r]
      BY <1>2, <2>4, Zenon DEF Load
    <3>. HIDE DEF r
    <3>. QED BY <3>1, <3>2, <2>2, <1>0, Zenon DEF Goes
  <2>. QED BY <2>3, <2>4, Zenon
<1>3. CASE ~(k \in Types /\ Live(cache[k]))
  <2>1. CacheTyped' /\ \A j \in Types : cache'[j] # NoItem => cache'[j] = cache[j]
    <3>1. cache' = IF k \in Types THEN [cache EXCEPT ![k] = NoItem] ELSE cache
      BY <1>3, Zenon DEF Load
    <3>2. CASE k \in Types
      BY <3>1, <3>2, <1>0, Zenon DEF CacheTyped
    <3>3. CASE k \notin Types
      BY <3>1, <3>3, <1>0, CacheAsItIs, Zenon
    <3>. QED BY <3>2, <3>3, Zenon
  <2>2. ServersOf(c) = ServersIn(o)
    BY Zenon DEF ServersOf, ServersIn
  <2>3. CASE ServersIn(o) = <<>>
    <3>. DEFINE r == [o EXCEPT !.pc = "done", !.err = TRUE]
    <3>1. call' = [call EXCEPT ![c] = r]
      BY <1>3, <2>2, <2>3, Zenon DEF Load
    <3>2. r \in CallRec /\ r.pc = "done" /\ r.err = TRUE /\ r.st = o.st /\ r.id = o.id
      BY <1>1, Zenon DEF CallRec, Points
    <3>. HIDE DEF r
    <3>3. c \notin Resolvers
      BY <1>0, <1>1, <2>3, Zenon DEF Sound, Trying
    <3>4. Placed(r) /\ Fitting(r)
      BY <3>2, <2>3, Zenon DEF Placed, Fitting, ServersIn, Asking
    <3>5. Sound(c, r) /\ Same(r, o) /\ r.pc # "idle"
      BY <3>2, <3>3, <3>4, Zenon DEF Sound, Same
    <3>. QED BY <3>1, <3>5, <2>1, <1>0, Zenon DEF Goes
  <2>4. CASE ServersIn(o) # <<>>
    <3>. DEFINE p == Start(c, o.i)
                r == [o EXCEPT !.pc = p]
    <3>1. p \in Asking
      BY Zenon DEF Start, Asking
    <3>2. call' = [call EXCEPT ![c] = r]
      BY <1>3, <2>2, <2>4, Zenon DEF Load
    <3>. HIDE DEF p
    <3>3. Sound(c, r) /\ Same(r, o) /\ r.pc # "idle"
      BY <3>1, <2>4, <1>0, PointMoves, Zenon
    <3>. HIDE DEF r
    <3>. QED BY <3>2, <3>3, <2>1, <1>0, Zenon DEF Goes
  <2>. QED BY <2>3, <2>4, Zenon
<1>. QED BY <1>2, <1>3, Zenon

\* A connection, or a TLS session on it.
LEMMA DialGoes ==
    ASSUME Typed, CallsSound, NEW c \in Callers, dial_tcp_via(c) \/ exchange_tls(c)
    PROVE  Goes(c)
<1>. DEFINE o == call[c]
<1>1. o.pc \in Asking /\ o.pc # "idle" /\ Quiet /\ UNCHANGED cache
  BY Zenon DEF dial_tcp_via, exchange_tls, Asking
<1>2. PICK p \in Asking : call' = [call EXCEPT ![c].pc = p]
  BY Zenon DEF dial_tcp_via, exchange_tls, Asking
<1>3. o \in CallRec /\ Placed(o)
  BY Zenon DEF CallsSound, Sound
<1>. DEFINE r == [o EXCEPT !.pc = p]
<1>4. call' = [call EXCEPT ![c] = r]
  BY <1>2, Zenon
<1>5. Sound(c, r) /\ Same(r, o) /\ r.pc # "idle"
  BY <1>1, <1>3, PointMoves, Zenon DEF Placed
<1>6. CacheTyped' /\ \A j \in Types : cache'[j] = cache[j]
  BY <1>1, CacheAsItIs, Zenon DEF Typed
<1>. HIDE DEF r
<1>. QED BY <1>1, <1>4, <1>5, <1>6, Zenon DEF Goes

\* An attempt fails.
LEMMA FailedGoes ==
    ASSUME Typed, CallsSound, NEW c \in Callers, Failed(c)
    PROVE  Goes(c)
<1>. DEFINE o == call[c]
            r == IF c \in Resolvers THEN Advance(c, FALSE, TRUE, NoServer) ELSE NextServer(c)
<1>1. o.pc \in Asking /\ o.pc # "idle" /\ Quiet /\ UNCHANGED cache /\ call' = [call EXCEPT ![c] = r]
  BY Zenon DEF Failed, Asking
<1>2. Sound(c, r) /\ Same(r, o) /\ r.pc # "idle"
  <2>1. CASE c \in Resolvers
    BY <2>1, <1>1, AdvanceSound, Zenon
  <2>2. CASE c \notin Resolvers
    BY <2>2, <1>1, NextServerSound, Zenon DEF Callers
  <2>. QED BY <2>1, <2>2, Zenon
<1>3. CacheTyped' /\ \A j \in Types : cache'[j] = cache[j]
  BY <1>1, CacheAsItIs, Zenon DEF Typed
<1>. HIDE DEF r
<1>. QED BY <1>1, <1>2, <1>3, Zenon DEF Goes

\* The server of a call that asks is one of its configuration's.
LEMMA ServerTyped ==
    ASSUME CallsSound, NEW c \in Callers, call[c].pc = "ask"
    PROVE  Server(c) \in Servers
<1>1. call[c] \in CallRec /\ Placed(call[c])
  BY Zenon DEF CallsSound, Sound
<1>2. ServersIn(call[c]) # <<>> /\ call[c].i \in 1 .. Len(ServersIn(call[c]))
  BY <1>1, Zenon DEF Placed, Asking
<1>3. ServersIn(call[c]) \in Seq(Servers)
  BY <1>1, CallConfig, Zenon
<1>. QED BY <1>2, <1>3 DEF Server, ServersOf, ServersIn

\* A server answers.
LEMMA AnsweredGoes ==
    ASSUME Typed, CallsSound, NEW c \in Callers, Answered(c) \/ AnsweredGarbled(c)
    PROVE  Goes(c)
<1>. DEFINE o == call[c]
            s == Server(c)
<1>0. o.pc = "ask" /\ o.pc # "idle" /\ o.pc \in Asking /\ Quiet
  BY Zenon DEF Answered, AnsweredGarbled, Asking
<1>1. s \in Servers
  BY <1>0, ServerTyped, Zenon
<1>2. o \in CallRec /\ o.t \in Keys
  BY Zenon DEF CallsSound, CallRec
<1>. HIDE DEF s
<1>3. CASE Answered(c)
  <2>1. PICK a \in Answers :
          /\ cache' = Stored(c, o.t, a, s)
          /\ call' = [call EXCEPT ![c] =
                        IF c \in Resolvers THEN Advance(c, a.some, FALSE, s)
                        ELSE [@ EXCEPT !.pc = "done", !.from = s, !.got = set_msg_id(o.id, o.id, a.len, TRUE)]]
    BY <1>3, Zenon DEF Answered, s
  <2>2. CacheTyped' /\ \A j \in Types : cache'[j] = cache[j] \/ cache'[j].ver = o.st.ver
    BY <2>1, <1>1, <1>2, StoredTyped, Zenon
  <2>3. a.some \in BOOLEAN /\ a.len \in Lens
    BY ResolverConstants, Zenon DEF Lens
  <2>. DEFINE r == IF c \in Resolvers THEN Advance(c, a.some, FALSE, s)
                   ELSE [o EXCEPT !.pc = "done", !.from = s, !.got = set_msg_id(o.id, o.id, a.len, TRUE)]
  <2>4. call' = [call EXCEPT ![c] = r]
    BY <2>1, Zenon
  <2>5. Sound(c, r) /\ Same(r, o) /\ r.pc # "idle"
    <3>1. CASE c \in Resolvers
      BY <3>1, <2>3, <1>0, <1>1, AdvanceSound, Zenon
    <3>2. CASE c \notin Resolvers
      BY <3>2, <2>3, <1>0, <1>1, ExchangeDone, Zenon DEF Callers
    <3>. QED BY <3>1, <3>2, Zenon
  <2>. HIDE DEF r
  <2>. QED BY <2>2, <2>4, <2>5, <1>0, Zenon DEF Goes
<1>4. CASE AnsweredGarbled(c)
  <2>. DEFINE r == [o EXCEPT !.pc = "done", !.from = s, !.got = set_msg_id(o.id, o.id, 40, FALSE)]
  <2>1. c \in Exchangers /\ UNCHANGED cache
    BY <1>4, Zenon DEF AnsweredGarbled
  <2>2. call' = [call EXCEPT ![c] = r]
    BY <1>4, Zenon DEF AnsweredGarbled, s
  <2>3. Sound(c, r) /\ Same(r, o) /\ r.pc # "idle"
    BY <2>1, <1>0, <1>1, ExchangeDone, Zenon DEF Lens
  <2>4. CacheTyped' /\ \A j \in Types : cache'[j] = cache[j]
    BY <2>1, CacheAsItIs, Zenon DEF Typed
  <2>. HIDE DEF r
  <2>. QED BY <2>2, <2>3, <2>4, <1>0, Zenon DEF Goes
<1>. QED BY <1>3, <1>4, Zenon

\* What a call does by itself.
LEMMA RunsGoes ==
    ASSUME Typed, CallsSound, NEW c \in Callers, Runs(c)
    PROVE  Goes(c)
<1>1. CASE Load(c)
  BY <1>1, LoadGoes, Zenon
<1>2. CASE dial_tcp_via(c) \/ exchange_tls(c)
  BY <1>2, DialGoes, Zenon
<1>3. CASE TimedOut(c) \/ Refused(c)
  BY <1>3, FailedGoes, Zenon DEF TimedOut, Refused
<1>4. CASE Answered(c) \/ AnsweredGarbled(c)
  BY <1>4, AnsweredGoes, Zenon
<1>. QED BY <1>1, <1>2, <1>3, <1>4, Zenon DEF Runs

-----------------------------------------------------------------------------
(* The invariant is kept.                                                  *)

\* The step of a call keeps the invariant: its configuration is as well known
\* as before, so what it stores is, and its client's ID is in it still.
LEMMA GoesKeeps ==
    ASSUME IInv, NEW c \in Callers, Goes(c), UNCHANGED client
    PROVE  IInv'
<1>0. PICK r : Sound(c, r) /\ Same(r, call[c]) /\ r.pc # "idle" /\ call' = [call EXCEPT ![c] = r]
  BY Zenon DEF Goes
<1>1. CallsSound'
  BY <1>0, CallStep, Zenon DEF IInv
<1>2. Typed'
  <2>1. ControlTyped' /\ FileTyped'
    BY Zenon DEF IInv, Typed, ControlTyped, FileTyped, Goes, Quiet
  <2>. QED BY <2>1, Zenon DEF Goes, Typed
<1>3. call \in [Callers -> CallRec] /\ call[c].pc # "idle"
  BY Zenon DEF IInv, CallsSound, Goes
<1>4. \A d \in Callers : call'[d].st = call[d].st /\ call'[d].id = call[d].id
  BY <1>0, <1>3, Zenon DEF Same
<1>5. Fresh'
  <2>1. UNCHANGED <<st, watch, old>>
    BY Zenon DEF Goes, Quiet
  <2>. SUFFICES ASSUME watch.pc # "clear"
                PROVE  /\ \A k \in Types : cache'[k] # NoItem => Known(cache'[k].ver)
                       /\ \A d \in Callers : call'[d].pc # "idle" => Known(call'[d].st.ver)
    BY <2>1, Zenon DEF Fresh, Known
  <2>2. Known(call[c].st.ver)
    BY <1>3, Zenon DEF IInv, Fresh
  <2>3. ASSUME NEW k \in Types, cache'[k] # NoItem PROVE Known(cache'[k].ver)
    BY <2>2, <2>3, Zenon DEF Goes, IInv, Fresh
  <2>4. ASSUME NEW d \in Callers, call'[d].pc # "idle" PROVE Known(call'[d].st.ver)
    <3>1. CASE d = c
      BY <3>1, <2>2, <1>4, Zenon
    <3>2. CASE d # c
      BY <3>2, <2>4, <1>0, <1>3, Zenon DEF IInv, Fresh
    <3>. QED BY <3>1, <3>2, Zenon
  <2>. QED BY <2>3, <2>4, Zenon
<1>6. ClientsSound'
  <2>1. \A x \in Exchangers : call'[x].id = call[x].id
    BY <1>4, Zenon DEF Callers
  <2>. QED BY <2>1, Zenon DEF IInv, ClientsSound, Fits
<1>. QED BY <1>1, <1>2, <1>5, <1>6, Zenon DEF IInv

\* A call that is not there.
LEMMA IdleSound ==
    /\ Idle \in CallRec /\ Idle.pc = "idle" /\ Idle.tried = {} /\ Idle.from = NoServer /\ Idle.err = FALSE
    /\ \A c : Sound(c, Idle)
<1>1. Nothing \in Config
  BY DEF Nothing, Config
<1>2. Idle \in CallRec
  BY <1>1, Zenon DEF Idle, CallRec, Points, NoReply, Replies, Settings, Keys, Types
<1>3. Idle.pc = "idle" /\ Idle.tried = {} /\ Idle.from = NoServer /\ Idle.err = FALSE /\ Idle.t = "A"
  BY Zenon DEF Idle
<1>4. Placed(Idle) /\ Trying(Idle) /\ Fitting(Idle)
  BY <1>3, Zenon DEF Placed, Trying, Fitting, Asking, Types
<1>. QED BY <1>2, <1>3, <1>4, Zenon DEF Sound

\* The record of a call that begins.
LEMMA BeginsSound ==
    ASSUME ControlTyped, NEW c, NEW r \in CallRec, r.st = st, r.i = 1, r.tried = {}, r.from = NoServer,
           r.pc \in {"load", "done"},
           c \in Resolvers => r.t = (IF st.cfg.prefer = "ipv6" THEN "AAAA" ELSE "A"),
           c \in Resolvers => (r.pc = "load" <=> st.cfg.servers # <<>>),
           c \in Exchangers => r.pc = "load"
    PROVE  Sound(c, r)
<1>3. ServersIn(r) = st.cfg.servers /\ ServersIn(r) \in Seq(Servers)
      /\ (ServersIn(r) # <<>> => Len(ServersIn(r)) \in Nat /\ Len(ServersIn(r)) >= 1)
  BY CallConfig, Zenon DEF ServersIn
<1>4. Placed(r)
  BY <1>3 DEF Placed, Asking
<1>5. ASSUME c \in Resolvers PROVE Trying(r)
  <2>1. r.t = FirstOf(r) /\ r.t \in Types
    BY <1>5, Zenon DEF FirstOf, Types
  <2>2. Prior(r) = {}
    <3>1. 1 .. r.i - 1 = {}
      OBVIOUS
    <3>2. Prior(r) = {} \X Types
      BY <2>1, <3>1, Zenon DEF Prior
    <3>. QED BY <3>2, Zenon
  <2>. QED BY <2>1, <2>2, <1>3, <1>5, Zenon DEF Trying, Asking
<1>6. c \in Exchangers => Fitting(r)
  BY Zenon DEF Fitting
<1>. QED BY <1>4, <1>5, <1>6, Zenon DEF Sound

\* A call begins: its configuration is the present one.
LEMMA BeginKeeps ==
    ASSUME IInv, NEW c \in Callers, NEW r, Sound(c, r), r.st = st, call' = [call EXCEPT ![c] = r],
           calls' = [calls EXCEPT ![c] = @ + 1], UNCHANGED <<st, stopped, cache, now, file, watch, old>>
    PROVE  Typed' /\ CallsSound' /\ Fresh'
<1>1. CallsSound'
  BY CallStep, Zenon DEF IInv
<1>2. Typed'
  BY DEF IInv, Typed, ControlTyped, FileTyped, CacheTyped, Item
<1>3. Fresh'
  <2>. SUFFICES ASSUME watch.pc # "clear"
                PROVE  /\ \A k \in Types : cache[k] # NoItem => Known(cache[k].ver)
                       /\ \A d \in Callers : call'[d].pc # "idle" => Known(call'[d].st.ver)
    BY Zenon DEF Fresh, Known
  <2>1. call \in [Callers -> CallRec]
    BY Zenon DEF IInv, CallsSound
  <2>2. ASSUME NEW d \in Callers, call'[d].pc # "idle" PROVE Known(call'[d].st.ver)
    <3>1. CASE d = c
      BY <3>1, <2>1, Zenon DEF Known
    <3>2. CASE d # c
      BY <3>2, <2>1, <2>2, Zenon DEF IInv, Fresh
    <3>. QED BY <3>1, <3>2, Zenon
  <2>. QED BY <2>2, Zenon DEF IInv, Fresh
<1>. QED BY <1>1, <1>2, <1>3, Zenon

\* resolve begins.
LEMMA ResolveBegins ==
    ASSUME IInv, NEW c \in Callers, Begin(c), UNCHANGED client
    PROVE  IInv'
<1>1. PICK failed \in BOOLEAN :
        call' = [call EXCEPT ![c] =
                      [Idle EXCEPT !.st = st, !.i = 1, !.err = failed,
                         !.t = IF st.cfg.prefer = "ipv6" THEN "AAAA" ELSE "A",
                         !.pc = IF st.cfg.servers = <<>> THEN "done" ELSE "load"]]
  BY Zenon DEF Begin
<1>. DEFINE t == IF st.cfg.prefer = "ipv6" THEN "AAAA" ELSE "A"
            p == IF st.cfg.servers = <<>> THEN "done" ELSE "load"
            r == [Idle EXCEPT !.st = st, !.i = 1, !.err = failed, !.t = t, !.pc = p]
<1>2. call' = [call EXCEPT ![c] = r]
  BY <1>1, Zenon
<1>3. c \in Resolvers /\ c \notin Exchangers /\ t \in Keys /\ p \in {"load", "done"} /\ ControlTyped
  BY ResolverConstants, Zenon DEF Begin, Keys, Types, IInv, Typed
<1>4. p = "load" <=> st.cfg.servers # <<>>
  BY Zenon
<1>. HIDE DEF p
<1>5. Sound(c, r) /\ r.st = st
  <2>1. st \in Settings
    BY <1>3, Zenon DEF ControlTyped
  <2>2. /\ r \in CallRec /\ r.st = st /\ r.i = 1 /\ r.tried = {} /\ r.from = NoServer
        /\ r.pc = p /\ r.t = t
    <3>. HIDE DEF t
    <3>. QED BY <2>1, <1>3, IdleSound, Zenon DEF CallRec, Points
  <2>. HIDE DEF r
  <2>. QED BY <2>2, <1>3, <1>4, BeginsSound, Zenon
<1>. HIDE DEF r
<1>6. Typed' /\ CallsSound' /\ Fresh'
  BY <1>2, <1>5, BeginKeeps, Zenon DEF Begin
<1>7. \A x \in Exchangers : call'[x] = call[x]
  BY <1>2, <1>3, Zenon DEF IInv, CallsSound, Callers
<1>8. ClientsSound'
  BY <1>7, Zenon DEF IInv, ClientsSound, Fits
<1>. QED BY <1>6, <1>8, Zenon DEF IInv

\* A call is over.
LEMMA EndKeeps ==
    ASSUME IInv, NEW c \in Callers, Return(c) \/ Cancelled(c)
    PROVE  Typed' /\ CallsSound' /\ Fresh' /\ call' = [call EXCEPT ![c] = Idle]
<1>1. call' = [call EXCEPT ![c] = Idle] /\ UNCHANGED cache /\ Quiet
  BY Zenon DEF Return, Cancelled
<1>2. CallsSound'
  BY <1>1, CallStep, IdleSound, Zenon DEF IInv
<1>3. Typed'
  BY <1>1, Zenon DEF IInv, Typed, ControlTyped, FileTyped, CacheTyped, Item, Quiet
<1>4. Fresh'
  <2>1. \A d \in Callers : call'[d] = call[d] \/ call'[d].pc = "idle"
    BY <1>1, IdleSound, Zenon DEF IInv, CallsSound
  <2>2. UNCHANGED <<st, watch, old, cache>>
    BY <1>1, Zenon DEF Quiet
  <2>. QED BY <2>1, <2>2, Zenon DEF IInv, Fresh, Known
<1>. QED BY <1>1, <1>2, <1>3, <1>4, Zenon

\* A resolve is over.
LEMMA ResolveEnds ==
    ASSUME IInv, NEW c \in Resolvers, Return(c) \/ Cancelled(c), UNCHANGED client
    PROVE  IInv'
<1>1. c \in Callers /\ c \notin Exchangers
  BY ResolverConstants, Zenon DEF Callers
<1>2. Typed' /\ CallsSound' /\ Fresh' /\ call' = [call EXCEPT ![c] = Idle]
  BY <1>1, EndKeeps, Zenon
<1>3. \A x \in Exchangers : call'[x] = call[x]
  BY <1>1, <1>2, Zenon DEF IInv, CallsSound, Callers
<1>4. ClientsSound'
  BY <1>3, Zenon DEF IInv, ClientsSound, Fits
<1>. QED BY <1>2, <1>4, Zenon DEF IInv

-----------------------------------------------------------------------------
(* Clients.                                                                *)

\* A client's UDP size is between that of a plain DNS message and the largest.
LEMMA LimitBounds ==
    ASSUME NEW q \in Asked
    PROVE  Limit(q) \in Nat /\ Limit(q) >= 512 /\ q.id \in Nat
<1>1. {q.id, q.size} \subseteq Nat
  BY DnsProxyConstants, Zenon DEF Asked
<1>2. q.id \in Nat /\ q.size \in Nat
  BY <1>1, Zenon
<1>. QED BY <1>2 DEF Limit, udp_buffer_size

\* What is written for a client fits it.
LEMMA WrittenFits ==
    ASSUME NEW q \in Asked, NEW err \in BOOLEAN, NEW got \in Replies, ~err => got.id = q.id /\ got.len \in Lens
    PROVE  Written(q, err, got) \in Outs /\ Fits(q, Written(q, err, got))
<1>0. Limit(q) \in Nat /\ Limit(q) >= 512 /\ q.id \in Nat /\ got.len \in Nat /\ got.id \in Nat /\ got.ok \in BOOLEAN
  BY LimitBounds DEF Replies
<1>1. ASSUME NEW w \in {Failure(q), Closed} PROVE w \in Outs /\ Fits(q, w)
  <2>1. Closed \in Outs /\ Closed.is # "reply"
    BY Zenon DEF Closed, Outs
  <2>2. Status(500) \in Outs /\ Status(500).is # "reply"
    BY DEF Status, Outs
  <2>3. w = Closed \/ w = Status(500)
    BY <1>1, Zenon DEF Failure
  <2>. QED BY <2>1, <2>2, <2>3 DEF Fits
<1>2. ASSUME NEW g \in Replies, NEW tc \in BOOLEAN, g.id = q.id, q.mode = "udp" => g.len <= Limit(q),
             tc => q.mode = "udp" /\ \E a \in Answers : a.len > Limit(q)
      PROVE  Reply(g, tc) \in Outs /\ Fits(q, Reply(g, tc))
  <2>. DEFINE w == [is |-> "reply", id |-> g.id, len |-> g.len, tc |-> tc, ok |-> g.ok]
  <2>1. g.id \in Nat /\ g.len \in Nat /\ g.ok \in BOOLEAN
    BY Zenon DEF Replies
  <2>2. w \in [is : {"reply"}, id : Nat, len : Nat, tc : BOOLEAN, ok : BOOLEAN]
    BY <2>1, Zenon
  <2>3. w.id = g.id /\ w.len = g.len /\ w.tc = tc
    BY Zenon
  <2>4. Reply(g, tc) = w
    BY Zenon DEF Reply
  <2>. HIDE DEF w
  <2>. QED BY <2>2, <2>3, <2>4, <1>2, Zenon DEF Outs, Fits
<1>3. CASE err
  <2>1. Written(q, err, got) = Failure(q)
    BY <1>3, Zenon DEF Written
  <2>. QED BY <2>1, <1>1, Zenon
<1>4. CASE ~err /\ q.mode = "https"
  <2>1. Written(q, err, got) = Reply(got, FALSE)
    BY <1>4, Zenon DEF Written
  <2>. QED BY <2>1, <1>2, <1>4, Zenon
<1>5. CASE ~err /\ q.mode # "https" /\ ~got.ok
  <2>1. Written(q, err, got) = Closed
    BY <1>5, Zenon DEF Written
  <2>. QED BY <2>1, <1>1, Zenon
<1>6. CASE ~err /\ q.mode # "https" /\ got.ok
  <2>0. Written(q, err, got) = Framed(q, got)
    BY <1>6, Zenon DEF Written
  <2>1. CASE q.mode = "udp" /\ got.len > Limit(q)
    <3>. DEFINE g == truncated_response(q, got)
    <3>1. g \in Replies /\ g.id = q.id /\ g.len = 40
      BY <1>0, Zenon DEF Replies, truncated_response
    <3>2. Framed(q, got) = Reply(g, TRUE)
      BY <2>1, Zenon DEF Framed
    <3>3. \E a \in Answers : a.len > Limit(q)
      BY <1>0, <1>6, <2>1 DEF Lens
    <3>4. 40 <= Limit(q)
      BY <1>0
    <3>. HIDE DEF g
    <3>. QED BY <2>0, <2>1, <3>1, <3>2, <3>3, <3>4, <1>2, Zenon
  <2>2. CASE ~(q.mode = "udp" /\ got.len > Limit(q))
    <3>1. Framed(q, got) = Closed \/ Framed(q, got) = Reply(got, FALSE)
      BY <2>2, Zenon DEF Framed
    <3>2. q.mode = "udp" => got.len <= Limit(q)
      BY <1>0, <2>2
    <3>. QED BY <2>0, <3>1, <3>2, <1>1, <1>2, <1>6, Zenon
  <2>. QED BY <2>1, <2>2, Zenon
<1>. QED BY <1>3, <1>4, <1>5, <1>6, Zenon

\* A client's task is over, with what it was given.
LEMMA ClientOver ==
    ASSUME IInv, NEW x \in Exchangers, NEW o \in Outs, Fits(client[x].req, o),
           client' = [client EXCEPT ![x].at = "over", ![x].out = o],
           \A y \in Exchangers : y # x => call'[y] = call[y]
    PROVE  ClientsSound'
<1>0. client \in [Exchangers -> ClientRec]
  BY Zenon DEF IInv, ClientsSound
<1>1. client' \in [Exchangers -> ClientRec] /\ client'[x].req = client[x].req
  BY <1>0, Zenon DEF ClientRec
<1>2. client'[x].at = "over" /\ client'[x].out = o /\ \A y \in Exchangers : y # x => client'[y] = client[y]
  BY <1>0, Zenon DEF ClientRec
<1>3. ASSUME NEW y \in Exchangers
      PROVE  (client'[y].at = "asking" => call'[y].id = client'[y].req.id) /\ Fits(client'[y].req, client'[y].out)
  <2>1. CASE y = x
    BY <2>1, <1>1, <1>2, Zenon
  <2>2. CASE y # x
    <3>1. client'[y] = client[y] /\ call'[y] = call[y]
      BY <2>2, <1>2, Zenon
    <3>2. (client[y].at = "asking" => call[y].id = client[y].req.id) /\ Fits(client[y].req, client[y].out)
      BY Zenon DEF IInv, ClientsSound
    <3>. QED BY <3>1, <3>2, Zenon
  <2>. QED BY <2>1, <2>2, Zenon
<1>. QED BY <1>1, <1>3, Zenon DEF ClientsSound, Fits

\* A client's task reads its request.
LEMMA ReadsKeeps ==
    ASSUME IInv, NEW x \in Exchangers, Reads(x)
    PROVE  IInv'
<1>. DEFINE q == client[x].req
            r == Reading(q)
<1>0. x \in Callers /\ x \notin Resolvers /\ client \in [Exchangers -> ClientRec] /\ q \in Asked
  BY ResolverConstants, Zenon DEF Callers, IInv, ClientsSound, ClientRec
<1>1. q.asks \in Types \cup {"several", "nothing"} /\ q.id \in Nat
  BY <1>0, DnsProxyConstants, LimitBounds, Zenon DEF Asked
<1>2. CASE r = Query /\ q.asks # "nothing"
  <2>1. BeginExchange(x, q.asks, q.id) /\ client' = [client EXCEPT ![x].at = "asking"]
    BY <1>2, Zenon DEF Reads
  <2>. DEFINE n == [Idle EXCEPT !.st = st, !.i = 1, !.t = q.asks, !.id = q.id, !.pc = "load"]
  <2>2. call' = [call EXCEPT ![x] = n]
    BY <2>1, Zenon DEF BeginExchange
  <2>3. ControlTyped /\ st \in Settings /\ q.asks \in Keys
    BY <1>1, <1>2, Zenon DEF IInv, Typed, ControlTyped, Keys
  <2>4. n \in CallRec /\ n.st = st /\ n.i = 1 /\ n.tried = {} /\ n.from = NoServer /\ n.pc = "load" /\ n.id = q.id
    BY <2>3, <1>1, IdleSound, Zenon DEF CallRec, Points
  <2>. HIDE DEF n
  <2>5. Sound(x, n)
    BY <2>3, <2>4, <1>0, BeginsSound, Zenon
  <2>6. Typed' /\ CallsSound' /\ Fresh'
    BY <2>1, <2>2, <2>4, <2>5, <1>0, BeginKeeps, Zenon DEF BeginExchange
  <2>7. client' \in [Exchangers -> ClientRec] /\ \A y \in Exchangers : client'[y].req = client[y].req /\ client'[y].out = client[y].out
    BY <2>1, <1>0, Zenon DEF ClientRec
  <2>8. ASSUME NEW y \in Exchangers, client'[y].at = "asking" PROVE call'[y].id = client'[y].req.id
    <3>1. call \in [Callers -> CallRec] /\ y \in Callers
      BY Zenon DEF IInv, CallsSound, Callers
    <3>2. CASE y = x
      BY <3>1, <3>2, <2>2, <2>4, <2>7, Zenon
    <3>3. CASE y # x
      <4>1. client'[y] = client[y] /\ call'[y] = call[y]
        BY <3>1, <3>3, <2>1, <2>2, <1>0, Zenon
      <4>. QED BY <4>1, <2>8, Zenon DEF IInv, ClientsSound
    <3>. QED BY <3>2, <3>3, Zenon
  <2>9. \A y \in Exchangers : Fits(client'[y].req, client'[y].out)
    BY <2>7, Zenon DEF IInv, ClientsSound
  <2>10. ClientsSound'
    BY <2>7, <2>8, <2>9, Zenon DEF ClientsSound, Fits
  <2>. QED BY <2>6, <2>10, Zenon DEF IInv
<1>3. CASE ~(r = Query /\ q.asks # "nothing")
  <2>. DEFINE o == IF r = Query THEN Failure(q) ELSE r
  <2>1. /\ client' = [client EXCEPT ![x].at = "over", ![x].out = o]
        /\ calls' = [calls EXCEPT ![x] = @ + 1]
        /\ UNCHANGED <<st, stopped, cache, now, file, watch, call, old>>
    BY <1>3, Zenon DEF Reads
  <2>2. o \in Outs /\ o.is # "reply"
    <3>1. r = Query \/ r = Closed \/ r \in {Status(400), Status(405), Status(415)}
      <4>1. q.mode \in {"udp", "tcp", "tls", "https"} /\ q.method \in {"GET", "POST", "PUT"}
        BY <1>0, DnsProxyConstants, Zenon DEF Asked
      <4>. QED BY <4>1 DEF Reading, serve_udp, serve_stream, serve_doh_conn, parse_doh_request
    <3>2. Closed \in Outs /\ Closed.is # "reply"
      BY Zenon DEF Closed, Outs
    <3>3. \A n \in {400, 405, 415, 500} : Status(n) \in Outs /\ Status(n).is # "reply"
      BY DEF Status, Outs
    <3>4. Failure(q) \in {Status(500), Closed}
      BY Zenon DEF Failure
    <3>. HIDE DEF r
    <3>. QED BY <3>1, <3>2, <3>3, <3>4
  <2>. HIDE DEF o
  <2>3. Fits(q, o)
    BY <2>2, Zenon DEF Fits
  <2>5. ClientsSound'
    BY <2>1, <2>2, <2>3, ClientOver, Zenon
  <2>6. Typed' /\ CallsSound' /\ Fresh'
    <3>0. calls' \in [Callers -> Nat]
      BY <2>1, <1>0 DEF IInv, Typed, ControlTyped
    <3>1. Typed'
      BY <2>1, <3>0, Zenon DEF IInv, Typed, ControlTyped, FileTyped, CacheTyped, Item
    <3>2. CallsSound'
      BY <2>1, Zenon DEF IInv, CallsSound, Sound, Placed, Trying, Fitting, Prior, All, ServersIn, FirstOf
    <3>3. Fresh'
      BY <2>1, Zenon DEF IInv, Fresh, Known
    <3>. QED BY <3>1, <3>2, <3>3, Zenon
  <2>. QED BY <2>5, <2>6, Zenon DEF IInv
<1>. QED BY <1>2, <1>3, Zenon

\* Its task writes what exchange returned.
LEMMA WritesKeeps ==
    ASSUME IInv, NEW x \in Exchangers, Writes(x)
    PROVE  IInv'
<1>. DEFINE o == Written(client[x].req, call[x].err, call[x].got)
<1>0. x \in Callers /\ x \notin Resolvers /\ client \in [Exchangers -> ClientRec] /\ client[x].req \in Asked /\ call[x] \in CallRec
  BY ResolverConstants, Zenon DEF Callers, IInv, ClientsSound, ClientRec, CallsSound
<1>1. Typed' /\ CallsSound' /\ Fresh' /\ call' = [call EXCEPT ![x] = Idle]
  BY <1>0, EndKeeps, Zenon DEF Writes
<1>2. call[x].err \in BOOLEAN /\ call[x].got \in Replies
  BY <1>0, Zenon DEF CallRec
<1>3. ~call[x].err => call[x].got.id = client[x].req.id /\ call[x].got.len \in Lens
  BY <1>0, Zenon DEF IInv, ClientsSound, CallsSound, Sound, Fitting, Writes
<1>4. o \in Outs /\ Fits(client[x].req, o)
  BY <1>0, <1>2, <1>3, WrittenFits, Zenon
<1>5. client' = [client EXCEPT ![x].at = "over", ![x].out = o]
  BY Zenon DEF Writes
<1>. HIDE DEF o
<1>6. \A y \in Exchangers : y # x => call'[y] = call[y]
  BY <1>0, <1>1, Zenon DEF IInv, CallsSound, Callers
<1>7. ClientsSound'
  BY <1>4, <1>5, <1>6, ClientOver, Zenon
<1>. QED BY <1>1, <1>7, Zenon DEF IInv

\* The client is given up.
LEMMA DroppedKeeps ==
    ASSUME IInv, NEW x \in Exchangers, Dropped(x)
    PROVE  IInv'
<1>0. x \in Callers
  BY Zenon DEF Callers
<1>1. Typed' /\ CallsSound' /\ Fresh' /\ call' = [call EXCEPT ![x] = Idle]
  BY <1>0, EndKeeps, Zenon DEF Dropped
<1>2. Closed \in Outs /\ Closed.is # "reply"
  BY Zenon DEF Closed, Outs
<1>3. Fits(client[x].req, Closed)
  BY <1>2, Zenon DEF Fits
<1>4. client' = [client EXCEPT ![x].at = "over", ![x].out = Closed]
  BY Zenon DEF Dropped
<1>5. \A y \in Exchangers : y # x => call'[y] = call[y]
  BY <1>0, <1>1, Zenon DEF IInv, CallsSound, Callers
<1>6. ClientsSound'
  BY <1>2, <1>3, <1>4, <1>5, ClientOver, Zenon
<1>. QED BY <1>1, <1>6, Zenon DEF IInv

-----------------------------------------------------------------------------
(* The reloader and the surroundings.                                      *)

\* What is in the file, and what the options make of it.
LEMMA ContentsTyped ==
    ASSUME FileTyped
    PROVE  Contents.is \notin {"missing", "garbled"} => Contents.cfg \in Config
<1>1. file.texts \in Seq(Text \cup NoText)
  BY ResolverConstants, Zenon DEF FileTyped
<1>2. Contents \in Text \cup NoText
  BY <1>1 DEF FileTyped, Contents
<1>. QED BY <1>2, Zenon DEF Text, NoText

LEMMA LoadedTyped ==
    ASSUME NEW f \in Config, NEW v \in Nat
    PROVE  Loaded(f, v) \in Settings /\ Loaded(f, v).ver = v
<1>1. OptTtl \in Nat /\ OptNeg \in BOOLEAN /\ OptPrefer \in {"", "ipv4", "ipv6"}
  BY ResolverConstants, Zenon
<1>. DEFINE a == apply_options(f)
<1>2. a \in Config
  BY <1>1, Zenon DEF apply_options, Config
<1>. HIDE DEF a
<1>3. [cfg |-> a, ver |-> v] \in Settings /\ [cfg |-> a, ver |-> v].ver = v
  BY <1>2, Zenon DEF Settings
<1>. QED BY <1>3, Zenon DEF Loaded, a

\* Every step of theirs leaves calls and clients as they are.
LEMMA AroundKeeps ==
    ASSUME IInv, Around, UNCHANGED client
    PROVE  IInv'
<1>0. Typed /\ CallsSound /\ Fresh /\ ClientsSound
  BY Zenon DEF IInv
<1>1. UNCHANGED call
  BY Zenon DEF Around, Watch, WatchLooks, WatchOpens, Reload, Edit, Stop, Tick, Calm
<1>2. CallsSound' /\ ClientsSound'
  BY <1>0, <1>1, Zenon DEF CallsSound, Sound, Placed, Trying, Fitting, ClientsSound, Fits
<1>3. CASE WatchLooks \/ WatchOpens
  <2>1. watch' \in WatchRec /\ (watch.pc # "clear" /\ watch'.pc # "clear")
    <3>1. watch \in WatchRec /\ file.mod \in Nat /\ (Contents.is \notin {"missing", "garbled"} => Contents.cfg \in Config)
      <4>1. file.mod \in Nat
        BY <1>0, Zenon DEF Typed, FileTyped
      <4>. QED BY <4>1, <1>0, ContentsTyped, Zenon DEF Typed, ControlTyped
    <3>2. CASE WatchLooks
      BY <3>1, <3>2, Zenon DEF WatchLooks, Noticed, WatchRec
    <3>3. CASE WatchOpens
      BY <3>1, <3>3, Zenon DEF WatchOpens, WatchRec
    <3>. QED BY <1>3, <3>2, <3>3, Zenon
  <2>2. UNCHANGED <<st, cache, old, stopped, now, file, calls>>
    BY <1>3, Zenon DEF WatchLooks, WatchOpens, Calm
  <2>3. Typed'
    BY <1>0, <2>1, <2>2, Zenon DEF Typed, ControlTyped, FileTyped, CacheTyped, Item
  <2>4. Fresh'
    BY <1>0, <1>1, <2>1, <2>2, Zenon DEF Fresh, Known
  <2>. QED BY <1>2, <2>3, <2>4, Zenon DEF IInv
<1>4. CASE Reload /\ watch.pc = "write"
  <2>1. /\ st' = Loaded(watch.cfg, watch.ver) /\ watch' = [watch EXCEPT !.pc = "clear", !.cfg = Nothing, !.ver = 0]
        /\ UNCHANGED <<cache, old, stopped, now, file, calls>>
    BY <1>4, Zenon DEF Reload, Calm
  <2>2. watch \in WatchRec /\ watch.cfg \in Config /\ watch.ver \in Nat /\ Nothing \in Config
    <3>1. Nothing \in Config
      BY DEF Nothing, Config
    <3>. QED BY <1>0, <3>1, Zenon DEF Typed, ControlTyped, WatchRec
  <2>3. watch' \in WatchRec /\ watch'.pc = "clear"
    BY <2>1, <2>2, Zenon DEF WatchRec
  <2>4. st' \in Settings
    BY <2>1, <2>2, LoadedTyped, Zenon
  <2>5. Typed'
    BY <1>0, <2>1, <2>3, <2>4, Zenon DEF Typed, ControlTyped, FileTyped, CacheTyped, Item
  <2>6. Fresh'
    BY <2>3, Zenon DEF Fresh
  <2>. QED BY <1>2, <2>5, <2>6, Zenon DEF IInv
<1>5. CASE Reload /\ watch.pc = "clear"
  <2>1. /\ cache' = [k \in Types |-> NoItem] /\ old' = InUse /\ watch' = [watch EXCEPT !.pc = "look"]
        /\ UNCHANGED <<st, stopped, now, file, calls>>
    BY <1>5, Zenon DEF Reload, Calm
  <2>2. watch' \in WatchRec
    BY <1>0, <2>1, Zenon DEF Typed, ControlTyped, WatchRec
  <2>3. CacheTyped'
    BY <2>1, Zenon DEF CacheTyped
  <2>4. Typed'
    BY <1>0, <2>1, <2>2, <2>3, Zenon DEF Typed, ControlTyped, FileTyped
  <2>5. \A k \in Types : cache'[k] = NoItem
    BY <2>1, Zenon
  <2>6. \A c \in Callers : call[c].pc # "idle" => call[c].st.ver \in InUse
    BY Zenon DEF InUse
  <2>7. Fresh'
    BY <1>1, <2>1, <2>5, <2>6, Zenon DEF Fresh, Known
  <2>. QED BY <1>2, <2>4, <2>7, Zenon DEF IInv
<1>6. CASE Edit \/ Stop \/ Tick
  <2>1. UNCHANGED <<st, cache, watch, calls, old>>
    BY <1>6, Zenon DEF Edit, Stop, Tick
  <2>2. FileTyped'
    <3>1. CASE Edit
      <4>1. file \in [mod : Nat, texts : Histories] /\ file.texts \in Seq(Text \cup NoText) /\ file.mod \in 1 .. Len(file.texts)
        BY <1>0, ResolverConstants, Zenon DEF Typed, FileTyped
      <4>2. file' = [file EXCEPT !.mod = @ + 1] /\ file.mod < Len(file.texts)
        BY <3>1, Zenon DEF Edit
      <4>3. file.mod + 1 \in 1 .. Len(file.texts)
        BY <4>1, <4>2
      <4>. QED BY <4>1, <4>2, <4>3 DEF FileTyped
    <3>2. CASE Stop \/ Tick
      BY <1>0, <3>2, Zenon DEF Stop, Tick, Typed, FileTyped
    <3>. QED BY <1>6, <3>1, <3>2, Zenon
  <2>3. stopped' \in BOOLEAN /\ now' \in 0 .. MaxNow
    <3>0. MaxNow \in Nat /\ stopped \in BOOLEAN /\ now \in 0 .. MaxNow
      BY <1>0, ResolverConstants, Zenon DEF Typed, ControlTyped
    <3>1. CASE Edit
      BY <3>0, <3>1, Zenon DEF Edit
    <3>2. CASE Stop
      BY <3>0, <3>2, Zenon DEF Stop
    <3>3. CASE Tick
      <4>1. now' \in 0 .. MaxNow
        BY <3>0, <3>3 DEF Tick
      <4>. QED BY <3>0, <3>3, <4>1, Zenon DEF Tick
    <3>. QED BY <1>6, <3>1, <3>2, <3>3, Zenon
  <2>4. Typed'
    BY <1>0, <2>1, <2>2, <2>3, Zenon DEF Typed, ControlTyped, CacheTyped, Item
  <2>5. Fresh'
    BY <1>0, <1>1, <2>1, Zenon DEF Fresh, Known
  <2>. QED BY <1>2, <2>4, <2>5, Zenon DEF IInv
<1>. QED BY <1>3, <1>4, <1>5, <1>6, Zenon DEF Around, Watch, Reload

-----------------------------------------------------------------------------
(* All of it.                                                              *)

LEMMA InitSound ==
    ASSUME DnsInit
    PROVE  IInv
<1>0. PICK h \in Histories :
        /\ st = Loaded(h[1].cfg, 1)
        /\ file = [mod |-> 1, texts |-> h]
        /\ watch = [pc |-> IF h[1].cfg.period = 0 THEN "over" ELSE "look", last |-> 0, cfg |-> Nothing, ver |-> 0]
  BY Zenon DEF DnsInit, Init
<1>1. h \in Seq(Text \cup NoText) /\ h # <<>> /\ h[1] \in Text /\ MaxNow \in Nat
  BY ResolverConstants, Zenon
<1>2. Len(h) \in Nat /\ Len(h) # 0
  BY <1>1
<1>3. FileTyped
  BY <1>0, <1>2 DEF FileTyped
<1>4. st \in Settings
  <2>1. h[1].cfg \in Config
    BY <1>1, Zenon DEF Text
  <2>. QED BY <1>0, <2>1, LoadedTyped, Zenon
<1>5. watch \in WatchRec
  <2>1. Nothing \in Config
    BY DEF Nothing, Config
  <2>. QED BY <1>0, <2>1, Zenon DEF WatchRec
<1>6. ControlTyped
  <2>1. calls = [c \in Callers |-> 0] /\ now = 0 /\ stopped = FALSE
    BY Zenon DEF DnsInit, Init
  <2>2. now \in 0 .. MaxNow /\ calls \in [Callers -> Nat]
    BY <1>1, <2>1
  <2>. QED BY <1>4, <1>5, <2>1, <2>2, Zenon DEF ControlTyped
<1>7. CacheTyped /\ \A k \in Types : cache[k] = NoItem
  BY Zenon DEF CacheTyped, DnsInit, Init
<1>8. CallsSound /\ \A c \in Callers : call[c] = Idle
  BY IdleSound, Zenon DEF CallsSound, DnsInit, Init
<1>9. Fresh
  BY <1>7, <1>8, IdleSound, Zenon DEF Fresh
<1>10. ClientsSound
  <2>1. PICK q \in [Exchangers -> Requests[h]] :
          client = [x \in Exchangers |-> [at |-> "none", req |-> q[x], out |-> [is |-> "nothing"]]]
    BY <1>0, Zenon DEF DnsInit
  <2>2. [is |-> "nothing"] \in Outs
    BY Zenon DEF Outs
  <2>3. ASSUME NEW x \in Exchangers
        PROVE  /\ client[x] \in ClientRec /\ client[x].at = "none" /\ client[x].out.is = "nothing"
    <3>1. q[x] \in Asked
      BY Zenon DEF Asked
    <3>. QED BY <2>1, <2>2, <3>1, Zenon DEF ClientRec
  <2>. QED BY <2>1, <2>3, Zenon DEF ClientsSound, Fits
<1>. QED BY <1>3, <1>6, <1>7, <1>8, <1>9, <1>10, Zenon DEF IInv, Typed

LEMMA StepSound ==
    ASSUME IInv, [DnsNext]_dnsVars
    PROVE  IInv'
<1>1. ASSUME NEW x \in Exchangers, Client(x) PROVE IInv'
  BY <1>1, ReadsKeeps, WritesKeeps, DroppedKeeps, Zenon DEF Client
<1>2. ASSUME NEW c \in Callers, Call(c), UNCHANGED client PROVE IInv'
  <2>1. CASE Begin(c)
    BY <1>2, <2>1, ResolveBegins, Zenon
  <2>2. CASE Runs(c)
    <3>1. Goes(c)
      BY <2>2, RunsGoes, Zenon DEF IInv
    <3>. QED BY <1>2, <3>1, GoesKeeps, Zenon
  <2>3. CASE c \in Resolvers /\ (Cancelled(c) \/ Return(c))
    BY <1>2, <2>3, ResolveEnds, Zenon
  <2>. QED BY <1>2, <2>1, <2>2, <2>3, Zenon DEF Call
<1>3. CASE UNCHANGED dnsVars
  <2>1. UNCHANGED <<st, stopped, cache, now, file, watch, call, calls, old, client>>
    BY <1>3, Zenon DEF dnsVars, vars
  <2>2. Typed'
    BY <2>1, Zenon DEF IInv, Typed, ControlTyped, FileTyped, CacheTyped, Item
  <2>3. CallsSound' /\ ClientsSound'
    BY <2>1, Zenon DEF IInv, CallsSound, Sound, Placed, Trying, Fitting, ClientsSound, Fits
  <2>4. Fresh'
    BY <2>1, Zenon DEF IInv, Fresh, Known
  <2>. QED BY <2>2, <2>3, <2>4, Zenon DEF IInv
<1>. QED BY <1>1, <1>2, <1>3, AroundKeeps, Zenon DEF DnsNext, Rest

\* The inductive invariant of the resolver and its clients: calls keep the
\* configuration they began with and the record of what they tried, the cache
\* holds what servers sent, and clients are given replies of their own.
THEOREM ResolverInvariant == Spec => []IInv
<1>1. DnsInit => IInv
  BY InitSound, Zenon
<1>2. IInv /\ [DnsNext]_dnsVars => IInv'
  BY StepSound, Zenon
<1>. QED BY <1>1, <1>2, PTL DEF Spec

\* resolve leaves out no server of the configuration it began with and no type
\* of address: it gives up only after all of them, and takes an address of its
\* second choice or of a later server only after all that comes before, whatever
\* the reloader, the clock and the other calls do meanwhile.
THEOREM FailoverIsComplete == Spec => []FailoverComplete
<1>1. ASSUME IInv PROVE FailoverComplete
  <2>1. TypeOK
    <3>1. st.cfg \in Config /\ st.ver \in Nat /\ now \in 0 .. MaxNow /\ watch.pc \in {"look", "open", "write", "clear", "over"}
      BY <1>1, Zenon DEF IInv, Typed, ControlTyped, Settings, WatchRec
    <3>2. \A k \in Types : cache[k] \in Item \cup {NoItem}
      BY <1>1, Zenon DEF IInv, Typed, CacheTyped
    <3>3. ASSUME NEW c \in Callers
          PROVE  /\ call[c].pc \in {"idle", "load", "done"} \cup Asking
                 /\ call[c].pc # "idle" /\ ServersOf(c) # <<>> => call[c].i \in 1 .. Len(ServersOf(c))
                 /\ call[c].t \in Types \/ (c \in Exchangers /\ call[c].t = "several")
      <4>1. Sound(c, call[c]) /\ ServersOf(c) = ServersIn(call[c])
        BY <1>1, Zenon DEF IInv, CallsSound, ServersOf, ServersIn
      <4>2. call[c].pc \in {"idle", "load", "done"} \cup Asking
        BY <4>1, Zenon DEF Sound, CallRec, Points, Asking
      <4>3. call[c].t \in Types \/ (c \in Exchangers /\ call[c].t = "several")
        BY <4>1, Zenon DEF Sound, CallRec, Keys, Trying, Callers
      <4>. QED BY <4>1, <4>2, <4>3, Zenon DEF Sound, Placed
    <3>. QED BY <3>1, <3>2, <3>3, Zenon DEF TypeOK
  <2>2. ASSUME NEW c \in Resolvers, call[c].pc = "done", ServersOf(c) # <<>>
        PROVE  call[c].tried = IF call[c].from = NoServer THEN (1 .. Len(ServersOf(c))) \X Types
                               ELSE IF call[c].t = First(c)
                                    THEN ((1 .. call[c].i - 1) \X Types) \cup {<<call[c].i, First(c)>>}
                                    ELSE ((1 .. call[c].i - 1) \X Types) \cup {<<call[c].i, First(c)>>}
                                           \cup {<<call[c].i, Second(c)>>}
    <3>1. Trying(call[c]) /\ ServersOf(c) = ServersIn(call[c]) /\ First(c) = FirstOf(call[c]) /\ Second(c) = SecondOf(call[c])
      BY <1>1, Zenon DEF IInv, CallsSound, Sound, Callers, ServersOf, ServersIn, First, FirstOf, Second, SecondOf
    <3>2. call[c].tried = IF call[c].from = NoServer THEN All(call[c]) ELSE Prior(call[c]) \cup {<<call[c].i, call[c].t>>}
      BY <2>2, <3>1, Zenon DEF Trying
    <3>3. call[c].t # First(c) => call[c].t = Second(c)
      BY <3>1, Zenon DEF Trying, Types, FirstOf, SecondOf
    <3>. QED BY <3>1, <3>2, <3>3, Zenon DEF All, Prior
  <2>3. TriesAll
    BY <2>2, Zenon DEF TriesAll
  <2>. QED BY <2>1, <2>3, Zenon DEF FailoverComplete
<1>. QED BY <1>1, ResolverInvariant, PTL

\* A stale answer gets into the cache only through a call that was under way
\* when reload_impl cleared it, and a client of the DNS server is given a reply
\* with its own ID, of a size it takes, and told to come back over TCP only
\* when an answer does not fit.
THEOREM CacheIsHonest == Spec => []CacheHonest
<1>1. ASSUME IInv PROVE CacheHonest
  <2>1. StaleOnlyInFlight
    BY <1>1, Zenon DEF IInv, Fresh, Known, StaleOnlyInFlight
  <2>2. RepliesFit
    BY <1>1, Zenon DEF IInv, ClientsSound, Fits, RepliesFit
  <2>. QED BY <2>1, <2>2, Zenon DEF CacheHonest
<1>. QED BY <1>1, ResolverInvariant, PTL

=============================================================================
