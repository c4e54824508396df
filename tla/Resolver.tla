------------------------------ MODULE Resolver ------------------------------
(***************************************************************************)
(* The DNS resolver (resolver.rs) and the task that reloads its file       *)
(* (reload.rs, started by main.rs).  Callers resolve a name for a dial     *)
(* (Resolver::resolve) or pass on the message of a DNS client              *)
(* (Resolver::exchange, dns_proxy.rs).  A caller works on a clone of the   *)
(* configuration, looks into the shared cache before each query, asks the  *)
(* name servers in turn and stores what they answer.  Meanwhile the file   *)
(* changes, disappears or is garbled, and the reloader replaces the        *)
(* configuration and then clears the cache, in two steps.                  *)
(*                                                                         *)
(* There is one name, so a cache key is a query type; a message with       *)
(* several questions has none.  Of an answer the model keeps whether it    *)
(* holds an address, its smallest record TTL, its length, the ID in its    *)
(* first bytes and the server it came from.                                *)
(* Time advances in ticks.  Two edits never share a modification time.     *)
(***************************************************************************)
EXTENDS Integers, Sequences, FiniteSets

CONSTANTS
    Resolvers, Exchangers,  \* the callers of resolve and of exchange
    Servers,                \* name servers
    Named,                  \* and how the configuration names their protocols
    NoTtl,                  \* the record TTL of a message without answers
    NoItem, NoServer,       \* an empty cache slot; an answer from nowhere
    Answers,                \* bound: answers a server may give
    Histories,              \* bound: what becomes of the configuration file
    OptTtl, OptNeg, OptPrefer,  \* what init was given on the command line
    MaxNow, MaxCalls        \* bounds: time, calls of a caller

Callers == Resolvers \cup Exchangers
Types == {"A", "AAAA"}
Config == [servers : Seq(Servers), ttl : Nat, neg : BOOLEAN, prefer : {"", "ipv4", "ipv6"},
           period : Nat]
Text == [is : {"text"}, cfg : Config]
NoText == [is : {"garbled", "missing"}]

ASSUME ResolverConstants ==
    /\ Resolvers \cap Exchangers = {}
    /\ \A s \in Servers : Named[s].chain \in BOOLEAN
    /\ NoServer \notin Servers /\ NoTtl \notin Nat
    /\ \A a \in Answers : a.some \in BOOLEAN /\ a.rr \in Nat \cup {NoTtl} /\ a.len \in Nat
    /\ \A a \in Answers : a.some => a.rr \in Nat
    /\ \A h \in Histories : h \in Seq(Text \cup NoText) /\ h # <<>> /\ h[1] \in Text
    /\ OptTtl \in Nat /\ OptNeg \in BOOLEAN /\ OptPrefer \in {"", "ipv4", "ipv6"}
    /\ {MaxNow, MaxCalls} \subseteq Nat

\* NsProtocol::parse: the protocol, and the suffix -chain taken off.  Unknown
\* names mean UDP, which is never dialled through the chain.
Kind == [s \in Servers |-> IF Named[s].base \in {"tcp", "tls", "https"} THEN Named[s].base ELSE "udp"]
Chained == {s \in Servers : Named[s].chain /\ Kind[s] # "udp"}

VARIABLES
    st,         \* the State behind the RwLock, and the version of the file it has
    stopped,    \* the flag of stop()
    cache,      \* ResolverCache: an item or NoItem for each key
    now,        \* the clock
    file,       \* the file: its versions, and the one there is, its modification time
    watch,      \* period_reload: program counter, last_mod, what it has read
    call,       \* the calls
    calls,      \* number of calls each caller has begun
    old         \* history: versions in use by calls when the cache was cleared

vars == <<st, stopped, cache, now, file, watch, call, calls, old>>

\* apply_options: what the command line says wins over the file.
apply_options(f) ==
    [f EXCEPT !.ttl = IF OptTtl # 0 \/ OptNeg THEN OptTtl ELSE @,
              !.neg = IF OptTtl # 0 \/ OptNeg THEN OptNeg ELSE @,
              !.prefer = IF OptPrefer # "" THEN OptPrefer ELSE @]
Loaded(f, v) == [cfg |-> apply_options(f), ver |-> v]

Nothing == [servers |-> <<>>, ttl |-> 0, neg |-> FALSE, prefer |-> "", period |-> 0]
NoReply == [id |-> 0, len |-> 0, ok |-> FALSE]
Idle == [pc |-> "idle", id |-> 0, got |-> NoReply, st |-> [cfg |-> Nothing, ver |-> 0], i |-> 0, t |-> "A",
         from |-> NoServer, err |-> FALSE, tried |-> {}]

\* main.rs loads the file and starts the reloader if it asks for one.
Init ==
    /\ \E h \in Histories :
        /\ st = Loaded(h[1].cfg, 1)
        /\ file = [mod |-> 1, texts |-> h]
        /\ watch = [pc |-> IF h[1].cfg.period = 0 THEN "over" ELSE "look", last |-> 0,
                    cfg |-> Nothing, ver |-> 0]
    /\ stopped = FALSE
    /\ cache = [k \in Types |-> NoItem]
    /\ now = 0
    /\ call = [c \in Callers |-> Idle]
    /\ calls = [c \in Callers |-> 0]
    /\ old = {}

-----------------------------------------------------------------------------
(* The cache.                                                              *)

\* load gives an item unless the TTL configured when it was stored, or that
\* of one of its records, has run out.
Live(item) ==
    /\ item # NoItem
    /\ item.ttl > 0 => now - item.ts <= item.ttl
    /\ item.rr # NoTtl => now - item.ts <= item.rr

\* store, under the configuration that the call began with.
Stored(c, k, a, from) ==
    IF k \notin Types \/ call[c].st.cfg.neg THEN cache
    ELSE [cache EXCEPT ![k] = [some |-> a.some, rr |-> a.rr, ts |-> now, id |-> call[c].id, len |-> a.len,
                               ttl |-> call[c].st.cfg.ttl, from |-> from, ver |-> call[c].st.ver]]

-----------------------------------------------------------------------------
(* A call.                                                                 *)

ServersOf(c) == call[c].st.cfg.servers
Server(c) == ServersOf(c)[call[c].i]

\* How ns_exchange begins with server i: UDP has no connection to make.
Start(c, i) == IF Kind[ServersOf(c)[i]] = "udp" THEN "ask" ELSE "dial"
First(c) == IF call[c].st.cfg.prefer = "ipv6" THEN "AAAA" ELSE "A"
Second(c) == IF call[c].st.cfg.prefer = "ipv6" THEN "A" ELSE "AAAA"

\* A resolve that takes the failure of its first query for the server's.
Advance_first_error(c, some, err, from) ==
    LET r == [call[c] EXCEPT !.tried = @ \cup {<<call[c].i, call[c].t>>}] IN
    IF some THEN [r EXCEPT !.pc = "done", !.from = from, !.err = FALSE]
    ELSE IF r.t = First(c) /\ ~err THEN [r EXCEPT !.pc = "load", !.t = Second(c)]
    ELSE IF r.i < Len(ServersOf(c))
    THEN [r EXCEPT !.pc = "load", !.i = @ + 1, !.t = First(c), !.err = err]
    ELSE [r EXCEPT !.pc = "done", !.err = err]

\* One server too many.
Advance_past_end(c, some, err, from) ==
    LET r == [call[c] EXCEPT !.tried = @ \cup {<<call[c].i, call[c].t>>}] IN
    IF some THEN [r EXCEPT !.pc = "done", !.from = from, !.err = FALSE]
    ELSE IF r.t = First(c) THEN [r EXCEPT !.pc = "load", !.t = Second(c)]
    ELSE IF r.i <= Len(ServersOf(c))
    THEN [r EXCEPT !.pc = "load", !.i = @ + 1, !.t = First(c), !.err = err]
    ELSE [r EXCEPT !.pc = "done", !.err = err]

\* resolve and resolve_via after a query: an address ends the call; without
\* one, or after an error, the other type is asked for, then the next server.
Advance(c, some, err, from) ==
    LET r == [call[c] EXCEPT !.tried = @ \cup {<<call[c].i, call[c].t>>}] IN
    IF some THEN [r EXCEPT !.pc = "done", !.from = from, !.err = FALSE]
    ELSE IF r.t = First(c) THEN [r EXCEPT !.pc = "load", !.t = Second(c)]
    ELSE IF r.i < Len(ServersOf(c))
    THEN [r EXCEPT !.pc = "load", !.i = @ + 1, !.t = First(c), !.err = err]
    ELSE [r EXCEPT !.pc = "done", !.err = err]

\* exchange after a failed attempt: the next server, without a look at the
\* cache.
NextServer(c) ==
    LET r == [call[c] EXCEPT !.tried = @ \cup {<<call[c].i, call[c].t>>}] IN
    IF r.i < Len(ServersOf(c)) THEN [r EXCEPT !.pc = Start(c, r.i + 1), !.i = @ + 1]
    ELSE [r EXCEPT !.pc = "done", !.err = TRUE]

\* A reply without the client's ID in it.
set_msg_id_not(id, was, len, ok) == [id |-> was, len |-> len, ok |-> ok]

\* What exchange returns: the bytes of the reply, with the ID of the client.
set_msg_id(id, was, len, ok) == [id |-> id, len |-> len, ok |-> ok]

Quiet == UNCHANGED <<st, stopped, now, file, watch, calls, old>>

\* A call clones the configuration.  Without name servers resolve leaves the
\* name to the system, whatever comes of it.
Begin(c) ==
    /\ c \in Resolvers /\ call[c].pc = "idle" /\ calls[c] < MaxCalls
    /\ calls' = [calls EXCEPT ![c] = @ + 1]
    /\ \E failed \in BOOLEAN :
        /\ failed => st.cfg.servers = <<>>
        /\ call' = [call EXCEPT ![c] =
                      [Idle EXCEPT !.st = st, !.i = 1, !.err = failed,
                         !.t = IF st.cfg.prefer = "ipv6" THEN "AAAA" ELSE "A",
                         !.pc = IF st.cfg.servers = <<>> THEN "done" ELSE "load"]]
    /\ UNCHANGED <<st, stopped, cache, now, file, watch, old>>

\* exchange with the message of a client: its question and its ID.
BeginExchange(c, t, id) ==
    /\ calls' = [calls EXCEPT ![c] = @ + 1]
    /\ call' = [call EXCEPT ![c] = [Idle EXCEPT !.st = st, !.i = 1, !.t = t, !.id = id, !.pc = "load"]]
    /\ UNCHANGED <<st, stopped, cache, now, file, watch, old>>

\* cache.load: a hit is the answer, whichever server it came from; an item
\* that has run out is removed.
Load(c) ==
    /\ call[c].pc = "load"
    /\ LET k == call[c].t IN
       IF k \in Types /\ Live(cache[k])
       THEN /\ call' = [call EXCEPT ![c] =
                          IF c \in Resolvers THEN Advance(c, cache[k].some, FALSE, cache[k].from)
                          ELSE [@ EXCEPT !.pc = "done", !.from = cache[k].from,
                                      !.got = set_msg_id(call[c].id, cache[k].id, cache[k].len, TRUE)]]
            /\ UNCHANGED cache
       ELSE /\ call' = [call EXCEPT ![c] =
                          IF ServersOf(c) = <<>> THEN [@ EXCEPT !.pc = "done", !.err = TRUE]
                          ELSE [@ EXCEPT !.pc = Start(c, call[c].i)]]
            /\ cache' = IF k \in Types THEN [cache EXCEPT ![k] = NoItem] ELSE cache
    /\ Quiet

\* dial_tcp_via has a connection, directly or through the chain.
dial_tcp_via(c) ==
    /\ call[c].pc = "dial"
    /\ call' = [call EXCEPT ![c].pc = IF Kind[Server(c)] = "tls" THEN "shake" ELSE "ask"]
    /\ UNCHANGED cache /\ Quiet

\* exchange_tls has its TLS session.  exchange_doh makes one under the same
\* timeout as the request and the response, so there it is part of asking.
exchange_tls(c) ==
    /\ call[c].pc = "shake"
    /\ call' = [call EXCEPT ![c].pc = "ask"]
    /\ UNCHANGED cache /\ Quiet

Asking == {"dial", "shake", "ask"}
Failed(c) ==
    /\ call[c].pc \in Asking
    /\ call' = [call EXCEPT ![c] = IF c \in Resolvers THEN Advance(c, FALSE, TRUE, NoServer)
                                   ELSE NextServer(c)]
    /\ UNCHANGED cache /\ Quiet

\* A TLS handshake without a limit.
TimedOut_not_tls(c) ==
    /\ call[c].pc \in {"dial", "ask"}
    /\ call[c].pc = "dial" => Server(c) \notin Chained
    /\ Failed(c)

\* Each stage fails by a timeout of its own, except the dial of a server
\* behind the chain: the chain's handshakes have none.
TimedOut(c) ==
    /\ call[c].pc \in Asking
    /\ call[c].pc = "dial" => Server(c) \notin Chained
    /\ Failed(c)

\* ns_exchange fails for another reason: no connection, no certificate, a
\* status that is not 200, the end of the stream, or for resolve a reply that
\* cannot be decoded.
Refused(c) == Failed(c)

\* The server answers, and the answer is stored.  exchange is content with
\* any answer.
Answered(c) ==
    /\ call[c].pc = "ask"
    /\ \E a \in Answers :
        LET s == Server(c) IN
        /\ cache' = Stored(c, call[c].t, a, s)
        /\ call' = [call EXCEPT ![c] =
                      IF c \in Resolvers THEN Advance(c, a.some, FALSE, s)
                      ELSE [@ EXCEPT !.pc = "done", !.from = s,
                                  !.got = set_msg_id(call[c].id, call[c].id, a.len, TRUE)]]
    /\ Quiet

\* exchange returns a reply that does not decode, and stores nothing.
AnsweredGarbled(c) ==
    /\ call[c].pc = "ask" /\ c \in Exchangers
    /\ call' = [call EXCEPT ![c].pc = "done", ![c].from = Server(c),
                           ![c].got = set_msg_id(call[c].id, call[c].id, 40, FALSE)]
    /\ UNCHANGED cache /\ Quiet

\* The end of the caller's task drops the call wherever it waits.
Cancelled(c) ==
    /\ call[c].pc \in Asking
    /\ call' = [call EXCEPT ![c] = Idle]
    /\ UNCHANGED cache /\ Quiet

\* The caller has its answer.
Return(c) ==
    /\ call[c].pc = "done"
    /\ call' = [call EXCEPT ![c] = Idle]
    /\ UNCHANGED cache /\ Quiet

\* What a call does by itself, and what its caller does to it.
Runs(c) ==
    \/ Load(c) \/ dial_tcp_via(c) \/ exchange_tls(c) \/ TimedOut(c) \/ Refused(c) \/ Answered(c) \/ AnsweredGarbled(c)
Call(c) == Begin(c) \/ Runs(c) \/ (c \in Resolvers /\ (Cancelled(c) \/ Return(c)))

-----------------------------------------------------------------------------
(* The reloader.                                                           *)

Contents == file.texts[file.mod]
Calm == UNCHANGED <<stopped, now, file, call, calls>>

Noticed ==
    IF Contents.is = "missing" THEN [watch EXCEPT !.pc = "over"]
    ELSE [watch EXCEPT !.last = file.mod,
                       !.pc = IF watch.last # 0 /\ file.mod # watch.last THEN "open" ELSE "look"]

\* A period that does not look at the stopped flag.
WatchLooks_deaf ==
    /\ watch.pc = "look"
    /\ watch' = IF st.cfg.period = 0 THEN [watch EXCEPT !.pc = "over"] ELSE Noticed
    /\ UNCHANGED <<st, cache, old>> /\ Calm

\* The loop of period_reload comes round.  The period is zero once the
\* resolver is stopped, or the file does not ask for one any more, and the
\* loop returns, as it does when the file is missing.  Its first look only
\* takes note of the modification time.  last_mod is the time read here,
\* before the contents.
WatchLooks ==
    /\ watch.pc = "look"
    /\ watch' = IF stopped \/ st.cfg.period = 0 THEN [watch EXCEPT !.pc = "over"] ELSE Noticed
    /\ UNCHANGED <<st, cache, old>> /\ Calm

\* File::open and reload_impl up to the end of the file: nothing happens once
\* stopped, and a file that cannot be read is reported and left alone.
WatchOpens ==
    /\ watch.pc = "open"
    /\ watch' = CASE Contents.is = "missing" -> [watch EXCEPT !.pc = "over"]
                  [] Contents.is = "garbled" \/ stopped -> [watch EXCEPT !.pc = "look"]
                  [] OTHER -> [watch EXCEPT !.pc = "write", !.cfg = Contents.cfg, !.ver = file.mod]
    /\ UNCHANGED <<st, cache, old>> /\ Calm

InUse == {call[c].st.ver : c \in {d \in Callers : call[d].pc # "idle"}}

\* A reload that clears the cache before it replaces the configuration.
Reload_clears_first ==
    \/ /\ watch.pc = "write"
       /\ cache' = [k \in Types |-> NoItem]
       /\ old' = InUse
       /\ watch' = [watch EXCEPT !.pc = "clear"]
       /\ UNCHANGED st /\ Calm
    \/ /\ watch.pc = "clear"
       /\ st' = Loaded(watch.cfg, watch.ver)
       /\ watch' = [watch EXCEPT !.pc = "look"]
       /\ UNCHANGED <<cache, old>> /\ Calm

\* A loop that asks for the modification time after the contents.
Reload_restats ==
    \/ /\ watch.pc = "write"
       /\ st' = Loaded(watch.cfg, watch.ver)
       /\ watch' = [watch EXCEPT !.pc = "clear", !.cfg = Nothing, !.ver = 0]
       /\ UNCHANGED <<cache, old>> /\ Calm
    \/ /\ watch.pc = "clear"
       /\ cache' = [k \in Types |-> NoItem]
       /\ old' = InUse
       /\ watch' = [watch EXCEPT !.pc = "look", !.last = file.mod]
       /\ UNCHANGED st /\ Calm

\* reload_impl: the new configuration first, then the cache.
Reload ==
    \/ /\ watch.pc = "write"
       /\ st' = Loaded(watch.cfg, watch.ver)
       /\ watch' = [watch EXCEPT !.pc = "clear", !.cfg = Nothing, !.ver = 0]
       /\ UNCHANGED <<cache, old>> /\ Calm
    \/ /\ watch.pc = "clear"
       /\ cache' = [k \in Types |-> NoItem]
       /\ old' = InUse
       /\ watch' = [watch EXCEPT !.pc = "look"]
       /\ UNCHANGED st /\ Calm

Watch == WatchLooks \/ WatchOpens \/ Reload

-----------------------------------------------------------------------------
(* The surroundings.                                                       *)

\* Somebody edits the file, garbles it or takes it away.
Edit ==
    /\ file.mod < Len(file.texts)
    /\ file' = [file EXCEPT !.mod = @ + 1]
    /\ UNCHANGED <<st, stopped, cache, now, watch, call, calls, old>>

Stop ==
    /\ ~stopped
    /\ stopped' = TRUE
    /\ UNCHANGED <<st, cache, now, file, watch, call, calls, old>>

Tick ==
    /\ now < MaxNow
    /\ now' = now + 1
    /\ UNCHANGED <<st, stopped, cache, file, watch, call, calls, old>>

Around == Watch \/ Edit \/ Stop \/ Tick

-----------------------------------------------------------------------------
(* Properties.                                                             *)

Item == [some : BOOLEAN, id : Nat, len : Nat, rr : Nat \cup {NoTtl}, ts : 0 .. MaxNow, ttl : Nat, from : Servers,
         ver : Nat]
TypeOK ==
    /\ st.cfg \in Config /\ st.ver \in Nat
    /\ \A k \in Types : cache[k] \in Item \cup {NoItem}
    /\ now \in 0 .. MaxNow
    /\ watch.pc \in {"look", "open", "write", "clear", "over"}
    /\ \A c \in Callers :
        /\ call[c].pc \in {"idle", "load", "done"} \cup Asking
        /\ call[c].pc # "idle" /\ ServersOf(c) # <<>> => call[c].i \in 1 .. Len(ServersOf(c))
        /\ call[c].t \in Types \/ (c \in Exchangers /\ call[c].t = "several")

\* resolve gives up only after both types at every server of its
\* configuration, or cached answers in their stead, gave no address; and an
\* address of the second choice, or of a later server, is taken only when all
\* that comes before it gave none.
TriesAll ==
    \A c \in Resolvers :
        call[c].pc = "done" /\ ServersOf(c) # <<>> =>
            LET all == (1 .. Len(ServersOf(c))) \X Types
                before == ((1 .. call[c].i - 1) \X Types) \cup {<<call[c].i, First(c)>>}
            IN  call[c].tried = IF call[c].from = NoServer THEN all
                                ELSE IF call[c].t = First(c)
                                     THEN before ELSE before \cup {<<call[c].i, Second(c)>>}

\* Clearing the cache after the configuration is replaced leaves a stale
\* answer no way in but through a call that was under way at that moment.
StaleOnlyInFlight ==
    watch.pc # "clear" =>
        \A k \in Types : cache[k] # NoItem => cache[k].ver = st.ver \/ cache[k].ver \in old

\* An edit that the reloader is in a position to notice is taken over, unless
\* the file is then unreadable or the reloader returns.
EditsTaken ==
    watch.last # 0 /\ watch.pc # "over" /\ file.mod # watch.last
        ~> st.ver = file.mod \/ Contents.is # "text" \/ watch.pc = "over" \/ stopped

\* stop() ends the reloader.
StopEnds == stopped ~> watch.pc = "over"

\* Every resolve and every exchange with servers that are not behind the chain
\* returns.
CallsEnd ==
    \A c \in Callers :
        call[c].pc = "load" /\ (\A i \in DOMAIN ServersOf(c) : ServersOf(c)[i] \notin Chained)
            ~> call[c].pc = "idle"

\* The failover of resolve leaves out no server of its configuration and no type
\* of address.
FailoverComplete == TypeOK /\ TriesAll

\* Edits of the file are taken over, stop() ends the reloader and calls return.
ResolverLive == EditsTaken /\ StopEnds /\ CallsEnd

=============================================================================
