------------------------------- MODULE Proxy -------------------------------
(***************************************************************************)
(* A tunnel through a chain of proxies: Chain::dial of chain.rs on the     *)
(* dialling side, and on every hop a handler (socks5.rs, socks4.rs,        *)
(* http_proxy.rs, http2_transport.rs, relay.rs, ss.rs, sni.rs, forward.rs, *)
(* redirect.rs, the AutoHandler of handler.rs) that reads a request, asks  *)
(* its lists, dials, answers and then splices (transport.rs).              *)
(*                                                                         *)
(* Parties are numbered along the route: 1 .. N are the hops, N + 1 is the *)
(* target, and an address is the number of the party behind it.  Link      *)
(* <<t, i>> is the i-th connection of the t-th attempt to dial; its upper  *)
(* end is the client (i = 1) or the handler at the lower end of link       *)
(* i - 1, so the handshake with hop i runs through the splices of the hops *)
(* before it.  A link is a pair of queues: the model keeps which messages  *)
(* follow which, and leaves out how they are laid out in bytes.            *)
(***************************************************************************)
EXTENDS Integers, Sequences, FiniteSets, SequencesExt

CONSTANT
    Routes              \* bound: the routes and configurations to look at

Protocols == {"socks5", "socks4", "socks4a", "http", "http2", "relay", "ss", "sni", "forward", "redirect"}

\* One hop: its protocol, whether the AutoHandler serves it, the credentials
\* the client has for it and whether it asks for them, whether the client
\* offers TLS (`notls`) or hides the name (`host`), the addresses its
\* permissions and its bypass refuse, its retry settings, and whether a BIND
\* is forwarded because the handler has a chain of its own.
Hops == [proto : Protocols, auto : BOOLEAN, user : {"none", "good", "bad"}, needs : BOOLEAN,
         tls : BOOLEAN, decoy : BOOLEAN, bars : SUBSET Nat, skips : SUBSET Nat,
         loops : Nat, retries : Nat, inner : BOOLEAN]

\* What a listener makes of the parameters of its node: credentials from a
\* file come before those of the URL, what cannot be read or parsed counts as
\* not given, and ?retry= sets the handler's loop and its copy of the chain.
\* What the client knows of the hop (user, tls, decoy) is not its to say.
build_handler_options(p, node, chain_retries) ==
    [proto |-> p, auto |-> node.scheme = "auto", user |-> "none",
     needs |-> IF node.secrets # "none" THEN node.secrets = "read" ELSE node.user,
     tls |-> FALSE, decoy |-> FALSE,
     bars |-> IF node.lists_parse THEN node.bars ELSE {}, skips |-> node.bypass,
     loops |-> node.retry, retries |-> IF node.retry > 0 THEN node.retry ELSE chain_retries,
     inner |-> node.chained]

\* A route: its hops, CONNECT or BIND, the chain's retries, whether the target
\* is a name, whether the client waits for the answer before it writes, who
\* is unreachable, and three bounds: the payload messages of the two ends,
\* and the connections that fail, break or are dropped.
ASSUME ProxyConstants ==
    /\ \A r \in Routes :
          /\ r.hops # <<>> /\ \A i \in DOMAIN r.hops : r.hops[i] \in Hops
          /\ r.cmd \in {"connect", "bind"} /\ r.tries \in Nat \ {0}
          /\ r.named \in BOOLEAN /\ r.eager \in BOOLEAN /\ r.dead \subseteq Nat
          /\ r.up \in Nat /\ r.down \in Nat /\ r.faults \in Nat

VARIABLES
    route,      \* the route of this behaviour
    try,        \* the attempt dial_with_options is at
    cl,         \* the dialling side and the application above it
    end,        \* the program at the lower end of each link
    link,       \* the links: two queues and the state of both ends
    faults      \* failures so far

vars == <<route, try, cl, end, link, faults>>

N == Len(route.hops)
Target == N + 1
Links == (1 .. route.tries) \X (1 .. N + 1)
Below(k) == <<k[1], k[2] + 1>>
Top == <<try, 1>>

\* A message: its kind, an address, and a value.
Msg(kind, a, v) == [k |-> kind, a |-> a, v |-> v]
Payload(n) == Msg("data", Target, n)

\* An end of a link is open, has shut its write half, has been dropped, or
\* was cut off.
Over == {"gone", "cut"}
NoLink == [up |-> <<>>, down |-> <<>>, hi |-> "none", lo |-> "none"]
NewLink == [NoLink EXCEPT !.hi = "open", !.lo = "open"]
Idle == [at |-> "none", to |-> 0, cmd |-> "connect", dst |-> 0, left |-> 0, tried |-> 0,
         hold |-> <<>>, owes |-> FALSE, method |-> "", got |-> <<>>, wrote |-> 0]
Accepted(p) == [Idle EXCEPT !.to = p, !.at = IF p = Target THEN "app" ELSE "first"]

Up(L, k, ms) == IF L[k].lo \in Over THEN L ELSE [L EXCEPT ![k].up = @ \o ms]
Down(L, k, ms) == IF L[k].hi \in Over THEN L ELSE [L EXCEPT ![k].down = @ \o ms]
DropLow(L, k) == IF L[k].lo = "cut" THEN L ELSE [L EXCEPT ![k].lo = "gone", ![k].up = <<>>]
DropHigh(L, k) == IF L[k].hi \in {"cut", "none"} THEN L
                  ELSE [L EXCEPT ![k].hi = "gone", ![k].down = <<>>]

Init ==
    /\ route \in Routes
    /\ try = 1
    /\ cl = [at |-> "dial", hop |-> 1, lazy |-> <<>>, method |-> "", wrote |-> 0, got |-> <<>>]
    /\ end = [k \in Links |-> Idle]
    /\ link = [k \in Links |-> NoLink]
    /\ faults = 0

Fault == faults < route.faults /\ faults' = faults + 1

\* A connect that fails: nobody listens there, or the network lost it.
Refused(p) == \/ p \in route.dead /\ UNCHANGED faults
              \/ p \notin route.dead /\ Fault

-----------------------------------------------------------------------------
(* The dialling side: Chain::dial_with_options, dial_once, connect_via.    *)

Hop == route.hops[cl.hop]

\* mutant: every hop is asked for the target itself.
hop_target_direct(p) == Target

\* What hop p is asked for: the next hop, or the target on the last one.
hop_target(p) == IF p = N THEN Target ELSE p + 1

\* A client that asks to BIND talks to the first hop only.
Asked == IF route.cmd = "bind" THEN Target ELSE hop_target(cl.hop)

\* mutant: one attempt too many.
FailWith_off_by_one(L) ==
    /\ link' = DropHigh(L, Top)
    /\ IF try <= route.tries
       THEN /\ try' = try + 1
            /\ cl' = [cl EXCEPT !.at = "dial", !.hop = 1, !.lazy = <<>>]
       ELSE /\ try' = try
            /\ cl' = [cl EXCEPT !.at = "failed"]

\* An attempt has failed: its connection is dropped, and the next one starts.
FailWith(L) ==
    /\ link' = DropHigh(L, Top)
    /\ IF try < route.tries
       THEN /\ try' = try + 1
            /\ cl' = [cl EXCEPT !.at = "dial", !.hop = 1, !.lazy = <<>>]
       ELSE /\ try' = try
            /\ cl' = [cl EXCEPT !.at = "failed"]

\* connect_via has returned: the next hop, or the connection is handed over.
Passed(c) == IF c.hop = N \/ route.cmd = "bind" THEN [c EXCEPT !.at = "open"]
             ELSE [c EXCEPT !.at = "connect", !.hop = c.hop + 1]

\* connect_tcp to the first hop.
ConnectTcp ==
    /\ cl.at = "dial"
    /\ \/ /\ 1 \notin route.dead
          /\ link' = [link EXCEPT ![Top] = NewLink]
          /\ end' = [end EXCEPT ![Top] = Accepted(1)]
          /\ cl' = [cl EXCEPT !.at = "connect"]
          /\ UNCHANGED <<try, faults>>
       \/ /\ Refused(1)
          /\ FailWith(link)
          /\ UNCHANGED end
    /\ UNCHANGED route

\* The request of each protocol's connector.  A BIND comes from a client of
\* its own; the connectors of the chain only ask to CONNECT.
Asking(user) == [user |-> user, cmd |-> route.cmd]
Socks5Asks(a) == Msg("socks5", a, Asking("none"))
socks4_connect(h, a) == Msg("socks4", a, Asking(h.user))
http_connect(h, a) == Msg("http", a, Asking(h.user))
http2_connect(a) == Msg("http2", a, Asking("none"))
RelayConnect(h, a) == Msg("relay", a, Asking(h.user))
ShadowConnect(a) == Msg("ss", a, Asking("none"))

Request(h, a) ==
    CASE h.proto \in {"socks4", "socks4a"} -> socks4_connect(h, a)
      [] h.proto = "http"  -> http_connect(h, a)
      [] h.proto = "http2" -> http2_connect(a)
      [] h.proto = "relay" -> RelayConnect(h, a)
      [] h.proto = "ss"    -> ShadowConnect(a)

\* SOCKS4 without the extension takes no names.
Unnameable(h, a) == h.proto = "socks4" /\ a = Target /\ route.named

methods(h) == {"none"} \cup (IF h.user # "none" THEN {"pass"} ELSE {})
                       \cup (IF h.tls THEN {"tls"} ELSE {})

\* Protocols whose connector waits for an answer, and those that trust the
\* hop and go on.
Confirming == {"socks5", "socks4", "socks4a", "http", "http2"}

connect_via ==
    /\ cl.at = "connect"
    /\ LET p == Hop.proto
           a == Asked
       IN \/ /\ p = "socks5"
             /\ link' = Up(link, Top, <<Msg("greet", 0, methods(Hop))>>)
             /\ cl' = [cl EXCEPT !.at = "method"]
             /\ UNCHANGED try
          \/ /\ Unnameable(Hop, a)
             /\ FailWith(link)
          \/ /\ p \in Confirming \ {"socks5"}
             /\ ~Unnameable(Hop, a)
             /\ link' = Up(link, Top, <<Request(Hop, a)>>)
             /\ cl' = [cl EXCEPT !.at = "reply"]
             /\ UNCHANGED try
          \/ /\ p = "relay"
             /\ link' = Up(link, Top, <<Request(Hop, a)>>)
             /\ cl' = [Passed(cl) EXCEPT !.lazy = Append(@, cl.hop)]
             /\ UNCHANGED try
          \/ /\ p = "ss"
             /\ link' = Up(link, Top, <<Request(Hop, a)>>)
             /\ cl' = Passed(cl)
             /\ UNCHANGED try
          \/ /\ p \in {"sni", "forward", "redirect"}
             /\ cl' = Passed(cl)
             /\ UNCHANGED <<link, try>>
    /\ UNCHANGED <<route, end, faults>>

Waiting == cl.at \in {"method", "tls", "auth", "reply", "peer"}

\* What the client reads now is behind the answers its RelayConns have yet
\* to take off the stream.
Incoming(k) == link[k].down # <<>>
Answer == Head(link[Top].down)

\* RelayConn::poll_read takes the answer of a relay hop off the stream the
\* first time anything is read; a refusal is an error of the read.
ReadsRelayAnswer ==
    /\ Waiting \/ cl.at = "open"
    /\ cl.lazy # <<>> /\ Incoming(Top) /\ Answer.k = "relayed"
    /\ \/ /\ Answer.v
          /\ link' = [link EXCEPT ![Top].down = Tail(@)]
          /\ cl' = [cl EXCEPT !.lazy = Tail(@)]
          /\ UNCHANGED try
       \/ /\ ~Answer.v /\ cl.at # "open"
          /\ FailWith(link)
       \/ /\ ~Answer.v /\ cl.at = "open"
          /\ link' = DropHigh(link, Top)
          /\ cl' = [cl EXCEPT !.at = "closed"]
          /\ UNCHANGED try
    /\ UNCHANGED <<route, end, faults>>

\* mutant: what arrived with the head of the answer is thrown away.
unread_drop(q) == <<>>

\* The messages left once the head of an HTTP answer has been read: what
\* arrived with it is pushed back.
unread(q) == Tail(q)

\* One answer, and the message that follows it.
Takes(kind) == Waiting /\ cl.lazy = <<>> /\ Incoming(Top) /\ Answer.k = kind

SendNext(at, m) ==
    /\ link' = Up([link EXCEPT ![Top].down = Tail(@)], Top, <<m>>)
    /\ cl' = [cl EXCEPT !.at = at, !.method = IF cl.at = "method" THEN Answer.v ELSE @]
    /\ UNCHANGED try

AfterTls(m) ==
    \/ /\ m \in {"none", "tls"}
       /\ SendNext("reply", Socks5Asks(Asked))
    \/ /\ m \in {"pass", "tlspass"} /\ Hop.user # "none"
       /\ SendNext("auth", Msg("auth", 0, Hop.user))
    \/ /\ m \in {"pass", "tlspass"} /\ Hop.user = "none"
       /\ FailWith(link)

socks5_connect ==
    /\ \/ /\ cl.at = "method" /\ Takes("method")
          /\ \/ Answer.v \in {"tls", "tlspass"} /\ SendNext("tls", Msg("tls", 0, 0))
             \/ Answer.v \in {"none", "pass"} /\ AfterTls(Answer.v)
             \/ Answer.v = "no" /\ FailWith(link)
       \/ /\ cl.at = "tls" /\ Takes("tls")
          /\ AfterTls(cl.method)
       \/ /\ cl.at = "auth" /\ Takes("auth")
          /\ \/ Answer.v /\ SendNext("reply", Socks5Asks(Asked))
             \/ ~Answer.v /\ FailWith(link)
    /\ UNCHANGED <<route, end, faults>>

\* The answer to the request.  A BIND has two: the listener is bound, and
\* later a peer has connected.
ReadsReply ==
    /\ cl.at \in {"reply", "peer"} /\ Takes("reply")
    /\ \/ /\ Answer.v
          /\ link' = [link EXCEPT ![Top].down =
                         IF Hop.proto = "http" THEN unread(@) ELSE Tail(@)]
          /\ cl' = IF route.cmd = "bind" /\ cl.at = "reply" THEN [cl EXCEPT !.at = "peer"]
                   ELSE Passed(cl)
          /\ UNCHANGED try
       \/ /\ ~Answer.v
          /\ FailWith(link)
    /\ UNCHANGED <<route, end, faults>>

\* mutant: a read of nothing is taken for "not yet".
ReadsEnd_retry == FALSE

\* The connection ends while an answer is awaited.
ReadsEnd ==
    /\ Waiting /\ ~Incoming(Top)
    /\ link[Top].lo \in {"shut"} \cup Over
    /\ FailWith(link)
    /\ UNCHANGED <<route, end, faults>>

Dials == ConnectTcp \/ connect_via \/ ReadsRelayAnswer \/ socks5_connect \/ ReadsReply \/ ReadsEnd

-----------------------------------------------------------------------------
(* The application above the dialled connection.                           *)

\* SniClientConn hides the name in the first record it writes, and the
\* handler of the hop puts it back.
rewrite_client_hello(m, hide) == [m EXCEPT !.k = IF hide THEN "hidden" ELSE "data"]
Written(n) == IF n = 1 /\ Hop.proto = "sni" /\ Hop.decoy
              THEN rewrite_client_hello(Payload(n), TRUE) ELSE Payload(n)

\* An eager client of an HTTP hop does not wait for the answer.
AppWrites ==
    /\ cl.at = "open" \/ (route.eager /\ cl.at = "reply" /\ cl.hop = N)
    /\ cl.wrote < route.up /\ link[Top].hi = "open"
    /\ link' = Up(link, Top, <<Written(cl.wrote + 1)>>)
    /\ cl' = [cl EXCEPT !.wrote = @ + 1]
    /\ UNCHANGED <<route, try, end, faults>>

AppReads ==
    /\ cl.at = "open" /\ cl.lazy = <<>> /\ Incoming(Top)
    /\ link' = [link EXCEPT ![Top].down = Tail(@)]
    /\ cl' = [cl EXCEPT !.got = Append(@, Answer)]
    /\ UNCHANGED <<route, try, end, faults>>

AppShuts ==
    /\ cl.at = "open" /\ link[Top].hi = "open"
    /\ link' = [link EXCEPT ![Top].hi = "shut"]
    /\ UNCHANGED <<route, try, cl, end, faults>>

\* End of stream, or a broken connection: the application closes.
AppCloses ==
    /\ cl.at = "open" /\ ~Incoming(Top) /\ link[Top].lo \in {"shut"} \cup Over
    /\ link' = DropHigh(link, Top)
    /\ cl' = [cl EXCEPT !.at = "closed"]
    /\ UNCHANGED <<route, try, end, faults>>

\* The user gives up, at any time.
AppDrops ==
    /\ cl.at \in {"open", "connect"} \/ Waiting
    /\ Fault
    /\ link' = DropHigh(link, Top)
    /\ cl' = [cl EXCEPT !.at = "gone"]
    /\ UNCHANGED <<route, try, end>>

Application == AppWrites \/ AppReads \/ AppShuts \/ AppCloses \/ AppDrops

-----------------------------------------------------------------------------
(* The handlers.                                                           *)

Config(k) == route.hops[end[k].to]
Pending(k) == link[k].up # <<>>
First(k) == Head(link[k].up)

\* What a handler can be opened with; the AutoHandler tells by the first byte.
Opening(h) ==
    IF h.auto THEN {"greet", "socks4", "http"}
    ELSE CASE h.proto = "socks5" -> {"greet"}
           [] h.proto \in {"socks4", "socks4a"} -> {"socks4"}
           [] h.proto = "sni" -> {"data", "hidden"}
           [] OTHER -> {h.proto}

\* The next message of handler k is of this kind, and it waits for it.
Gets(k, at, kind) ==
    /\ end[k].at = at /\ end[k].to # Target /\ Pending(k) /\ First(k).k = kind
    /\ at = "first" => kind \in Opening(Config(k))

\* The handler has read that message, said ms and is now as e.
Answers(k, ms, e) ==
    /\ link' = Down([link EXCEPT ![k].up = Tail(@)], k, ms)
    /\ end' = [end EXCEPT ![k] = e]

\* The handler returns: both its connections are dropped.
Returns(L, k) ==
    /\ link' = LET M == DropLow(L, k)
               IN IF Below(k) \in Links THEN DropHigh(M, Below(k)) ELSE M
    /\ end' = [end EXCEPT ![k].at = "done"]

Refuses(k, ms) == Returns(Down(link, k, ms), k)

Reply(ok) == Msg("reply", 0, ok)

\* What the handlers ask: the permissions and the bypass about the address,
\* the authenticator about the user.  Not every handler asks all of them.
Can(h, a) == a \notin h.bars
contains(h, a) == a \in h.skips
authenticate(h, user) == h.needs => user = "good"

AsksCan == {"socks5", "socks4", "socks4a", "http", "relay", "ss", "sni", "redirect"}
AsksBypass == {"socks5", "socks4", "socks4a", "http", "http2", "ss", "sni", "redirect"}
AsksUser == {"http", "http2", "relay"}

Admits(h, m) ==
    /\ h.proto \in AsksCan => Can(h, m.a)
    /\ h.proto \in AsksBypass => ~contains(h, m.a)
    /\ h.proto \in AsksUser => authenticate(h, m.v.user)

\* The method Socks5Handler picks: TLS when offered, and the authenticating
\* variant once credentials are configured.
method(h, offered) ==
    IF h.needs /\ offered \cap {"pass", "tls"} = {} THEN "no"
    ELSE IF "tls" \in offered THEN (IF h.needs THEN "tlspass" ELSE "tls")
         ELSE (IF h.needs THEN "pass" ELSE "none")

AfterMethod(m) == IF m \in {"pass", "tlspass"} THEN "auth" ELSE "request"

Serves(k, proto) == Config(k).proto = proto

Socks5Greeting(k) ==
    /\ Gets(k, "first", "greet")
    /\ LET m == method(Config(k), First(k).v)
       IN IF m = "no" THEN Refuses(k, <<Msg("method", 0, m)>>)
          ELSE Answers(k, <<Msg("method", 0, m)>>,
                       [end[k] EXCEPT !.method = m,
                                      !.at = IF m \in {"tls", "tlspass"} THEN "tls" ELSE AfterMethod(m)])

Socks5Tls(k) ==
    /\ Gets(k, "tls", "tls")
    /\ Answers(k, <<Msg("tls", 0, 0)>>, [end[k] EXCEPT !.at = AfterMethod(end[k].method)])

Socks5Auth(k) ==
    /\ Gets(k, "auth", "auth")
    /\ IF authenticate(Config(k), First(k).v)
       THEN Answers(k, <<Msg("auth", 0, TRUE)>>, [end[k] EXCEPT !.at = "request"])
       ELSE Refuses(k, <<Msg("auth", 0, FALSE)>>)

\* mutant: the chain is not pinned to one attempt.
dial_setup_product(h) ==
    (IF h.loops > 0 THEN h.loops ELSE 1) * (IF h.retries > 0 THEN h.retries ELSE 1)

\* How often a handler dials: its own setting, the chain's, or once.  The
\* SOCKS handlers pin the chain to one attempt, the HTTP ones and the
\* forwarder loop around a chain that loops too, the others leave it to the
\* chain.
AtLeast1(n) == IF n > 0 THEN n ELSE 1
dial_setup(h) == IF h.loops > 0 THEN h.loops ELSE AtLeast1(h.retries)
Attempts(h) ==
    CASE h.proto \in {"socks5", "socks4", "socks4a"} -> dial_setup(h)
      [] h.proto \in {"http", "http2", "forward"}    -> AtLeast1(h.loops) * AtLeast1(h.retries)
      [] OTHER                                       -> AtLeast1(h.retries)

\* A request to connect: refused with an answer, or on to the dial.
HandleConnect(k, refusal, held) ==
    LET h == Config(k)
        m == First(k)
    IN IF ~Admits(h, m) THEN Refuses(k, refusal)
       ELSE /\ link' = [link EXCEPT ![k].up = SubSeq(@, 2 + Len(held), Len(@))]
            /\ end' = [end EXCEPT ![k].at = "dial", ![k].dst = m.a, ![k].left = Attempts(h),
                                  ![k].hold = held]

\* A BIND is forwarded to the last node of the handler's chain, or the
\* handler listens itself, which can fail.
Forwards(k) ==
    /\ Answers(k, <<>>, [end[k] EXCEPT !.at = "dial", !.dst = end[k].to + 1, !.left = 1,
                                       !.cmd = "bind"])
    /\ UNCHANGED faults

Listens(k) ==
    \/ /\ Answers(k, <<Reply(TRUE)>>, [end[k] EXCEPT !.at = "bound", !.cmd = "bind"])
       /\ UNCHANGED faults
    \/ /\ Refuses(k, <<Reply(FALSE)>>)
       /\ Fault

NotPermitted(k) ==
    /\ ~Can(Config(k), First(k).a)
    /\ Refuses(k, <<Reply(FALSE)>>)
    /\ UNCHANGED faults

\* The SOCKS5 handler asks its permissions only when it listens itself, the
\* SOCKS4 one in both cases.
Socks5Bind(k) ==
    \/ Config(k).inner /\ Forwards(k)
    \/ ~Config(k).inner /\ NotPermitted(k)
    \/ ~Config(k).inner /\ Can(Config(k), First(k).a) /\ Listens(k)

Socks4Bind(k) ==
    \/ NotPermitted(k)
    \/ Can(Config(k), First(k).a) /\ Config(k).inner /\ Forwards(k)
    \/ Can(Config(k), First(k).a) /\ ~Config(k).inner /\ Listens(k)

Socks5Request(k) ==
    /\ Gets(k, "request", "socks5")
    /\ \/ First(k).v.cmd = "connect" /\ HandleConnect(k, <<Reply(FALSE)>>, <<>>) /\ UNCHANGED faults
       \/ First(k).v.cmd = "bind" /\ Socks5Bind(k)

\* mutant: SOCKS4 is let in whatever is configured.
AutoTurnsAway_never(k) == FALSE

\* The AutoHandler turns SOCKS4 away when credentials are configured.
AutoTurnsAway(k) == Config(k).auto /\ Config(k).needs

Socks4Request(k) ==
    /\ Gets(k, "first", "socks4")
    /\ \/ AutoTurnsAway(k) /\ Refuses(k, <<>>) /\ UNCHANGED faults
       \/ /\ ~AutoTurnsAway(k) /\ First(k).v.cmd = "connect"
          /\ HandleConnect(k, <<Reply(FALSE)>>, <<>>)
          /\ UNCHANGED faults
       \/ ~AutoTurnsAway(k) /\ First(k).v.cmd = "bind" /\ Socks4Bind(k)

\* The BufReader of HttpHandler may have read past the head of the request.
HttpRequest(k) ==
    /\ Gets(k, "first", "http")
    /\ \E n \in 0 .. Len(link[k].up) - 1 :
          HandleConnect(k, <<Reply(FALSE)>>, SubSeq(link[k].up, 2, n + 1))

Http2Request(k) == Gets(k, "first", "http2") /\ HandleConnect(k, <<Reply(FALSE)>>, <<>>)
RelayRequest(k) == Gets(k, "first", "relay") /\ HandleConnect(k, <<Msg("relayed", 0, FALSE)>>, <<>>)
ShadowRequest(k) == Gets(k, "first", "ss") /\ HandleConnect(k, <<>>, <<>>)

\* SniHandler peeks at the ClientHello, which stays in the buffer of the
\* connection until the dial is done.
SniHello(k) ==
    /\ end[k].at = "first" /\ end[k].to # Target /\ Serves(k, "sni") /\ Pending(k)
    /\ IF ~Admits(Config(k), First(k)) THEN Refuses(k, <<>>)
       ELSE Answers(k, <<>>, [end[k] EXCEPT !.at = "dial", !.dst = First(k).a, !.hold = <<First(k)>>,
                                            !.left = Attempts(Config(k))])

\* TcpDirectForwardHandler dials its target without reading anything.
ForwardAccepts(k) ==
    /\ end[k].at = "first" /\ end[k].to # Target /\ Serves(k, "forward")
    /\ end' = [end EXCEPT ![k].at = "dial", ![k].dst = end[k].to + 1, ![k].left = Attempts(Config(k))]
    /\ UNCHANGED link

\* TcpRedirectHandler dials where the connection was going before the
\* firewall handed it over; the address may be unknown, or the handler's own.
RedirectAccepts(k) ==
    LET a == end[k].to + 1
    IN /\ end[k].at = "first" /\ end[k].to # Target /\ Serves(k, "redirect")
       /\ \/ Returns(link, k) /\ Fault
          \/ /\ ~Admits(Config(k), [a |-> a])
             /\ Returns(link, k) /\ UNCHANGED faults
          \/ /\ Admits(Config(k), [a |-> a])
             /\ end' = [end EXCEPT ![k].at = "dial", ![k].dst = a, ![k].left = Attempts(Config(k))]
             /\ UNCHANGED <<link, faults>>

\* The peer is gone before its request is complete.
RequestEnds(k) ==
    /\ end[k].at \in {"first", "tls", "auth", "request"} /\ end[k].to # Target
    /\ ~Pending(k) /\ link[k].hi \in {"shut"} \cup Over
    /\ Returns(link, k)

\* mutant: what was read ahead with the request is lost.
Established_drops(k) ==
    LET L == [link EXCEPT ![Below(k)] = NewLink]
    IN IF Config(k).proto \in Confirming THEN Down(L, k, <<Reply(TRUE)>>) ELSE L

\* The dial has succeeded: the answer goes out, and what was read ahead goes
\* on.  RelayHandler keeps the answer until there is payload to send.
Established(k) ==
    LET h == Config(k)
        L == [link EXCEPT ![Below(k)] = NewLink]
    IN CASE h.proto \in Confirming ->
              Up(Down(L, k, <<Reply(TRUE)>>), Below(k), end[k].hold)
         [] h.proto = "sni" ->
              Up(L, Below(k), <<rewrite_client_hello(Head(end[k].hold), FALSE)>>)
         [] OTHER -> L

DialOk(k) ==
    /\ end[k].at = "dial" /\ end[k].dst \notin route.dead /\ Below(k) \in Links
    /\ \/ /\ end[k].cmd = "connect"
          /\ link' = Established(k)
          /\ end' = [end EXCEPT ![k].at = "relay", ![k].hold = <<>>, ![k].tried = @ + 1,
                                ![k].owes = Serves(k, "relay"),
                                ![Below(k)] = Accepted(end[k].dst)]
       \/ /\ end[k].cmd = "bind"
          /\ LET socks5 == route.hops[end[k].dst].proto = "socks5"
             IN /\ link' = Up([link EXCEPT ![Below(k)] = NewLink], Below(k),
                              <<IF socks5 THEN Msg("greet", 0, methods([route.hops[end[k].dst] EXCEPT !.tls = FALSE]))
                                ELSE socks4_connect(route.hops[end[k].dst], Target)>>)
                /\ end' = [end EXCEPT ![k].at = IF socks5 THEN "imethod" ELSE "relay",
                                      ![k].tried = @ + 1, ![Below(k)] = Accepted(end[k].dst)]

\* mutant: the failure is reported as a success.
Unreachable_granted(h) == IF h.proto \in Confirming THEN <<Reply(TRUE)>> ELSE <<>>

\* What a handler says when the last attempt has failed.
Unreachable(h) ==
    CASE h.proto \in Confirming -> <<Reply(FALSE)>>
      [] h.proto = "relay" -> <<Msg("relayed", 0, FALSE)>>
      [] OTHER -> <<>>

DialFails(k) ==
    /\ end[k].at = "dial" /\ Refused(end[k].dst)
    /\ IF end[k].left > 1
       THEN /\ end' = [end EXCEPT ![k].left = @ - 1, ![k].tried = @ + 1]
            /\ UNCHANGED link
       ELSE /\ link' = DropLow(Down(link, k, Unreachable(Config(k))), k)
            /\ end' = [end EXCEPT ![k].at = "done", ![k].tried = @ + 1]

\* socks5_method_handshake, with which a handler forwards a BIND.
InnerAnswer(k) == Head(link[Below(k)].down)
InnerHears(k, at) == end[k].at = at /\ Below(k) \in Links /\ Incoming(Below(k))
InnerSends(k, at, m) ==
    /\ link' = Up([link EXCEPT ![Below(k)].down = Tail(@)], Below(k), <<m>>)
    /\ end' = [end EXCEPT ![k].at = at]

socks5_method_handshake(k) ==
    \/ /\ InnerHears(k, "imethod")
       /\ LET m == InnerAnswer(k).v
              user == route.hops[end[k].dst].user
          IN \/ m = "none" /\ InnerSends(k, "relay", Socks5Asks(Target))
             \/ m = "pass" /\ user # "none" /\ InnerSends(k, "iauth", Msg("auth", 0, user))
             \/ m = "no" /\ Refuses(k, <<Reply(FALSE)>>)
    \/ /\ InnerHears(k, "iauth")
       /\ \/ InnerAnswer(k).v /\ InnerSends(k, "relay", Socks5Asks(Target))
          \/ ~InnerAnswer(k).v /\ Refuses(k, <<Reply(FALSE)>>)
    \/ /\ end[k].at \in {"imethod", "iauth"} /\ ~Incoming(Below(k))
       /\ link[Below(k)].lo \in {"shut"} \cup Over
       /\ Refuses(k, <<Reply(FALSE)>>)

\* bind_on: the peer connects, which is told to the client, or the control
\* connection says anything at all, or the listener fails.
BoundAccepts(k) ==
    /\ end[k].at = "bound" /\ Below(k) \in Links
    /\ link' = Down([link EXCEPT ![Below(k)] = NewLink], k, <<Reply(TRUE)>>)
    /\ end' = [end EXCEPT ![k].at = "relay", ![Below(k)] = Accepted(Target)]

\* mutant: the control connection is not watched while the listener waits.
BoundEnds_unwatched(k) == FALSE

BoundEnds(k) ==
    /\ end[k].at = "bound"
    /\ Pending(k) \/ link[k].hi \in {"shut"} \cup Over
    /\ Returns(link, k)

-----------------------------------------------------------------------------
(* transport: each direction is copied until it ends, and then only that   *)
(* direction is shut.  An error ends both.                                 *)

Splicing(k) == end[k].at = "relay"
Owed(k) == IF end[k].owes THEN <<Msg("relayed", 0, TRUE)>> ELSE <<>>
Broken(k) == "cut" \in {link[k].hi, link[Below(k)].lo}

CopyUp(k) ==
    /\ Splicing(k) /\ ~Broken(k) /\ Pending(k) /\ link[Below(k)].lo \notin Over
    /\ link' = Up([link EXCEPT ![k].up = Tail(@)], Below(k), <<First(k)>>)
    /\ UNCHANGED end

CopyDown(k) ==
    /\ Splicing(k) /\ ~Broken(k) /\ Incoming(Below(k)) /\ link[k].hi \notin Over
    /\ link' = Down([link EXCEPT ![Below(k)].down = Tail(@)], k,
                    Append(Owed(k), InnerAnswer(k)))
    /\ end' = [end EXCEPT ![k].owes = FALSE]

ShutUp(k) ==
    /\ Splicing(k) /\ ~Broken(k) /\ ~Pending(k)
    /\ link[k].hi \in {"shut", "gone"} /\ link[Below(k)].hi = "open"
    /\ link' = [link EXCEPT ![Below(k)].hi = "shut"]
    /\ UNCHANGED end

ShutDown(k) ==
    /\ Splicing(k) /\ ~Broken(k) /\ ~Incoming(Below(k))
    /\ link[Below(k)].lo \in {"shut", "gone"} /\ link[k].lo = "open"
    /\ link' = [Down(link, k, Owed(k)) EXCEPT ![k].lo = "shut"]
    /\ end' = [end EXCEPT ![k].owes = FALSE]

transportEnds(k) ==
    /\ Splicing(k)
    /\ \/ link[Below(k)].hi = "shut" /\ link[k].lo = "shut"
       \/ Broken(k)
       \/ Incoming(Below(k)) /\ link[k].hi = "gone"
       \/ Pending(k) /\ link[Below(k)].lo = "gone"
    /\ Returns(link, k)

-----------------------------------------------------------------------------
(* The target.                                                             *)

AtTarget(k) == end[k].to = Target /\ end[k].at = "app"

TargetReads(k) ==
    /\ AtTarget(k) /\ Pending(k)
    /\ link' = [link EXCEPT ![k].up = Tail(@)]
    /\ end' = [end EXCEPT ![k].got = Append(@, First(k))]

TargetWrites(k) ==
    /\ AtTarget(k) /\ end[k].wrote < route.down /\ link[k].lo = "open"
    /\ link' = Down(link, k, <<Payload(end[k].wrote + 1)>>)
    /\ end' = [end EXCEPT ![k].wrote = @ + 1]

TargetShuts(k) ==
    /\ AtTarget(k) /\ link[k].lo = "open"
    /\ link' = [link EXCEPT ![k].lo = "shut"]
    /\ UNCHANGED end

TargetCloses(k) ==
    /\ AtTarget(k) /\ ~Pending(k) /\ link[k].hi \in {"shut"} \cup Over
    /\ link' = DropLow(link, k)
    /\ end' = [end EXCEPT ![k].at = "done"]

\* A connection breaks under both its ends.
Cuts(k) ==
    /\ link[k].hi # "none" /\ ~({link[k].hi, link[k].lo} \subseteq Over)
    /\ Fault
    /\ link' = [link EXCEPT ![k] = [up |-> <<>>, down |-> <<>>, hi |-> "cut", lo |-> "cut"]]
    /\ UNCHANGED <<route, try, cl, end>>

Handles(k) ==
    /\ \/ /\ \/ Socks5Greeting(k) \/ Socks5Tls(k) \/ Socks5Auth(k)
             \/ HttpRequest(k) \/ Http2Request(k) \/ RelayRequest(k) \/ ShadowRequest(k)
             \/ SniHello(k) \/ ForwardAccepts(k) \/ RequestEnds(k) \/ DialOk(k)
             \/ socks5_method_handshake(k) \/ BoundEnds(k)
             \/ CopyUp(k) \/ CopyDown(k) \/ ShutUp(k) \/ ShutDown(k) \/ transportEnds(k)
          /\ UNCHANGED faults
       \/ Socks5Request(k) \/ Socks4Request(k) \/ RedirectAccepts(k) \/ DialFails(k)
    /\ UNCHANGED <<route, try, cl>>

Targets(k) == (TargetReads(k) \/ TargetCloses(k)) /\ UNCHANGED <<route, try, cl, faults>>
Chooses(k) == (TargetWrites(k) \/ TargetShuts(k) \/ BoundAccepts(k)) /\ UNCHANGED <<route, try, cl, faults>>

Next ==
    \/ Dials \/ Application
    \/ \E k \in Links : Handles(k) \/ Targets(k) \/ Chooses(k) \/ Cuts(k)

\* Nothing makes the application, the user or the target write or close, a
\* peer come to a bound listener or a connection break; what has arrived is
\* read.
Progress ==
    \/ Dials \/ AppReads \/ AppCloses
    \/ \E k \in Links : Handles(k) \/ Targets(k)

Spec == Init /\ [][Next]_vars
FairSpec == Spec /\ WF_vars(Progress)

-----------------------------------------------------------------------------
(* Properties.                                                             *)

\* The shape of the state: attempts stay within the chain's retries, a
\* handler dials only parties of the route, and no more faults than allowed.
TypeOK ==
    /\ route \in Routes /\ try \in 1 .. route.tries /\ faults \in 0 .. route.faults
    /\ cl.hop \in 1 .. N /\ cl.wrote \in 0 .. route.up
    /\ \A k \in Links :
          /\ end[k].to \in 0 .. Target /\ end[k].dst \in 0 .. Target /\ end[k].left \in Nat
          /\ link[k].hi \in {"none", "open", "shut", "gone", "cut"}
          /\ link[k].lo \in {"none", "open", "shut", "gone", "cut"}
          /\ (link[k].hi = "none") = (end[k].at = "none")

Expected(k) ==
    CASE end[k].at = "first" -> Opening(Config(k))
      [] end[k].at = "request" -> {"socks5"}
      [] OTHER -> {end[k].at}

\* Every message is read by the party it is meant for: a handler that waits
\* for a step of its handshake finds that step, a connector finds its answer
\* (the RelayConn of a hop before it has taken its own off), and only
\* payload, with the name the application wrote, reaches the application and
\* the target.  Several hops' handshakes and splices share each link.
Unmixed ==
    /\ \A k \in Links :
          /\ (end[k].at \in {"first", "tls", "auth", "request"} /\ Pending(k)
               /\ Config(k).proto \notin {"forward", "redirect"})
                 => First(k).k \in Expected(k)
          /\ \A j \in DOMAIN end[k].got : end[k].got[j] = Payload(end[k].got[j].v)
    /\ \A j \in DOMAIN cl.got : cl.got[j].k = "data"
    /\ (Waiting /\ Incoming(Top)) =>
          Answer.k = IF cl.lazy # <<>> THEN "relayed"
                     ELSE IF cl.at = "peer" THEN "reply" ELSE cl.at

\* Payload arrives in order, without a gap or a repeat, and through one
\* attempt only, whatever was read ahead, pushed back or held on the way.
PayloadKept ==
    /\ \A j \in DOMAIN cl.got : cl.got[j].v = j
    /\ \A k \in Links : \A j \in DOMAIN end[k].got : end[k].got[j].v = j /\ j <= cl.wrote
    /\ Cardinality({k \in Links : end[k].got # <<>>}) <= 1

ConfirmedRoute == \A i \in 1 .. N : route.hops[i].proto \in Confirming

\* A dial that succeeds through hops that confirm has reached the target:
\* the connection handed over is not one to a proxy, a hop or a listener
\* nobody has connected to.
SuccessIsConnected ==
    (cl.at = "open" /\ ConfirmedRoute) =>
        \E i \in 1 .. N + 1 : end[<<try, i>>].to = Target

\* A SOCKS, relay, Shadowsocks or SNI handler makes no more attempts than
\* its own setting or the chain's, never the product of the two.
RetriesOnce ==
    \A k \in Links :
        (end[k].tried > 0 /\ Config(k).proto \notin {"http", "http2", "forward"}) =>
            end[k].tried <= AtLeast1(IF Config(k).loops > Config(k).retries
                                     THEN Config(k).loops ELSE Config(k).retries)

\* A handler opens a connection for a SOCKS or HTTP client only if the
\* client has shown credentials where some are configured; the AutoHandler
\* does not let SOCKS4, which has none, around that.
OnlyAuthenticated ==
    \A k \in Links :
        LET h == Config(k)
        IN (end[k].to \in 1 .. N /\ end[k].tried > 0 /\ h.needs
            /\ (h.proto \in {"socks5"} \cup AsksUser \/ h.auto)) => h.user = "good"

\* Every dial comes to an end: whatever a hop refuses, fails to reach or
\* leaves half done, the dialling side gets a connection or an error.
DialEnds == []<>(cl.at \notin {"dial", "connect"} /\ ~(Waiting /\ cl.at # "peer"))

\* Nothing refuses on this route, and nobody is unreachable.
ClearRoute ==
    /\ route.dead = {}
    /\ \A i \in 1 .. N :
          LET h == route.hops[i]
          IN h.bars = {} /\ h.skips = {} /\ (h.needs => h.user = "good" /\ ~(h.auto /\ h.proto = "socks4"))

\* Without faults all that either end has written arrives at the other end:
\* nothing is left in a buffer that was read ahead or in an answer that is
\* held back.
AllArrives ==
    []<>((cl.at \in {"open", "closed"} /\ faults = 0 /\ ClearRoute) =>
            LET k == <<try, N + 1>>
            IN end[k].at # "none" => (Len(end[k].got) = cl.wrote /\ Len(cl.got) = end[k].wrote))

\* Once the dialling side is through, by whatever way, no handler and no
\* connection of any attempt is left behind.
NoOrphan ==
    []<>(cl.at \in {"failed", "closed", "gone"} =>
            \A k \in Links : end[k].at \in {"none", "done"})

\* Each message is read by the party it is meant for, and payload comes out in
\* order, through all handshakes, held answers and buffers read ahead.
TunnelExact == TypeOK /\ Unmixed /\ PayloadKept

\* A dial is what it says: success means that the target is reached, a handler
\* makes the attempts it was configured for, and nobody gets past the credentials.
DialHonest == SuccessIsConnected /\ RetriesOnce /\ OnlyAuthenticated

\* Dials end, everything written arrives when nothing breaks, and no handler is
\* left behind.
TunnelEnds == DialEnds /\ AllArrives /\ NoOrphan

====
