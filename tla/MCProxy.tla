------------------------------ MODULE MCProxy ------------------------------
(* Routes for Proxy: every protocol alone and in pairs that share a link,  *)
(* clear and with one thing in the way.                                    *)
EXTENDS ProxyHead

Bare == [scheme |-> "as is", secrets |-> "none", user |-> FALSE, lists_parse |-> TRUE,
         bars |-> {}, bypass |-> {}, retry |-> 0, chained |-> FALSE]
Plain(p) == build_handler_options(p, Bare, 0)
Route(hs) == [hops |-> hs, cmd |-> "connect", tries |-> 1, named |-> FALSE, eager |-> FALSE,
              dead |-> {}, up |-> 1, down |-> 1, faults |-> 1]
Asks(p, u) == [build_handler_options(p, [Bare EXCEPT !.user = TRUE], 0) EXCEPT !.user = u]
Secret(p, f, u) == [build_handler_options(p, [Bare EXCEPT !.user = TRUE, !.secrets = f], 0) EXCEPT !.user = u]
Auto(h) == [h EXCEPT !.auto = TRUE]
Tls(h) == [h EXCEPT !.tls = TRUE]
Via(p, q) == Route(<<Plain(p), Plain(q)>>)
One(h) == Route(<<h>>)
Bind(r) == [r EXCEPT !.cmd = "bind"]

Dead(r, p) == [r EXCEPT !.dead = {p}]
Eager(r) == [r EXCEPT !.eager = TRUE, !.up = 2]
Long(r) == [r EXCEPT !.down = 2]
Silent(r) == [r EXCEPT !.down = 0]
Again(r) == [r EXCEPT !.tries = 2]
Named(r) == [r EXCEPT !.named = TRUE]
Retry(p, n, m) == build_handler_options(p, [Bare EXCEPT !.retry = n], m)
Bars(p, a) == build_handler_options(p, [Bare EXCEPT !.bars = {a}], 0)
Skips(p, a) == build_handler_options(p, [Bare EXCEPT !.bypass = {a}], 0)
Inner(p) == build_handler_options(p, [Bare EXCEPT !.chained = TRUE], 0)

Single ==
    {One(Plain(p)) : p \in {"http2", "relay", "ss", "sni", "forward", "redirect"}}
    \cup {One(Asks("socks5", u)) : u \in {"none", "good", "bad"}}
    \cup {One(Tls(Plain("socks5"))), One(Tls(Asks("socks5", "good"))),
          One(Tls(Asks("socks5", "none")))}
    \cup {One(Auto(Asks(p, u))) : p \in {"socks4", "http"}, u \in {"good", "bad"}}
    \cup {Named(One(Plain("socks4"))), Named(One(Plain("socks4a"))),
          Eager(One(Plain("http"))), One([Plain("sni") EXCEPT !.decoy = TRUE])}

Refused1 ==
    {One(Bars(p, 2)) : p \in {"socks5", "relay", "ss", "sni", "redirect"}}
    \cup {One(Skips(p, 2)) : p \in {"socks4", "http", "http2"}}
    \cup {Dead(One(Retry(p, 2, 3)), 2) : p \in {"socks5", "socks4a", "relay", "sni", "http2", "forward", "redirect"}}
    \cup {Dead(One(Retry(p, 0, 3)), 2) : p \in {"socks5", "http"}}
    \cup {One(Secret("socks5", f, "none")) : f \in {"read", "unreadable"}}
    \cup {Dead(One(Plain("ss")), 1), One(Asks("relay", "bad"))}

Pairs ==
    {Via("relay", "socks5"), Via("http", "relay"), Via("ss", "sni"), Via("forward", "socks4"),
     Via("http2", "socks4a"), Long(Via("relay", "relay")), Eager(Via("socks5", "http")),
     Route(<<Tls(Plain("socks5")), Plain("http")>>),
     Silent(Again(Via("socks5", "http"))), Again(Route(<<Plain("http"), Bars("relay", 3)>>)),
     Dead(Again(Via("http", "ss")), 2)}

Binds ==
    {Bind(One(Plain(p))) : p \in {"socks5", "socks4"}}
    \cup {Bind(One(Bars(p, 2))) : p \in {"socks5", "socks4"}}
    \cup {Bind(Route(<<Inner("socks4"), Plain("socks4")>>)),
          Bind(Route(<<Inner("socks5"), Plain("socks5")>>))}
    \cup {Bind(Route(<<Inner("socks5"), Asks("socks5", u)>>)) : u \in {"none", "good", "bad"}}

MCRoutes == Single \cup Refused1 \cup Pairs \cup Binds

\* Names of one letter, with a dot, and of 255; ports at both ends.
MCNames == {<<97>>, <<98, 46, 97>>, [i \in 1 .. 255 |-> 97]}
MCPorts == {0, 80, 255, 256, 65535}
MCRests == {<<>>, <<0, 3, 97>>}
MCTexts == BoundedSeq({58, 91, 93, 97, 10080}, 5)
MCGlobs == BoundedSeq({42, 97, 98}, 4)
MCWords == BoundedSeq({97, 98}, 4)
Rule(h, a, b) == [host |-> h, from |-> a, to |-> b]
MCRules == {<<Rule(<<42>>, 0, 65535)>>, <<Rule(<<97>>, 256, 80)>>,
            <<Rule(<<98, 42, 97>>, 1, 70000), Rule(<<401>>, 80, 80)>>, <<Rule(<<42>>, 70000, 80000)>>}
MCPatterns == {<<<<97>>>>, <<<<46, 97>>, <<402>>>>, <<<<401, 47, 10024>>>>, <<<<401, 47, 10008>>>>,
               <<<<58, 58, 10001>>>>}
MCTables == {<<>>, <<[ip |-> <<58, 58, 10001>>, name |-> <<98>>, aliases |-> <<<<97>>>>],
                     [ip |-> <<401>>, name |-> <<97>>, aliases |-> <<>>]>>}

\* Names of one and of four letters; tickets empty and not.
MCHosts == {<<97>>, <<98, 46, 99, 100>>}
MCTickets == {<<>>, <<22, 3, 1>>}
Path(p) == [host |-> <<>>, port |-> {}, path |-> p]
Req(m, t, lines, w) == [method |-> m, target |-> t, lines |-> lines, whole |-> w]
L(n, v) == [name |-> n, value |-> v]
MCHeads == {Req("get", Path(<<47>>), lines, w) : w \in BOOLEAN, lines \in
              {<<L("x", <<1>>), L("host", <<97, 98>>)>>, <<L("proxy-x", <<1>>)>>,
               <<L("proxy-authorization", <<1>>), L("host", <<97, 58, 80>>), L("proxy-connection", <<1>>)>>}}
           \cup {Req("get", [host |-> <<97>>, port |-> {}, path |-> <<>>], <<L("host", <<98>>)>>, TRUE),
                 Req("connect", [host |-> <<97>>, port |-> {443}, path |-> <<>>], <<L("host", <<98>>)>>, TRUE)}
Resist(m, v, n) == [colon |-> TRUE, mode |-> m, value |-> v, number |-> n]
MCResists == {Resist("code", "404", 404), Resist("code", "70000", 70000)}
             \cup {Resist(m, v, 0) : m \in {"web", "host", "file", "other"}, v \in {"", "http", "https"}}
             \cup {[Resist("host", "http", 0) EXCEPT !.colon = FALSE]}
\* From 1970, over the end of February 2000 and of 2100, and 2400.
MCDays == 0 .. 1500 \cup 10900 .. 11400 \cup 47400 .. 47600 \cup 156900 .. 157200
====
