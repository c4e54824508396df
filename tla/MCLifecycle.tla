---------------------------- MODULE MCLifecycle ----------------------------
(* Setups for Lifecycle: every listener alone, with two connections and    *)
(* two streams, a plain one with enough errors to reach the longest delay, *)
(* pairs of listeners under one main, every scheme just started, and the   *)
(* texts read at the start.                                                *)
EXTENDS StartupConfig

Kinds == {"tcp", "tls", "ws", "wss", "mtls", "mws", "mwss", "quic", "h2", "h2c", "http2", "ssh"}
Words(k) == CASE k = "ssh" -> <<"forward", "ssh">> [] k = "http2" -> <<"http2">> [] OTHER -> <<"http", k>>
L(words) == [words |-> words, remote |-> FALSE, parses |-> TRUE, builds |-> TRUE, binds |-> TRUE]

Alone(k) == [listen |-> <<L(Words(k))>>, hops |-> <<>>, conns |-> 2, streams |-> 2, errs |-> 1]
Errors == [Alone("tcp") EXCEPT !.conns = 1, !.streams = 0, !.errs = 10]
Two(l, m) == [listen |-> <<l, m>>, hops |-> <<>>, conns |-> 1, streams |-> 1, errs |-> 1]
Pair(j, k) == Two(L(Words(j)), L(Words(k)))

\* Two listeners, of which one cannot be parsed, built or bound.
Faulty == {Two(L(Words("tcp")), [L(Words("ws")) EXCEPT !.parses = FALSE]),
           Two([L(Words("tls")) EXCEPT !.builds = FALSE], L(Words("tcp"))),
           Two([L(Words("tcp")) EXCEPT !.binds = FALSE], [L(Words("ws")) EXCEPT !.binds = FALSE])}

Just(l, f) == [listen |-> l, hops |-> f, conns |-> 0, streams |-> 0, errs |-> 0]
Schemes == {<<p, t>> : p \in {"http", "forward", "rudp", "auto", "dns"}, t \in Transports \cup {"https", "ssu"}}
           \cup {<<w>> : w \in Protocols \cup Transports \cup {"https", "socks", "ss2", "auto"}}

MCSetups == {Alone(k) : k \in Kinds}
            \cup {Errors, Pair("tcp", "mwss"), Pair("quic", "ws"), Pair("ssh", "h2")} \cup Faulty
            \cup {Just(<<L(w)>>, <<>>) : w \in Schemes}
            \cup {Just(<<L(<<"http">>)>>, <<w>>) : w \in Schemes}
            \cup {Just(<<L(<<"rudp">>)>>, <<<<"http">>>>)}

\* Durations with both letters of "ms", and files of up to three lines.
MCAlphabet == {"0", "5", ".", "m", "s", "-"}
User == <<"u">>
Lines == {<<>>, <<User>>, <<User, <<"p", "#", "q">>>>, <<User, <<"p">>>>, <<<<"#">>, User>>, <<<<"#", "u">>, <<"p">>>>,
          <<C!ReloadWord, <<"5", "s">>>>, <<C!ReloadWord, <<"5">>>>, <<C!ReloadWord>>, <<C!ReverseWord, <<"t">>>>,
          <<<<"1">>, <<"h">>, User>>}
MCFiles == UNION {[1 .. n -> Lines] : n \in 0 .. 3}
====
