----------------------------- MODULE MCResolver -----------------------------
(* Instances of Resolver.                                                  *)
EXTENDS DnsCodec

File(servers, ttl, neg, prefer, period) ==
    [is |-> "text", cfg |-> [servers |-> servers, ttl |-> ttl, neg |-> neg, prefer |-> prefer,
                             period |-> period]]

\* Two servers; one behind the chain, with a TTL and a preference; one without
\* caching; none, and no reloading either.
Fixed == File(<<"s1", "s2">>, 0, FALSE, "", 0)
Six == File(<<"s3">>, 1, FALSE, "ipv6", 1)
Uncached == File(<<"s1">>, 0, TRUE, "", 1)
None == File(<<>>, 0, FALSE, "", 0)
Garbled == [is |-> "garbled"]
Missing == [is |-> "missing"]
MCHistories == {<<Fixed>>, <<Uncached, Missing>>, <<Six, None>>, <<Uncached, Six>>, <<Uncached, Garbled>>,
                <<Uncached, Uncached, None>>}
MCNamed == [s1 |-> [base |-> "", chain |-> TRUE], s2 |-> [base |-> "tls", chain |-> FALSE],
            s3 |-> [base |-> "tcp", chain |-> TRUE]]
MCAnswers == {[some |-> FALSE, rr |-> NoTtl, len |-> 40], [some |-> TRUE, rr |-> 0, len |-> 900]}

Ask(mode, t, size) == [mode |-> mode, shakes |-> TRUE, whole |-> TRUE, decodes |-> TRUE, asks |-> t, id |-> 5,
                       size |-> size, method |-> "GET", dns |-> "ok", type |-> TRUE]
Doh == Ask("https", "A", 0)
Requests1 ==
    {Ask("udp", "A", 0), Ask("udp", "several", 4096), Ask("tcp", "A", 0), Ask("udp", "nothing", 0)}
    \cup {[Ask("tls", "A", 0) EXCEPT !.shakes = FALSE], [Ask("udp", "A", 0) EXCEPT !.whole = FALSE],
          [Ask("tcp", "A", 0) EXCEPT !.decodes = FALSE]}
    \cup {[Doh EXCEPT !.method = "POST", !.asks = "several"], [Doh EXCEPT !.method = "PUT"], [Doh EXCEPT !.dns = "none"],
          [Doh EXCEPT !.method = "POST", !.type = FALSE], [Doh EXCEPT !.decodes = FALSE], [Doh EXCEPT !.asks = "nothing"]}
MCRequests == [h \in MCHistories |-> IF Len(h) = 1 THEN Requests1
                                    ELSE IF h[2].is # "text" THEN {Ask("tcp", "several", 0)}
                                    ELSE {Ask("udp", "A", 0)}]

\* Messages with every section in use, with and without an OPT record, and
\* names of no, one and two labels, one of them as long as a label may be.
Name(n) == IF n = 0 THEN <<46>> ELSE IF n = 1 THEN <<97, 46>> ELSE [i \in 1 .. 63 |-> 98] \o <<46, 97, 46>>
Rr(n, t, data) == [name |-> Name(n), rtype |-> t, rclass |-> 1, ttl |-> 300, rdata |-> data]
Opt(size) == [name |-> <<46>>, rtype |-> 41, rclass |-> size, ttl |-> 0, rdata |-> <<>>]
MCMessages ==
    {[id |-> 258, flags |-> 256, questions |-> q, answers |-> a, authorities |-> <<>>, additionals |-> o] :
        q \in {<<>>, <<[name |-> Name(1), qtype |-> 1, qclass |-> 1]>>,
              <<[name |-> Name(2), qtype |-> 28, qclass |-> 1], [name |-> Name(0), qtype |-> 1, qclass |-> 1]>>},
        a \in {<<>>, <<Rr(0, 16, <<>>), Rr(1, 1, <<1, 2, 3, 4>>)>>},
        o \in {<<>>, <<Opt(1232)>>, <<Rr(1, 1, <<>>), Opt(512)>>}}
MCValues == UNION {[1 .. n -> {37, 38, 50, 61, 97}] : n \in 0 .. 3}
MCWire == UNION {[1 .. n -> {0, 1, 2, 64, 192}] : n \in 1 .. 5} \cup
          {<<1, 97, 192, p, 192, q, 0>> : p, q \in 0 .. 7}

=============================================================================
