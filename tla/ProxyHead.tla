------------------------------ MODULE ProxyHead ------------------------------
(***************************************************************************)
(* What the first message behind an SNI, HTTP or obfuscated hop goes       *)
(* through.  Proxy takes a hidden hello for a message of another kind;     *)
(* here, when the client is about to ask a hop, the hellos and heads it    *)
(* could send are followed through the code that makes, hides, restores    *)
(* and refuses them.                                                       *)
(***************************************************************************)
EXTENDS ProxyAddress

T == INSTANCE ClientHello
H == INSTANCE HttpHead

CONSTANTS
    Hosts,      \* bound: names of servers, as bytes
    Tickets,    \* bound: the first bytes in a session ticket
    Heads,      \* bound: request heads, with at most one Host line
    Resists,    \* bound: what probe_resist is set to
    Days        \* bound: days since 1970

Body(rec) == T!Skip(rec, 5)
Hellos == {T!build_client_hello(h, p) : h \in Hosts, p \in Tickets}
            \cup {T!build_fake_client_hello(h) : h \in Hosts}

\* The hellos that the obfuscating transports make are well formed: the server
\* finds the session, the first bytes and nothing else, the name is the one
\* asked for, every length covers the rest, and from a hello that has not all
\* arrived no name is read.
HellosRead ==
    FirstAsk /\ Hop.proto = "sni" =>
        /\ \A h \in Hosts, p \in Tickets :
             LET m == T!build_client_hello(h, p) IN
             /\ T!session_ticket_of(Body(m)) = {p} /\ T!extract_sni(m) = {h}
             /\ T!session_id_of(Body(m)) = [i \in 1 .. 32 |-> i]
             /\ T!session_id_of(Body(T!build_server_reply(T!session_id_of(Body(m)))))
                  = T!session_id_of(Body(m))
        /\ \A h \in Hosts :
             LET m == T!build_fake_client_hello(h)
             IN T!extract_sni(m) = {h} /\ T!session_ticket_of(Body(m)) = {}
        /\ \A m \in Hellos \cup {T!build_fake_server_hello} :
             T!At16(m, 4) = Len(m) - 5 /\ T!At16(m, 8) = Len(m) - 9
        /\ \A m \in Hellos, n \in 0 .. 200 :
             n < Len(m) => /\ T!extract_sni(SubSeq(m, 1, n)) = {}
                           /\ T!rewrite_client_hello(SubSeq(m, 1, n), <<>>, FALSE) = {}

\* A hello that the SNI client hides shows the decoy and nothing of the real name
\* where a server name is looked for; the SNI server gets the real name back and
\* the hello as it was, byte for byte.  A hello that nobody hid goes through
\* unchanged, by its own name.
HelloRestored ==
    FirstAsk /\ Hop.proto = "sni" => \A m \in Hellos, d \in Hosts :
        LET name == T!extract_sni(m)
            out == T!rewrite_client_hello(m, d, TRUE)
        IN /\ \A o \in out : T!extract_sni(o.record) = {d}
           /\ UNION {T!rewrite_client_hello(o.record, <<>>, FALSE) : o \in out}
                = {[record |-> m, host |-> h] : h \in name}
           /\ T!rewrite_client_hello(m, <<>>, FALSE) = {[record |-> m, host |-> h] : h \in name}

\* A hidden name that was damaged on the way is not taken for another name.
DamagedIsIgnored ==
    FirstAsk /\ Hop.proto = "sni" => \A h \in Hosts :
        LET e == T!encode_server_name(h) IN
        /\ T!decode_server_name(e) = {h}
        /\ \A i \in DOMAIN e, c \in DOMAIN T!Sextet :
             c # e[i] => T!decode_server_name([e EXCEPT ![i] = c]) = {}

\* A request that the SNI client hides comes out of the HTTP handler as it would
\* have without: the same origin is dialled and gets the same head, with its own
\* name in it and no trace of the hop.
HeadRestored ==
    FirstAsk /\ Hop.proto = "sni" => \A q \in Heads, d \in Hosts :
        \A o \in H!obfuscate_http(q, d) :
            /\ H!Forwarded(o) = H!Forwarded(q)
            /\ H!Dialled(o, H!ReadHeaders(o.lines).host) = H!Dialled(q, H!ReadHeaders(q.lines).host)
            /\ H!LastValue(SubSeq(o.lines, 1, H!First(o.lines, "host")), "host") = d

\* With probe resistance, a client without credentials that does not knock gets
\* nothing that only a proxy would send, and a decoy server gets nothing that
\* was meant for a proxy.
DenialHides ==
    FirstAsk /\ Hop.proto = "http" =>
        \A q \in Heads, spec \in Resists, k, h \in Hosts, up \in BOOLEAN, ka \in BOOLEAN :
            LET a == H!deny([knocking_host |-> k, probe_resist |-> spec], h, ka,
                            H!rebuild_request(q), up)
            IN IF h = k \/ H!parse(spec) = {} THEN a.challenge /\ a.close = ka
               ELSE /\ ~a.challenge
                    /\ \A out \in a.replay : \A i \in DOMAIN out.lines :
                         out.lines[i].name \notin {"proxy-authorization", "proxy-connection", "proxy-x"}

\* The calendar: the day after a date.
Leap(y) == y % 4 = 0 /\ (y % 100 = 0 => y % 400 = 0)
Length(m, y) == IF m = 2 THEN IF Leap(y) THEN 29 ELSE 28 ELSE IF m \in {4, 6, 9, 11} THEN 30 ELSE 31
DayAfter(t) ==
    LET last == t.d = Length(t.m, t.y) IN
    [weekday |-> (t.weekday + 1) % 7, d |-> IF last THEN 1 ELSE t.d + 1,
     m |-> IF ~last THEN t.m ELSE IF t.m = 12 THEN 1 ELSE t.m + 1,
     y |-> IF last /\ t.m = 12 THEN t.y + 1 ELSE t.y]

\* The Date of a camouflage response goes through the calendar day by day, also
\* over the ends of years, Februaries and centuries.
DatesFollow ==
    FirstAsk /\ Hop.proto = "http" =>
        /\ H!http_date(0) = [weekday |-> 4, d |-> 1, m |-> 1, y |-> 1970]
        /\ \A n \in Days : H!http_date(n + 1) = DayAfter(H!http_date(n))

\* Hellos and request heads are read, hidden, restored and refused so that the
\* target sees what the client meant, and a stranger sees no proxy.
HeadsExact ==
    HellosRead /\ HelloRestored /\ DamagedIsIgnored /\ HeadRestored /\ DenialHides /\ DatesFollow

===============================================================================
