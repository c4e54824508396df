------------------------------ MODULE DnsProxy ------------------------------
(***************************************************************************)
(* The DNS front end (dns_proxy.rs) over the resolver: one task for each   *)
(* datagram or connection of a client, over UDP, TCP, TLS or HTTPS.  A     *)
(* task reads one message, hands it to Resolver::exchange and writes one   *)
(* reply in the form of its listener.                                      *)
(*                                                                         *)
(* The bytes of messages, and the operators that read and make them, are   *)
(* in DnsMessage, and what is required of them in DnsCodec; here a request *)
(* says what becomes of reading it.                                        *)
(***************************************************************************)
EXTENDS Resolver

CONSTANT Requests   \* bound: what clients send, for each history of the file

\* A request: the listener it comes to, whether TLS comes about, whether it is
\* all there, whether it decodes, its questions, its ID, the UDP size in its
\* OPT record (0 without one), and for HTTPS the method, the parameter `dns`
\* of the target, and the content type.
ASSUME DnsProxyConstants ==
    \A q \in UNION {Requests[h] : h \in Histories} :
        /\ q.mode \in {"udp", "tcp", "tls", "https"} /\ {q.shakes, q.whole, q.decodes} \subseteq BOOLEAN
        /\ q.asks \in Types \cup {"several", "nothing"} /\ {q.id, q.size} \subseteq Nat
        /\ q.method \in {"GET", "POST", "PUT"} /\ q.dns \in {"none", "bad64", "ok"} /\ q.type \in BOOLEAN

VARIABLE client     \* the task of each client
dnsVars == <<vars, client>>

DnsInit ==
    /\ Init
    /\ \E q \in [Exchangers -> Requests[file.texts]] :
          client = [x \in Exchangers |-> [at |-> "none", req |-> q[x], out |-> [is |-> "nothing"]]]

-----------------------------------------------------------------------------
(* Reading a request.                                                      *)

Status(n) == [is |-> "status", code |-> n]
Query == [is |-> "query"]
Closed == [is |-> "closed"]

parse_doh_request(q) ==
    CASE q.method = "GET" -> IF q.dns = "ok" /\ q.decodes THEN Query ELSE Status(400)
      [] q.method = "POST" -> IF ~q.type THEN Status(415) ELSE IF q.decodes THEN Query ELSE Status(400)
      [] OTHER -> Status(405)

\* serve_doh and serve_doh_conn up to the exchange.
serve_doh_conn(q) == IF ~q.shakes \/ ~q.whole THEN Closed ELSE parse_doh_request(q)

\* serve_stream: a length and as many bytes.
serve_stream(q) == IF q.shakes /\ q.whole /\ q.decodes THEN Query ELSE Closed

\* What serve_udp has received is all there is: a datagram that does not fit
\* the buffer is cut short and does not decode.
serve_udp(q) == IF q.whole /\ q.decodes THEN Query ELSE Closed

Reading(q) == CASE q.mode = "udp" -> serve_udp(q)
                [] q.mode \in {"tcp", "tls"} -> serve_stream(q)
                [] q.mode = "https" -> serve_doh_conn(q)

\* A message without a question is refused by exchange itself.
Failure(q) == IF q.mode = "https" THEN Status(500) ELSE Closed

Reads(x) ==
    /\ client[x].at = "none" /\ calls[x] < MaxCalls
    /\ LET q == client[x].req
           r == Reading(q)
       IN IF r = Query /\ q.asks # "nothing"
          THEN /\ BeginExchange(x, q.asks, q.id)
               /\ client' = [client EXCEPT ![x].at = "asking"]
          ELSE /\ client' = [client EXCEPT ![x].at = "over", ![x].out = IF r = Query THEN Failure(q) ELSE r]
               /\ calls' = [calls EXCEPT ![x] = @ + 1]
               /\ UNCHANGED <<st, stopped, cache, now, file, watch, call, old>>

-----------------------------------------------------------------------------
(* Writing the reply.                                                      *)

udp_buffer_size(n) == IF n < 512 THEN 512 ELSE IF n > 65535 THEN 65535 ELSE n
Limit(q) == IF q.size = 0 THEN 512 ELSE udp_buffer_size(q.size)
Reply(got, tc) == [is |-> "reply", id |-> got.id, len |-> got.len, tc |-> tc, ok |-> got.ok]

\* An empty answer to the client's question, in the place of one too long.
truncated_response(q, got) == [got EXCEPT !.id = q.id, !.len = 40]

\* The largest message a stream can frame.
MaxFramed == 65535

\* UDP truncates what does not fit the client; a stream is closed instead.
Framed(q, got) ==
    IF q.mode = "udp"
    THEN IF got.len > Limit(q) THEN Reply(truncated_response(q, got), TRUE) ELSE Reply(got, FALSE)
    ELSE IF got.len > MaxFramed THEN Closed ELSE Reply(got, FALSE)

\* exchange_logged turns a reply that does not decode into an error; HTTPS
\* passes it on.
Written(q, err, got) ==
    IF err THEN Failure(q)
    ELSE IF q.mode = "https" THEN Reply(got, FALSE)
    ELSE IF ~got.ok THEN Closed ELSE Framed(q, got)

Writes(x) ==
    /\ client[x].at = "asking" /\ call[x].pc = "done"
    /\ client' = [client EXCEPT ![x].at = "over", ![x].out = Written(client[x].req, call[x].err, call[x].got)]
    /\ Return(x)

\* The read timeout of the three stream listeners, or the client is gone.
Dropped(x) ==
    /\ client[x].at = "asking" /\ client[x].req.mode # "udp"
    /\ client' = [client EXCEPT ![x].at = "over", ![x].out = Closed]
    /\ Cancelled(x)

Client(x) == Reads(x) \/ Writes(x) \/ Dropped(x)

\* Nothing is left to do.
Rest ==
    /\ \A c \in Callers : call[c].pc = "idle" /\ calls[c] = MaxCalls
    /\ watch.pc = "over" /\ now = MaxNow /\ stopped /\ file.mod = Len(file.texts)
    /\ UNCHANGED dnsVars

DnsNext ==
    \/ \E x \in Exchangers : Client(x)
    \/ \E c \in Callers : Call(c) /\ UNCHANGED client
    \/ Around /\ UNCHANGED client
    \/ Rest

Spec == DnsInit /\ [][DnsNext]_dnsVars

\* Calls run, and timeouts strike unless an answer comes first; no server
\* has to answer.  The reloader's sleep ends.
FairSpec ==
    /\ Spec
    /\ \A c \in Resolvers : WF_dnsVars((Load(c) \/ Return(c)) /\ UNCHANGED client)
    /\ \A x \in Exchangers : WF_dnsVars((Load(x) /\ UNCHANGED client) \/ Writes(x))
    /\ \A c \in Callers : WF_dnsVars(TimedOut(c) /\ UNCHANGED client)
    /\ WF_dnsVars(Watch /\ UNCHANGED client)

-----------------------------------------------------------------------------
(* Properties.                                                             *)

\* A client is given a reply with its own ID, be it from the cache, where it
\* was put for somebody else, and over UDP one that fits the size it
\* announced; it is told to come back over TCP only when the reply does not.
RepliesFit ==
    \A x \in Exchangers :
        LET q == client[x].req
            o == client[x].out
        IN o.is = "reply" =>
              /\ o.id = q.id
              /\ q.mode = "udp" => o.len <= Limit(q)
              /\ o.tc => q.mode = "udp" /\ \E a \in Answers : a.len > Limit(q)

\* What the cache hands out fits: an answer of a server that is no longer
\* configured gets in only through a call that was under way, and a client gets a
\* reply with its own ID and of a size it takes (exchange, serve_udp).
CacheHonest == StaleOnlyInFlight /\ RepliesFit

=============================================================================
