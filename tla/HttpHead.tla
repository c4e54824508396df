------------------------------- MODULE HttpHead -------------------------------
(***************************************************************************)
(* The request heads of http_proxy.rs: what SniClientConn makes of one on  *)
(* the way out (sni.rs), what the handler reads, restores and forwards,    *)
(* and how it answers a client without credentials when it is not to look  *)
(* like a proxy.                                                           *)
(*                                                                         *)
(* A head is a record of the method, the target, the lines and whether its *)
(* end is there; a line has a name, in lower case, and a value, a sequence *)
(* of bytes.  A target is [host, port, path]: without a host it is in      *)
(* origin form.  What need not be there is a set of at most one element.   *)
(***************************************************************************)
EXTENDS Integers, Sequences, SequencesExt

LOCAL C == INSTANCE ClientHello

Line(name, value) == [name |-> name, value |-> value]
First(lines, name) == SelectInSeq(lines, LAMBDA l : l.name = name)

\* obfuscate_http: the first Host line gives way to the decoy and, behind it, the
\* real name; a head that is not all there or has no Host goes as it is.
obfuscate_http(head, decoy) ==
  LET i == First(head.lines, "host") IN
  IF ~head.whole \/ i = 0 THEN {}
  ELSE {[head EXCEPT !.lines =
           SubSeq(@, 1, i - 1)
             \o <<Line("host", decoy), Line("gost-target", C!encode_server_name(@[i].value))>>
             \o SubSeq(@, i + 1, Len(@))]}

\* The last value of a line that is there more than once counts.
LastValue(lines, name) ==
  LET found == SelectSeq(lines, LAMBDA l : l.name = name)
  IN IF found = <<>> THEN <<>> ELSE Last(found).value

\* A variant: only the address that is dialled is restored.
ReadHeaders_keeps_decoy(lines) ==
  LET real == C!decode_server_name(LastValue(lines, "gost-target")) IN
  [kept |-> SelectSeq(lines, LAMBDA l : l.name # "gost-target"),
   host |-> IF LastValue(lines, "gost-target") = <<>> \/ real = {} THEN LastValue(lines, "host")
            ELSE CHOOSE x \in real : TRUE]

\* HttpHandler::handle reads the lines up to the blank one; Gost-Target is not
\* forwarded and, if it decodes, replaces the first Host line and the host.
ReadHeaders(lines) ==
  LET carried == LastValue(lines, "gost-target")
      kept == SelectSeq(lines, LAMBDA l : l.name # "gost-target")
      i == First(kept, "host")
      real == IF carried = <<>> THEN {} ELSE C!decode_server_name(carried)
      name == CHOOSE x \in real : TRUE
  IN IF real = {} THEN [kept |-> kept, host |-> LastValue(lines, "host")]
     ELSE [kept |-> IF i = 0 THEN kept ELSE [kept EXCEPT ![i].value = name], host |-> name]

\* Where the handler connects to: the target of a CONNECT, the host of an absolute
\* target with port 80 by default, else the Host line, again with port 80.
Colon == 58
HasPort(h) == \E i \in DOMAIN h : h[i] = Colon
Dialled(head, host) ==
  CASE head.method = "connect" -> [host |-> head.target.host, port |-> head.target.port]
    [] head.method # "connect" /\ head.target.host # <<>> ->
         [host |-> head.target.host, port |-> IF head.target.port = {} THEN {80} ELSE head.target.port]
    [] head.method # "connect" /\ head.target.host = <<>> ->
         LET h == IF host = <<>> THEN head.target.path ELSE host
         IN [host |-> h, port |-> IF HasPort(h) THEN {} ELSE {80}]

\* origin_form: the path of an absolute target, which has at least a slash.
Slash == 47
origin_form(target) ==
  IF target.host = <<>> THEN target
  ELSE [host |-> <<>>, port |-> {},
        path |-> IF target.path = <<>> THEN <<Slash>> ELSE target.path]

\* The head that goes to the origin.
ForProxy == {"proxy-authorization", "proxy-connection"}
Forwarded(head) ==
  [method |-> head.method, target |-> origin_form(head.target), whole |-> TRUE,
   lines |-> SelectSeq(ReadHeaders(head.lines).kept, LAMBDA l : l.name \notin ForProxy)]

-------------------------------------------------------------------------------
(* Answering a client that has not authenticated.                          *)

\* A variant: only the credentials' own line is taken out.
rebuild_request_connection(head) ==
  [method |-> head.method, target |-> origin_form(head.target), whole |-> TRUE,
   lines |-> SelectSeq(head.lines, LAMBDA l : l.name # "proxy-authorization")]

\* rebuild_request: the head as a decoy server gets it, without any line that
\* starts with "proxy-".
rebuild_request(head) ==
  [method |-> head.method, target |-> origin_form(head.target), whole |-> TRUE,
   lines |-> SelectSeq(head.lines,
                       LAMBDA l : l.name \notin ForProxy \union {"proxy-x"})]

\* ProbeResist::parse on mode:value; without a value, and for a code that is no
\* number of 16 bits, there is none.  (A URL is its scheme here.)
parse(spec) ==
  IF ~spec.colon \/ spec.value = "" THEN {}
  ELSE IF spec.mode = "code" THEN IF spec.number \in 0..65535 THEN {spec} ELSE {}
  ELSE IF spec.mode \in {"web", "host", "file"} THEN {spec} ELSE {}

\* camouflage_headers.
camouflage_headers(code, len, type) ==
  [status |-> code, challenge |-> FALSE, close |-> FALSE, length |-> len, type |-> type,
   keep |-> code = 200, replay |-> {}]

\* fetch_decoy: only plain HTTP is fetched; what comes back is passed on as it is.
fetch_decoy(url, up) ==
  IF url = "https" \/ ~up THEN camouflage_headers(503, 0, "")
  ELSE [camouflage_headers(200, 0, "") EXCEPT !.type = "theirs"]

\* deny.  `up` says whether the decoy file can be read or the decoy server
\* reached; a host decoy gets the request replayed and then the connection.
deny(options, host, keep_alive, request_head, up) ==
  LET colon == SelectInSeq(host, LAMBDA b : b = Colon)
      name == IF colon = 0 THEN host ELSE SubSeq(host, 1, colon - 1)
      knock == options.knocking_host # <<>> /\ name = options.knocking_host
      resist == IF knock THEN {} ELSE parse(options.probe_resist)
      r == CHOOSE x \in resist : TRUE
  IN CASE resist = {} -> [camouflage_headers(407, 0, "") EXCEPT !.challenge = TRUE,
                                                                !.close = keep_alive]
       [] resist # {} /\ r.mode = "code" -> camouflage_headers(r.number, 0, "")
       [] resist # {} /\ r.mode = "file" ->
            IF up THEN camouflage_headers(200, 1, "text/html") ELSE camouflage_headers(503, 0, "")
       [] resist # {} /\ r.mode = "web" -> fetch_decoy(r.value, up)
       [] resist # {} /\ r.mode = "host" ->
            IF up THEN [camouflage_headers(200, 0, "theirs") EXCEPT !.replay = {request_head}]
            ELSE camouflage_headers(503, 0, "")

-------------------------------------------------------------------------------
\* A variant: a year of the era has 365 days and a quarter, always.
http_date_julian(days) ==
  LET doe == (days + 719468) % 146097
      yoe == (doe - doe \div 1460) \div 365
      doy == doe - (365 * yoe + yoe \div 4)
      mp == (5 * doy + 2) \div 153
      m == IF mp < 10 THEN mp + 3 ELSE mp - 9
  IN [weekday |-> (days + 4) % 7, d |-> doy - (153 * mp + 2) \div 5 + 1, m |-> m,
      y |-> yoe + 400 * ((days + 719468) \div 146097) + IF m <= 2 THEN 1 ELSE 0]

\* http_date: the civil date from the days since 1970, by eras of 400 years that
\* begin in March.  (The time of day is what is left of the seconds.)
http_date(days) ==
  LET z == days + 719468
      doe == z % 146097
      yoe == (doe - doe \div 1460 + doe \div 36524 - doe \div 146096) \div 365
      doy == doe - (365 * yoe + yoe \div 4 - yoe \div 100)
      mp == (5 * doy + 2) \div 153
      m == IF mp < 10 THEN mp + 3 ELSE mp - 9
  IN [weekday |-> (days + 4) % 7, d |-> doy - (153 * mp + 2) \div 5 + 1, m |-> m,
      y |-> yoe + 400 * (z \div 146097) + IF m <= 2 THEN 1 ELSE 0]
===============================================================================
