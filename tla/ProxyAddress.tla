---------------------------- MODULE ProxyAddress ----------------------------
(***************************************************************************)
(* What an address goes through on the way Proxy describes.  Proxy takes   *)
(* an address for the party behind it; here, whenever the client is about  *)
(* to ask a hop, the address it could ask for is followed through the      *)
(* connector's encoding, the handler's decoding and the handler's lists.   *)
(***************************************************************************)
EXTENDS Proxy

A == INSTANCE Address

CONSTANTS
    Names,          \* bound: the host names, as texts
    Ports,          \* bound: the ports
    Rests,          \* bound: what follows the request on the stream
    Texts,          \* bound: the texts to split
    Globs, Words,   \* bound: patterns and the words to match
    Rules,          \* bound: lists of rules, each [hosts, ports] with texts
    Patterns,       \* bound: lists of bypass patterns
    Tables          \* bound: hosts tables

Literal == {l.text : l \in A!Literals}
Addresses == [host : Names \cup Literal, port : Ports]
Text(a) == A!join_host_port(a.host, a.port)

Got(ok, addr, rest) == [ok |-> ok, addr |-> addr, rest |-> rest]
Lost == Got(FALSE, <<>>, <<>>)

\* The forms an address takes with the connectors and handlers of one
\* protocol: the chain's connector, the connector of the module itself and
\* the datagrams.
Forms(p) == CASE p = "socks5" -> {"socks5", "socks5 connector", "socks5 udp"}
              [] p = "ss" -> {"ss", "ss udp"}
              [] p = "forward" -> {"ssh"}
              [] p \in {"sni", "redirect"} -> {}
              [] OTHER -> {p}

\* The connector takes the text apart, if its request has host and port apart.
SplitBy(form, s) ==
    CASE form \in {"socks5", "socks4", "socks4a"} -> A!chain_split(s)
      [] form \in {"socks5 connector", "socks5 udp"} -> A!socks5_parse_address(s)
      [] form = "ssh" -> A!ssh_split(s)

\* It puts host h and port p into its request, and the handler takes them out.
Decoded(form, h, p, rest) ==
    CASE form \in {"socks5", "socks5 connector"} -> A!read_address(A!encode_address(h, p) \o rest)
      [] form = "socks5 udp" -> A!parse_udp_datagram(A!encode_udp_datagram(h, p, rest))
      [] form \in {"socks4", "socks4a"} ->
           A!read_socks4(A!encode_socks4(<<97>>, h, p, form = "socks4a") \o rest)
      [] form = "ssh" -> [ok |-> TRUE, host |-> h, port |-> p, rest |-> rest]

\* The handler makes a text of them again.
Joined(form, r) ==
    CASE form \in {"socks5", "socks5 connector", "socks5 udp"} -> A!join_host_port(r.host, r.port)
      [] form \in {"socks4", "socks4a", "ss"} -> A!bare_join(r.host, r.port)
      [] form = "ss udp" -> A!SsText(r)
      [] form = "ssh" -> A!chain_join(r.host, r.port)

Read(form, r) == IF r.ok THEN Got(TRUE, Joined(form, r), r.rest) ELSE Lost
Taken(form, c, rest) == IF c.ok THEN Read(form, Decoded(form, c.host, A!Value(c.port), rest)) ELSE Lost
RelayReads(f, rest) == Got(f.by = [user |-> <<97>>, pass |-> <<98>>], f.addr, rest)

\* The address the handler works with when the client wrote s and then rest.
Reaches(form, s, rest) ==
    CASE form = "http" -> Got(TRUE, s, rest)
      [] form = "http2" -> Got(TRUE, A!request_target(s), rest)
      [] form = "relay" ->
           RelayReads(A!ParseFeatures(A!RelayFeatures(<<97>>, <<98>>, s), [addr |-> <<>>, by |-> <<>>]), rest)
      [] form = "ss" -> Read(form, A!read_ss_address(A!encode_ss_address(s) \o rest))
      [] form = "ss udp" -> Read(form, A!parse_ss_address(A!encode_ss_target(s) \o rest))
      [] OTHER -> Taken(form, SplitBy(form, s), rest)

\* What a form cannot carry.  SOCKS4 has no names, and its 0.0.0.x stands for
\* one; the SOCKS4a and relay handlers write an IPv6 literal without its
\* brackets, which nothing after them can split.
Limited(form, a) ==
    \/ form = "socks4" /\ ~A!IsV4(a.host)
    \/ form \in {"socks4", "socks4a"} /\ a.host = <<403>>
    \/ form \in {"socks4a", "relay"} /\ A!IsV6(a.host)

Denotes(s) == A!WithPort(A!split_host_port(s))

\* The first request of a route with one hop that refuses nobody, and nothing
\* lost yet: each protocol comes to it.
FirstAsk ==
    /\ cl.at = "connect" /\ faults = 0 /\ try = 1
    /\ N = 1 /\ route.cmd = "connect" /\ route.dead = {} /\ Hop.user # "bad"

\* The hop gets the very host and port that the client wants and finds the
\* payload right behind the request, in every form an address can take; what
\* a form cannot carry is refused even where no list is configured, never
\* read as another address.
AddressKept ==
    FirstAsk => \A f \in Forms(Hop.proto), a \in Addresses, rest \in Rests :
        LET r == Reaches(f, Text(a), rest)
        IN IF Limited(f, a)
           THEN a.host # <<403>> => ~(r.ok /\ A!Can(<<116>>, r.addr, {}, {}))
           ELSE r.ok /\ r.rest = rest /\ Denotes(r.addr) = A!Pair(a.host, <<A!Number(a.port)>>)

\* A request that breaks off is not taken for a shorter one: no decoder
\* accepts a proper beginning of an encoded address.
NoPrefixAddress ==
    FirstAsk => \A a \in Addresses :
        LET b == A!encode_address(a.host, a.port)
            d == A!encode_udp_datagram(a.host, a.port, <<>>)
        IN Hop.proto \in {"socks5", "ss", "relay"} =>
             /\ \A n \in 0 .. Len(b) - 1 :
                  LET c == SubSeq(b, 1, n)
                  IN ~(A!read_address(c).ok \/ A!read_ss_address(c).ok
                       \/ A!parse_ss_address(c).ok \/ A!parse_relay_addr(c).ok)
             /\ \A n \in 0 .. Len(d) - 1 : ~A!parse_udp_datagram(SubSeq(d, 1, n)).ok

-----------------------------------------------------------------------------
(* Splitting and the lists, against what they are meant to say.            *)

Specials == {A!Colon, A!LBracket, A!RBracket}
Free(s, cs) == ToSet(s) \cap cs = {}

\* host:port with no special character in either, or [host]:port with
\* colons in the host only.
Splits(s) ==
    {q \in {A!Pair(SubSeq(s, 1, i - 1), A!After(s, i)) : i \in {j \in DOMAIN s : s[j] = A!Colon}} :
        Free(q.host, Specials) /\ Free(q.port, Specials)}
    \cup
    {A!Pair(SubSeq(s, 2, i - 2), A!After(s, i)) : i \in
        {j \in 3 .. Len(s) : /\ s[1] = A!LBracket /\ s[j - 1] = A!RBracket /\ s[j] = A!Colon
                             /\ Free(SubSeq(s, 2, j - 2), Specials \ {A!Colon})
                             /\ Free(A!After(s, j), Specials)}}

\* The strict splitter accepts exactly the texts of the grammar, and wherever
\* it does the splitters of the chain, the relay, SSH and Shadowsocks find
\* the same host and port: what the lists are asked about is what is dialled.
SplitExact ==
    FirstAsk => \A s \in Texts :
        LET r == A!split_host_port(s)
        IN /\ Splits(s) = IF r.ok THEN {r} ELSE {}
           /\ r.ok => A!bracket_split(s) = r
           /\ (r.ok /\ A!IsU16(r.port)) =>
                 /\ A!chain_split(s) = r /\ A!ssh_split(s) = r
                 /\ A!split_host_port_str(s) = [host |-> r.host, port |-> A!Value(r.port)]

\* go_glob's one pass from the left finds a match whenever there is one.
GlobExact ==
    FirstAsk => \A p \in Globs, w \in Words : A!go_glob(p, w) = A!glob_match(p, w)

\* What the rules of a list are meant to say about a host and a port.
Covers(rule, h, p) ==
    /\ A!glob_match(rule.host, h)
    /\ \/ rule.from <= p /\ p <= rule.to
       \/ rule.to <= p /\ p <= rule.from
Line(rule) == <<116, A!Colon>> \o rule.host
                 \o <<A!Colon, A!Number(rule.from), A!Dash, A!Number(rule.to)>>
RECURSIVE Lines(_)
Lines(rs) == IF Len(rs) = 1 THEN Line(rs[1]) ELSE Line(rs[1]) \o <<A!Blank>> \o Lines(Tail(rs))
Listed(rs, a) == \E i \in DOMAIN rs : Covers(rs[i], a.host, a.port)

Meant(p, h) ==
    CASE A!Has(p, A!Slash) -> h \in {<<401>>, p} \cup (IF p[3] = A!Number(24) THEN {} ELSE {<<402>>})
      [] p[1] = A!Dot -> h = Tail(p) \/ IsSuffix(p, h)
      [] OTHER -> h = p \/ A!glob_match(p, h)

\* The permissions and the bypass decide about the host and the port that the
\* client named, in whatever form they came: a rule holds for an address or
\* it does not, brackets, clamped ranges and port ends included, and an
\* address the hosts table knows is dialled at its entry's IP and its own port.
ListsExact ==
    FirstAsk => \A f \in Forms(Hop.proto), a \in {b \in Addresses : Len(b.host) < 9} :
        LET addr == Reaches(f, Text(a), <<>>).addr
        IN ~Limited(f, a) =>
             /\ \A w, b \in Rules :
                   A!Can(<<116>>, addr, {A!Permissions(Lines(w))}, {A!Permissions(Lines(b))})
                      = (Listed(w, a) /\ ~Listed(b, a))
             /\ \A ps \in Patterns, rev \in BOOLEAN :
                   a.port > 0 =>
                     A!BypassContains([i \in DOMAIN ps |-> A!new_matcher(ps[i])], rev, addr)
                        = (rev # \E i \in DOMAIN ps : Meant(ps[i], a.host))
             /\ \A t \in Tables :
                   LET to == Denotes(A!resolve(addr, t))
                       i == A!lookup(t, a.host)
                   IN to = A!Pair(IF i = 0 THEN a.host ELSE t[i].ip, <<A!Number(a.port)>>)

\* An address gets through connector, handler and lists as what it is, or is
\* refused: the splitters, codecs, globs and lists against what they stand for.
AddressesExact ==
    AddressKept /\ NoPrefixAddress /\ SplitExact /\ GlobExact /\ ListsExact

====
