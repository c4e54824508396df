------------------------------ MODULE Address ------------------------------
(***************************************************************************)
(* Addresses as text and as bytes: the splitters and joiners of the        *)
(* modules, the forms in which the connectors put an address into a        *)
(* request and the handlers take it out again (socks5.rs, socks4.rs,       *)
(* relay.rs, ss.rs, ssh.rs, http2_transport.rs), and the lists that are    *)
(* asked about the outcome (permissions.rs, bypass.rs, hosts.rs).          *)
(*                                                                         *)
(* A text is a sequence of character codes.  The decimal text of a number  *)
(* and a dotted IPv4 literal count as one character each; an IPv6 literal  *)
(* has its colons.                                                         *)
(***************************************************************************)
EXTENDS Integers, Sequences, SequencesExt

Colon == 58
LBracket == 91
RBracket == 93
Star == 42
Dot == 46
Comma == 44
Dash == 45
Slash == 47
Blank == 32

Number(n) == 10000 + n
IsNumber(t) == Len(t) = 1 /\ t[1] >= 10000
Value(t) == t[1] - 10000
IsU16(t) == IsNumber(t) /\ Value(t) <= 65535

\* The literals the texts below may hold, with their octets.
Zeros(n) == [i \in 1 .. n |-> 0]
Literals == {[text |-> <<401>>, octets |-> <<10, 0, 0, 1>>],
             [text |-> <<402>>, octets |-> <<10, 0, 1, 1>>],
             [text |-> <<403>>, octets |-> <<0, 0, 0, 5>>],
             [text |-> <<Colon, Colon, Number(1)>>, octets |-> Append(Zeros(15), 1)],
             [text |-> <<97, Colon, Colon, Number(1)>>, octets |-> <<0, 10>> \o Append(Zeros(13), 1)]}
IsLiteral(t) == \E l \in Literals : l.text = t
octets(t) == (CHOOSE l \in Literals : l.text = t).octets
IsV4(t) == IsLiteral(t) /\ Len(octets(t)) = 4
IsV6(t) == IsLiteral(t) /\ Len(octets(t)) = 16
to_string(o) == IF \E l \in Literals : l.octets = o THEN (CHOOSE l \in Literals : l.octets = o).text
                ELSE o

FirstOf(s, c) == SelectInSeq(s, LAMBDA x : x = c)
LastOf(s, c) == SelectLastInSeq(s, LAMBDA x : x = c)
Has(s, c) == c \in ToSet(s)
After(s, i) == SubSeq(s, i + 1, Len(s))
Cut(s, i, n) == SubSeq(s, i, IF n <= Len(s) THEN n ELSE Len(s))

RECURSIVE Pieces(_, _)
Pieces(s, c) == LET i == FirstOf(s, c)
                IN IF i = 0 THEN <<s>> ELSE <<SubSeq(s, 1, i - 1)>> \o Pieces(After(s, i), c)

-----------------------------------------------------------------------------
(* Splitting and joining.                                                  *)

Malformed == [ok |-> FALSE, host |-> <<>>, port |-> <<>>]
Pair(h, p) == [ok |-> TRUE, host |-> h, port |-> p]

\* rsplit_once(':'): the last colon, whatever is before it.
rsplit(s) == LET i == LastOf(s, Colon)
             IN IF i = 0 THEN Malformed ELSE Pair(SubSeq(s, 1, i - 1), After(s, i))

\* mutant: brackets and inner colons are let through.
split_host_port_last(s) == rsplit(s)

\* permissions.rs, Go's net.SplitHostPort.
split_host_port(s) ==
    LET i == LastOf(s, Colon)
        r == FirstOf(s, RBracket)
        bracketed == s # <<>> /\ s[1] = LBracket
        host == IF bracketed THEN SubSeq(s, 2, r - 1) ELSE SubSeq(s, 1, i - 1)
    IN IF /\ i # 0
          /\ IF bracketed THEN r # 0 /\ r + 1 = i ELSE ~Has(host, Colon)
          /\ ~Has(After(s, IF bracketed THEN 1 ELSE 0), LBracket)
          /\ ~Has(After(s, IF bracketed THEN r ELSE 0), RBracket)
       THEN Pair(host, After(s, i)) ELSE Malformed

\* mutant: the brackets stay.
bracket_split_last(s) == rsplit(s)

\* relay.rs: a bracketed host ends at the first closing bracket.
bracket_split(s) ==
    IF s # <<>> /\ s[1] = LBracket
    THEN LET r == FirstOf(s, RBracket)
         IN IF r # 0 /\ r < Len(s) /\ s[r + 1] = Colon
            THEN Pair(SubSeq(s, 2, r - 1), After(s, r + 1)) ELSE Malformed
    ELSE rsplit(s)

\* chain.rs and ssh.rs want a port, too.
WithPort(r) == IF r.ok /\ IsU16(r.port) THEN r ELSE Malformed
chain_split(s) == WithPort(bracket_split(s))
ssh_split(s) == WithPort(bracket_split(s))

\* ss.rs: a missing or bad port is 0.
split_host_port_str(s) ==
    LET OrZero(p) == IF IsU16(p) THEN Value(p) ELSE 0
        r == FirstOf(s, RBracket)
        t == rsplit(s)
    IN IF s # <<>> /\ s[1] = LBracket /\ r # 0
       THEN [host |-> SubSeq(s, 2, r - 1),
             port |-> IF r < Len(s) /\ s[r + 1] = Colon THEN OrZero(After(s, r + 1)) ELSE 0]
       ELSE IF t.ok THEN [host |-> t.host, port |-> OrZero(t.port)] ELSE [host |-> s, port |-> 0]

bare_join(h, p) == h \o <<Colon, Number(p)>>
bracketed_join(h, p) == <<LBracket>> \o h \o <<RBracket, Colon, Number(p)>>
\* socks5.rs, and chain.rs and ssh.rs, which leave a bracketed host alone.
join_host_port(h, p) == IF Has(h, Colon) THEN bracketed_join(h, p) ELSE bare_join(h, p)
chain_join(h, p) == IF Has(h, Colon) /\ h[1] # LBracket THEN bracketed_join(h, p) ELSE bare_join(h, p)

\* socks5.rs: parse_address is the strict splitter, and socks4.rs the lax one.
socks5_parse_address(s) == WithPort(split_host_port(s))
socks4_parse_address(s) == WithPort(rsplit(s))

-----------------------------------------------------------------------------
(* Addresses as bytes.                                                     *)

IPV4 == 1
DOMAIN_NAME == 3
IPV6 == 4

be16(n) == <<n \div 256, n % 256>>

\* mutant: the length of a name is left to the reader.
encode_address_unmeasured(h, p) ==
    (IF IsV4(h) THEN <<IPV4>> \o octets(h)
     ELSE IF IsV6(h) THEN <<IPV6>> \o octets(h)
     ELSE <<DOMAIN_NAME>> \o h) \o be16(p)

\* The type, the address and the port; a name has its length in one byte,
\* which wraps.
encode_address(h, p) ==
    (IF IsV4(h) THEN <<IPV4>> \o octets(h)
     ELSE IF IsV6(h) THEN <<IPV6>> \o octets(h)
     ELSE <<DOMAIN_NAME, Len(h) % 256>> \o h) \o be16(p)

NoAddress == [ok |-> FALSE, host |-> <<>>, port |-> 0, rest |-> <<>>]

\* The address at the head of b: the bytes it takes and its text.
Field(b) ==
    CASE b # <<>> /\ b[1] = IPV4 -> [end |-> 5, text |-> to_string(Cut(b, 2, 5))]
      [] b # <<>> /\ b[1] = IPV6 -> [end |-> 17, text |-> to_string(Cut(b, 2, 17))]
      [] Len(b) > 1 /\ b[1] = DOMAIN_NAME -> [end |-> 2 + b[2], text |-> Cut(b, 3, 2 + b[2])]
      [] OTHER -> [end |-> 0, text |-> <<>>]

\* mutant: the port is looked for where the buffer may have ended.
WithPortBytes_unchecked(b, f) ==
    IF f.end = 0 \/ Len(b) < f.end + 1 THEN NoAddress
    ELSE [ok |-> TRUE, host |-> f.text, port |-> b[f.end + 1] * 256,
          rest |-> After(b, f.end + 2)]

WithPortBytes(b, f) ==
    IF f.end = 0 \/ Len(b) < f.end + 2 THEN NoAddress
    ELSE [ok |-> TRUE, host |-> f.text, port |-> b[f.end + 1] * 256 + b[f.end + 2],
          rest |-> After(b, f.end + 2)]

\* socks5.rs and ss.rs on a stream: fewer bytes are waited for, and their
\* end is an error.
read_address(b) == WithPortBytes(b, Field(b))
read_ss_address(b) == WithPortBytes(b, Field(b))

\* skip_address: the bound address of an answer is passed over.
skip_address(b) == LET f == Field(b) IN IF f.end = 0 THEN Tail(b) ELSE After(b, f.end + 2)

\* parse_udp_datagram and encode_udp_datagram: RSV, RSV, FRAG in front.  An
\* empty name is no address.
parse_udp_datagram(b) ==
    LET r == WithPortBytes(After(b, 3), Field(After(b, 3)))
    IN IF Len(b) < 5 \/ (r.ok /\ b[4] = DOMAIN_NAME /\ r.host = <<>>) THEN NoAddress ELSE r
encode_udp_datagram(h, p, data) == <<0, 0, 0>> \o encode_address(h, p) \o data

\* ss.rs: a literal endpoint, else whatever is before the last colon.
encode_ss_address(s) == LET r == WithPort(rsplit(s))
                        IN IF r.ok THEN encode_address(r.host, Value(r.port)) ELSE <<>>
encode_ss_socket_addr(h, p) ==
    (IF IsV4(h) THEN <<IPV4>> ELSE <<IPV6>>) \o octets(h) \o be16(p)
encode_ss_target(s) ==
    LET r == WithPort(split_host_port(s))
    IN IF r.ok /\ IsLiteral(r.host) THEN encode_ss_socket_addr(r.host, Value(r.port))
       ELSE encode_ss_address(s)

\* A datagram's address: nothing is guessed, and a literal is a literal
\* whichever type it came under.
parse_ss_address(b) ==
    LET r == WithPortBytes(b, Field(b))
    IN IF r.ok /\ b[1] = DOMAIN_NAME /\ r.host = <<>> THEN NoAddress ELSE r
SsText(r) == IF IsV6(r.host) THEN bracketed_join(r.host, r.port) ELSE bare_join(r.host, r.port)

\* relay.rs: features, each with its type and length; a feature that does
\* not fit ends the list.
FEATURE_USER_AUTH == 1
FEATURE_ADDR == 2
Feature(type, data) == <<type>> \o be16(Len(data)) \o data

RelayFeatures(user, pass, s) ==
    LET r == WithPort(bracket_split(s))
    IN (IF user = <<>> THEN <<>>
        ELSE Feature(FEATURE_USER_AUTH, <<Len(user) % 256>> \o user \o <<Len(pass) % 256>> \o pass))
       \o (IF r.ok THEN Feature(FEATURE_ADDR, encode_address(r.host, Value(r.port))) ELSE <<>>)

parse_relay_addr(d) == WithPortBytes(d, Field(d))

RelayUser(d) ==
    LET u == d[1]
        p == d[u + 2]
    IN IF d = <<>> \/ u + 1 >= Len(d) THEN [user |-> <<>>, pass |-> <<>>]
       ELSE [user |-> SubSeq(d, 2, u + 1),
             pass |-> IF 2 + u + p <= Len(d) THEN SubSeq(d, u + 3, u + 2 + p) ELSE <<>>]

RECURSIVE ParseFeatures(_, _)
ParseFeatures(b, acc) ==
    LET n == b[2] * 256 + b[3]
        d == SubSeq(b, 4, n + 3)
    IN IF Len(b) < 3 \/ Len(b) < n + 3 THEN acc
       ELSE ParseFeatures(After(b, n + 3),
               CASE b[1] = FEATURE_USER_AUTH -> [acc EXCEPT !.by = RelayUser(d)]
                 [] b[1] = FEATURE_ADDR /\ n > 0 ->
                      [acc EXCEPT !.addr = LET r == parse_relay_addr(d) IN bare_join(r.host, r.port)]
                 [] OTHER -> acc)

\* socks4.rs: port, four octets, the user and, behind 0.0.0.x, a name, both
\* ended by a zero byte.
encode_socks4(user, h, p, allow_domain) ==
    IF IsV4(h) THEN be16(p) \o octets(h) \o user \o <<0>>
    ELSE IF allow_domain THEN be16(p) \o <<0, 0, 0, 1>> \o user \o <<0>> \o h \o <<0>>
    ELSE <<>>

read_socks4(b) ==
    LET ip == SubSeq(b, 3, 6)
        user == FirstOf(After(b, 6), 0)
        behind == After(b, 6 + user)
        name == FirstOf(behind, 0)
        named == SubSeq(ip, 1, 3) = <<0, 0, 0>> /\ ip[4] # 0
    IN IF Len(b) < 6 \/ user = 0 \/ (named /\ name = 0) THEN NoAddress
       ELSE [ok |-> TRUE, port |-> b[1] * 256 + b[2],
             host |-> IF named THEN SubSeq(behind, 1, name - 1) ELSE to_string(ip),
             rest |-> IF named THEN After(behind, name) ELSE behind]

\* http2_transport.rs: the authority, bracketed as a URI has it, and the
\* port a CONNECT without one means.
request_target(s) ==
    LET r == bracket_split(s)
        host == IF r.ok THEN r.host ELSE s
        port == IF r.ok /\ IsU16(r.port) THEN Value(r.port) ELSE 443
    IN IF Has(host, Colon) /\ host[1] # LBracket THEN bracketed_join(host, port)
       ELSE bare_join(host, port)

-----------------------------------------------------------------------------
(* The lists: permissions.rs, bypass.rs, hosts.rs.                         *)

\* str::find, 0 for none: the place before the first occurrence plus one.
find(s, part) ==
    LET places == {i \in 0 .. Len(s) - Len(part) : SubSeq(s, i + 1, i + Len(part)) = part}
    IN IF places = {} THEN 0 ELSE 1 + CHOOSE i \in places : \A j \in places : i <= j

\* One step of the loop over the leading parts; a text that cannot match is
\* marked.
GlobPart(acc, part, first, leading) ==
    LET at == find(acc.subj, part)
    IN IF ~acc.ok \/ (IF first THEN ~leading /\ at # 1 ELSE at = 0) THEN [acc EXCEPT !.ok = FALSE]
       ELSE [acc EXCEPT !.subj = After(acc.subj, at - 1 + Len(part))]

\* mutant: the last part may be anywhere behind the others.
go_glob_loose(pattern, subj) ==
    LET parts == Pieces(pattern, Star)
    IN IF Len(parts) = 1 THEN subj = pattern
       ELSE /\ IsPrefix(parts[1], subj)
            /\ \A i \in 2 .. Len(parts) : find(subj, parts[i]) # 0

\* Only `*` is special; every part is taken at its first occurrence.
go_glob(pattern, subj) ==
    LET parts == Pieces(pattern, Star)
        n == Len(parts)
        Step(acc, i) == GlobPart(acc, parts[i], i = 1, pattern[1] = Star)
        done == FoldLeft(Step, [ok |-> TRUE, subj |-> subj], [i \in 1 .. n - 1 |-> i])
    IN IF pattern = <<Star>> THEN TRUE
       ELSE IF n = 1 THEN subj = pattern
       ELSE done.ok /\ (Last(pattern) = Star \/ IsSuffix(parts[n], done.subj))

Min2(a, b) == IF a <= b THEN a ELSE b
Max2(a, b) == IF a >= b THEN a ELSE b

\* PortRange::parse clamps a range, and refuses a single port out of range;
\* a range that is empty stays so.
BadRange == [ok |-> FALSE, min |-> 0, max |-> 0]
PortRange(s) ==
    LET d == FirstOf(s, Dash)
        lo == SubSeq(s, 1, d - 1)
        hi == After(s, d)
    IN IF s = <<Star>> THEN [ok |-> TRUE, min |-> 0, max |-> 65535]
       ELSE IF d # 0
       THEN IF IsNumber(lo) /\ IsNumber(hi)
            THEN [ok |-> TRUE, min |-> Max2(Min2(Value(lo), Value(hi)), 0),
                  max |-> Min2(Max2(Value(lo), Value(hi)), 65535)]
            ELSE BadRange
       ELSE IF IsU16(s) THEN [ok |-> TRUE, min |-> Value(s), max |-> Value(s)] ELSE BadRange

PortSet(s) == [ranges |-> [i \in DOMAIN Pieces(s, Comma) |-> PortRange(Pieces(s, Comma)[i])],
               ok |-> s # <<>> /\ \A i \in DOMAIN Pieces(s, Comma) : PortRange(Pieces(s, Comma)[i]).ok]
PortSetContains(ps, port) == \E i \in DOMAIN ps.ranges : ps.ranges[i].min <= port /\ port <= ps.ranges[i].max

StringSet(s) == [globs |-> Pieces(s, Comma), ok |-> s # <<>>]
StringSetContains(ss, subj) == \E i \in DOMAIN ss.globs : go_glob(ss.globs[i], subj)

\* Permissions::parse: rules apart by blanks, each `actions:hosts:ports`; one
\* bad rule spoils the list.
Permission(s) ==
    LET parts == Pieces(s, Colon)
        a == StringSet(parts[1])
        h == StringSet(parts[2])
        p == PortSet(parts[3])
    IN IF Len(parts) # 3 THEN [ok |-> FALSE] ELSE [ok |-> a.ok /\ h.ok /\ p.ok, actions |-> a, hosts |-> h, ports |-> p]
Permissions(s) ==
    LET rules == Pieces(s, Blank)
    IN IF s = <<>> THEN [ok |-> TRUE, rules |-> <<>>]
       ELSE [ok |-> \A i \in DOMAIN rules : Permission(rules[i]).ok,
             rules |-> [i \in DOMAIN rules |-> Permission(rules[i])]]

can(perms, action, host, port) ==
    \E i \in DOMAIN perms.rules :
        LET r == perms.rules[i]
        IN StringSetContains(r.actions, action) /\ StringSetContains(r.hosts, host)
           /\ PortSetContains(r.ports, port)

\* A list is a set of at most one: none is configured, or one.  An address
\* that cannot be split is refused, lists or no lists.
Can(action, addr, whitelist, blacklist) ==
    LET s == IF Has(addr, Colon) THEN addr ELSE bare_join(addr, 80)
        r == WithPort(split_host_port(s))
    IN /\ r.ok
       /\ \A w \in whitelist : can(w, action, r.host, Value(r.port))
       /\ \A b \in blacklist : ~can(b, action, r.host, Value(r.port))

\* mutant: the brackets of an IPv6 literal stay on.
strip_port_last(addr) == LET r == rsplit(addr) IN IF r.ok THEN r.host ELSE addr

strip_port(addr) ==
    LET r == split_host_port(addr)
    IN IF r.ok /\ r.host # <<>> /\ IsNumber(r.port) /\ Value(r.port) > 0 THEN r.host ELSE addr

\* Patterns by their form.  A network is a literal and whole octets here.
new_matcher(p) ==
    LET s == FirstOf(p, Slash)
    IN IF IsLiteral(p) THEN [is |-> "ip", of |-> p, bits |-> 0, plain |-> p]
       ELSE IF s # 0 /\ IsLiteral(SubSeq(p, 1, s - 1))
       THEN [is |-> "cidr", of |-> SubSeq(p, 1, s - 1), bits |-> Value(After(p, s)), plain |-> p]
       ELSE IF p[1] = Dot THEN [is |-> "domain", of |-> <<Star>> \o p, bits |-> 0, plain |-> Tail(p)]
       ELSE [is |-> "domain", of |-> p, bits |-> 0, plain |-> p]

\* The glob_match crate, without its further metacharacters.
RECURSIVE glob_match(_, _)
glob_match(p, s) ==
    IF p = <<>> THEN s = <<>>
    ELSE IF Head(p) = Star THEN \E i \in 0 .. Len(s) : glob_match(Tail(p), After(s, i))
    ELSE s # <<>> /\ Head(s) = Head(p) /\ glob_match(Tail(p), Tail(s))

match_value(m, v) ==
    CASE m.is = "ip" -> v = m.of
      [] m.is = "cidr" -> /\ IsLiteral(v) /\ Len(octets(v)) = Len(octets(m.of))
                          /\ SubSeq(octets(v), 1, m.bits \div 8) = SubSeq(octets(m.of), 1, m.bits \div 8)
      [] OTHER -> v = m.plain \/ glob_match(m.of, v)

BypassContains(matchers, reversed, addr) ==
    /\ addr # <<>> /\ matchers # <<>>
    /\ reversed # (\E i \in DOMAIN matchers : match_value(matchers[i], strip_port(addr)))

\* The hosts table, first entry first, and Chain::resolve, which asks it and
\* puts the port back.
lookup(hosts, h) ==
    SelectInSeq(hosts, LAMBDA e : e.name = h \/ \E i \in DOMAIN e.aliases : e.aliases[i] = h)
resolve(addr, hosts) ==
    LET r == chain_split(addr)
        i == lookup(hosts, r.host)
    IN IF r.ok /\ r.host # <<>> /\ i # 0 THEN chain_join(hosts[i].ip, Value(r.port)) ELSE addr
====
