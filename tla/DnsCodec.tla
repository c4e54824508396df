------------------------------ MODULE DnsCodec ------------------------------
(***************************************************************************)
(* What is required of the codec that the resolver and its front end share *)
(* (DnsMessage).  The operators do not depend on the state, so they are    *)
(* looked at in one state of DnsProxy.                                     *)
(***************************************************************************)
EXTENDS DnsProxy, SequencesExt, FiniteSetsExt

CONSTANTS
    Messages, Wire, \* bound: messages, and bytes to be read as a name
    Values,         \* bound: values of a parameter
    Bad             \* what a decoder returns for an error

M == INSTANCE DnsMessage

\* The codec is looked at once.
FirstLook == /\ \A c \in Callers : calls[c] = 0
             /\ now = 0 /\ ~stopped /\ Len(file.texts) = 1
             /\ \A x \in Exchangers : client[x].at = "none" /\ client[x].req.mode = "tls"

\* What becomes of a message m whose encoding is b, of the one sent out for it,
\* o, and of the truncated response, t.
Keeps(m, b, o, t) ==
    /\ M!decode(b) = m
    /\ \A n \in 0 .. Len(b) - 1 : M!decode(SubSeq(b, 1, n)) = Bad
    /\ M!decode(M!set_msg_id(b, 77)) = [m EXCEPT !.id = 77]
    /\ Len(M!Opts(o)) = 1 /\ M!remove_opt(o) = M!remove_opt(m)
    /\ M!edns0_udp_size(m) # M!NoSize => M!edns0_udp_size(o) = M!edns0_udp_size(m)
    /\ M!parse_edns0_subnet(M!Opts(o)[1]) = [family |-> 1, netmask |-> 32, addr |-> <<9, 9, 9, 9>>]
    /\ t.id = m.id /\ t.questions = m.questions /\ t.answers = <<>>

\* The message a client sends, or one that is built here, survives encode and
\* decode; no prefix of it passes for a message; with the subnet of ?ip= it
\* has one OPT record, which keeps the client's UDP size; and the truncated
\* response keeps its ID and its questions.
MessagesKept ==
    FirstLook =>
        \A m \in Messages :
            Keeps(m, M!encode(m), M!decode(M!Outbound(m, <<9, 9, 9, 9>>)),
                  M!decode(M!truncated_response(M!encode(m))))

\* The offsets a name at offset 0 leads to, in order, as long as none comes
\* again; the last is where it ends or goes wrong.
RECURSIVE Trail(_, _)
Trail(b, path) ==
    LET p == Last(path)
        n == IF b[p + 1] < 64 THEN p + 1 + b[p + 1]
             ELSE IF b[p + 1] < 192 \/ p + 2 > Len(b) THEN Len(b) ELSE 256 * (b[p + 1] - 192) + b[p + 2]
    IN IF p >= Len(b) THEN path
       ELSE IF b[p + 1] = 0 \/ n \in Range(path) THEN path
       ELSE Trail(b, Append(path, n))

\* The jumps on the way, and what decode_name gives, r, for a way through b.
Jumps(b, path) == {i \in 1 .. Len(path) - 1 : b[path[i] + 1] >= 192}
Follows(b, path, r) ==
    IF Last(path) < Len(b) /\ b[Last(path) + 1] = 0
    THEN /\ r # Bad
         /\ r.end = IF Jumps(b, path) = {} THEN Last(path) + 1 ELSE path[Min(Jumps(b, path))] + 2
         /\ Cardinality({i \in DOMAIN r.name : r.name[i] = M!Dot}) =
               Max({1, Len(path) - 1 - Cardinality(Jumps(b, path))})
    ELSE r = Bad

\* decode_name follows a name through labels and pointers to its end whenever
\* it has one, however the pointers jump, and refuses it when they go round
\* or leave the message; and the offset it returns is the one behind the
\* name's first stretch.
NamesFollowed ==
    FirstLook =>
        \A b \in Wire :
            Follows(b, Trail(b, <<0>>), M!decode_name(b, 0))

\* A value with its reserved characters escaped.
Digit(n) == IF n < 10 THEN 48 + n ELSE 87 + n
Escaped(v) == FoldLeft(LAMBDA t, ch : t \o (IF ch \in {37, 38, 61} THEN <<37, Digit(ch \div 16), Digit(ch % 16)>>
                                             ELSE <<ch>>), <<>>, v)
Dns == <<100, 110, 115>>

\* The parameter `dns` of a DoH target comes out as the client meant it,
\* wherever it stands and whatever it had to escape; and a name server keeps
\* its host when it is given its port, once.
TargetsRead ==
    FirstLook =>
        /\ \A v \in Values : \A before \in {<<>>, <<100, 61, 49, 38>>} : \A after \in {<<>>, <<38, 100>>} :
              M!query_param(<<47, 63>> \o before \o Dns \o <<61>> \o Escaped(v) \o after, Dns) = v
        /\ \A h \in {<<97>>, <<58, 58, 49>>} :
              LET bare == M!ensure_port(h, <<53>>)
              IN M!ensure_port(bare, <<53>>) = bare /\ M!host_of(bare) = h /\ M!host_of(h) = h

\* The codec keeps messages, names and DoH targets, and refuses what is cut off
\* or goes round (Message, decode_name, query_param).
CodecKept == MessagesKept /\ NamesFollowed /\ TargetsRead

=============================================================================
