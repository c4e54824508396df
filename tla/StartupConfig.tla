--------------------------- MODULE StartupConfig ---------------------------
(***************************************************************************)
(* The texts the process of Lifecycle reads when it starts: durations, and *)
(* secrets, bypass and hosts files (Config).  The properties compare the   *)
(* readers with what a text means, and with each other.                    *)
(***************************************************************************)
EXTENDS Lifecycle, SequencesExt

C == INSTANCE Config

CONSTANTS
    Alphabet, MaxText,  \* bounds: durations are texts up to MaxText over Alphabet
    Files               \* bound: files, as sequences of lines

\* Nothing has been started yet, for one of the setups.
Reading == main = "chain" /\ setup = CHOOSE s \in Setups : TRUE

Texts == UNION {[1 .. n -> Alphabet] : n \in 0 .. MaxText}
Unsigned(t) == IF t # <<>> /\ t[1] \in {"-", "+"} THEN Tail(t) ELSE t
Negative(t) == t # <<>> /\ t[1] = "-"

\* A term is a number and a unit.  A text is cut behind letters only.
IsTerm(t, k) == /\ \A i \in 1 .. k : t[i] \in C!Digits \cup {"."}
                /\ C!is_number(SubSeq(t, 1, k)) /\ SubSeq(t, k + 1, Len(t)) \in C!Units
Pieces(t, cuts) ==
    LET at == SetToSortSeq(cuts \cup {0, Len(t)}, <) IN
    [i \in 1 .. Len(at) - 1 |-> SubSeq(t, at[i] + 1, at[i + 1])]
Readings(t) ==
    {p \in {Pieces(t, cuts) : cuts \in SUBSET {i \in 1 .. Len(t) - 1 : t[i] \in {"s", "m", "h"}}} :
        \A i \in DOMAIN p : \E k \in 1 .. Len(p[i]) - 1 : IsTerm(p[i], k)}
Value(p) ==
    [u \in C!Units |->
        FoldLeft(LAMBDA acc, x :
                    LET k == CHOOSE k \in 1 .. Len(x) - 1 : IsTerm(x, k)
                    IN  acc + (IF SubSeq(x, k + 1, Len(x)) = u THEN C!Thousandths(SubSeq(x, 1, k)) ELSE 0),
                 0, p)]

\* parse_go_duration reads exactly the texts of Go's grammar (a sign, then
\* terms of a number and a unit, or 0), each as the sum of its terms, and of
\* the negative ones only zero: "1ms" is no minute, and a term is never cut.
DurationsRead ==
    Reading =>
        \A t \in Texts :
            LET got == C!parse_go_duration(t)
                rest == Unsigned(t)
                readings == IF rest = <<>> THEN {} ELSE Readings(rest)
            IN  IF rest = <<"0">> THEN got = C!Read(C!Nothing)
                ELSE /\ got.ok <=> \E p \in readings : Negative(t) => C!IsZero(Value(p))
                     /\ got.ok => \A p \in readings : got.total = C!WholeNanos(Value(p))

\* A duration means the same as a parameter of a node and as a line of a
\* file: what parse_duration reads, parse_go_duration reads alike, down to
\* fractions of a nanosecond, except that a bare integer is seconds to the
\* one and an error to the other, and a negative one zero and an error.  The
\* other way round only a unit right before a dot is refused ("1m.5s").
DurationsAgree ==
    Reading =>
        \A t \in Texts :
            LET node == C!parse_duration(t)
                file == C!parse_go_duration(t)
                rest == Unsigned(t)
                bare == \A i \in DOMAIN rest : rest[i] \in C!Digits
                unitdot == \E i \in 2 .. Len(t) : t[i] = "." /\ t[i - 1] \notin C!Digits \cup {"-", "+"}
                nanodot == \E i \in 1 .. Len(t) : t[i] = "n" /\ \E j \in 1 .. i : t[j] = "."
            IN  /\ node.ok /\ Negative(t) => C!IsZero(node.total)
                /\ node.ok /\ ~Negative(t) /\ ~bare =>
                       file.ok /\ (nanodot \/ file.total = node.total)
                /\ file.ok /\ ~unitdot => node.ok

\* The password of a user is all of the second word of their last line in the
\* secrets file, also with a # in it, and empty when there is none; a line
\* that starts with # adds nobody (split_auth_line).
SecretsKept ==
    Reading =>
        \A f \in Files :
            LET kvs == C!reload_auth(f).kvs
                Names(u) == {i \in DOMAIN f : f[i] # <<>> /\ f[i][1] = u}
                users == {f[i][1] : i \in {j \in DOMAIN f : f[j] # <<>> /\ f[j][1][1] # "#"}} \ {C!ReloadWord}
            IN  /\ DOMAIN kvs = users
                /\ \A u \in users :
                       LET l == f[CHOOSE i \in Names(u) : \A j \in Names(u) : j <= i]
                       IN  kvs[u] = IF Len(l) > 1 THEN l[2] ELSE <<>>

\* The three readers take the same reload period from the same file, the last
\* one given, as long as no # is in it; and none of them disturbs what the
\* other lines say: a bypass has a matcher for every other line.
PeriodsAgree ==
    Reading =>
        \A f \in Files :
            LET plain == \A i \in DOMAIN f : \A j \in DOMAIN f[i] : \A k \in DOMAIN f[i][j] : f[i][j][k] # "#"
                b == C!reload_bypass(f)
                h == C!reload_hosts(f)
            IN  /\ b.period = h.period
                /\ plain => /\ b.period = C!reload_auth(f).period
                            /\ Len(b.matchers) = Cardinality({i \in DOMAIN f : f[i] # <<>> /\ f[i][1] \notin {C!ReloadWord, C!ReverseWord}})
                            /\ Len(h.hosts) <= Len(b.matchers)

\* The texts read at the start mean the same to every reader, and what they were
\* written to mean.
TextsRead == DurationsRead /\ DurationsAgree /\ SecretsKept /\ PeriodsAgree

=============================================================================
