------------------------------- MODULE Config -------------------------------
(***************************************************************************)
(* What the configuration readers make of a text: the two parsers of       *)
(* durations (parse_go_duration of auth.rs for files, parse_duration of    *)
(* node.rs for node parameters) and the line readers behind reload() of    *)
(* the secrets, bypass and hosts files.                                    *)
(*                                                                         *)
(* A text is a sequence of symbols; a word of a file is a text, a line a   *)
(* sequence of words.  A duration is kept per unit, in thousandths, with   *)
(* the rounding to whole nanoseconds where the parser does it; what f64    *)
(* and u64 cannot hold is left out.  \mu s is spelled "us".                *)
(***************************************************************************)
EXTENDS Integers, Sequences, SequencesExt, FiniteSets

Digits == {"0", "1", "2", "3", "4", "5", "6", "7", "8", "9"}
DigitVal == [d \in Digits |-> CHOOSE n \in 0 .. 9 : <<"0", "1", "2", "3", "4", "5", "6", "7", "8", "9">>[n + 1] = d]
Units == {<<"n", "s">>, <<"u", "s">>, <<"m", "s">>, <<"s">>, <<"m">>, <<"h">>}
Nothing == [u \in Units |-> 0]
Failed == [ok |-> FALSE, total |-> Nothing]
Read(total) == [ok |-> TRUE, total |-> total]

\* The length of the longest prefix whose symbols are in S.
Span(s, S) == LET i == SelectInSeq(s, LAMBDA c : c \notin S) IN IF i = 0 THEN Len(s) ELSE i - 1
From(s, i) == SubSeq(s, i, Len(s))

\* str::parse::<f64> on digits and dots: one dot at most, one digit at least.
is_number(s) ==
    /\ Cardinality({i \in DOMAIN s : s[i] = "."}) <= 1
    /\ \E i \in DOMAIN s : s[i] \in Digits
Thousandths(s) ==
    LET dot  == SelectInSeq(s, LAMBDA c : c = ".")
        frac == IF dot = 0 THEN 0 ELSE Len(s) - dot
        n    == FoldLeft(LAMBDA acc, c : IF c = "." THEN acc ELSE 10 * acc + DigitVal[c], 0, s)
    IN  n * 10 ^ (3 - frac)

\* Whole nanoseconds.
WholeNanos(total) == [total EXCEPT ![<<"n", "s">>] = (@ \div 1000) * 1000]
IsZero(total) == total = Nothing

-----------------------------------------------------------------------------
(* parse_go_duration.                                                      *)

\* mutant: "m" is looked for before "ms".
unit_of_m_first(s) ==
    CASE IsPrefix(<<"n", "s">>, s) -> <<"n", "s">>
      [] IsPrefix(<<"u", "s">>, s) -> <<"u", "s">>
      [] IsPrefix(<<"m">>, s) -> <<"m">>
      [] IsPrefix(<<"s">>, s) -> <<"s">>
      [] IsPrefix(<<"h">>, s) -> <<"h">>
      [] OTHER -> <<>>

\* The unit a text starts with, two letters before one.
unit_of(s) ==
    CASE IsPrefix(<<"n", "s">>, s) -> <<"n", "s">>
      [] IsPrefix(<<"u", "s">>, s) -> <<"u", "s">>
      [] IsPrefix(<<"m", "s">>, s) -> <<"m", "s">>
      [] IsPrefix(<<"s">>, s) -> <<"s">>
      [] IsPrefix(<<"m">>, s) -> <<"m">>
      [] IsPrefix(<<"h">>, s) -> <<"h">>
      [] OTHER -> <<>>

RECURSIVE GoTerms(_, _)
GoTerms(s, total) ==
    IF s = <<>> THEN Read(total)
    ELSE LET k    == Span(s, Digits \cup {"."})
             num  == SubSeq(s, 1, k)
             unit == unit_of(From(s, k + 1))
         IN  IF k = 0 \/ ~is_number(num) \/ unit = <<>> THEN Failed
             ELSE GoTerms(From(s, k + Len(unit) + 1), [total EXCEPT ![unit] = @ + Thousandths(num)])

parse_go_duration(s) ==
    LET neg  == s # <<>> /\ s[1] = "-"
        rest == IF s # <<>> /\ s[1] \in {"-", "+"} THEN Tail(s) ELSE s
        r    == GoTerms(rest, Nothing)
    IN  CASE rest = <<"0">> -> Read(Nothing)
          [] rest = <<>> \/ ~r.ok -> Failed
          [] neg /\ ~IsZero(r.total) -> Failed
          [] OTHER -> Read(WholeNanos(r.total))

-----------------------------------------------------------------------------
(* parse_duration.                                                         *)

\* A unit is everything up to the next digit, and every term is rounded.
RECURSIVE NodeTerms(_, _)
NodeTerms(s, total) ==
    IF s = <<>> THEN Read(total)
    ELSE LET k    == Span(s, Digits \cup {"."})
             num  == SubSeq(s, 1, k)
             word == From(s, k + 1)
             d    == SelectInSeq(word, LAMBDA c : c \in Digits)
             unit == IF d = 0 THEN word ELSE SubSeq(word, 1, d - 1)
         IN  IF k = 0 \/ ~is_number(num) \/ unit \notin Units THEN Failed
             ELSE LET term == WholeNanos([Nothing EXCEPT ![unit] = Thousandths(num)])
                  IN  NodeTerms(From(s, k + Len(unit) + 1), [total EXCEPT ![unit] = @ + term[unit]])

\* mutant: the sign is taken off and forgotten.
parse_duration_unsigned(s) ==
    LET rest == IF s # <<>> /\ s[1] \in {"-", "+"} THEN Tail(s) ELSE s IN
    IF s # <<>> /\ Span(s, Digits) = Len(s) THEN Read([Nothing EXCEPT ![<<"s">>] = Thousandths(s)])
    ELSE IF rest = <<"0">> THEN Read(Nothing)
    ELSE IF rest = <<>> THEN Failed
    ELSE NodeTerms(rest, Nothing)

\* A bare integer, which may carry a plus, is seconds; a negative duration is
\* zero.
parse_duration(s) ==
    LET neg  == s # <<>> /\ s[1] = "-"
        rest == IF s # <<>> /\ s[1] \in {"-", "+"} THEN Tail(s) ELSE s
        r    == NodeTerms(rest, Nothing)
    IN  CASE rest # <<>> /\ ~neg /\ Span(rest, Digits) = Len(rest) ->
                 Read([Nothing EXCEPT ![<<"s">>] = Thousandths(rest)])
          [] rest = <<"0">> -> Read(Nothing)
          [] rest = <<>> \/ ~r.ok -> Failed
          [] OTHER -> Read(IF neg THEN Nothing ELSE r.total)

-----------------------------------------------------------------------------
(* Lines.                                                                  *)

\* split_line_ref drops everything behind a #, wherever it is.
split_line_ref(line) ==
    LET Hash(w) == SelectInSeq(w, LAMBDA c : c = "#")
        i == SelectInSeq(line, LAMBDA w : Hash(w) # 0)
    IN  IF i = 0 THEN line
        ELSE SelectSeq(SubSeq(line, 1, i - 1) \o <<SubSeq(line[i], 1, Hash(line[i]) - 1)>>,
                       LAMBDA w : w # <<>>)

\* mutant: the secrets reader drops comments like the other readers.
split_auth_line_inline(line) == split_line_ref(line)

\* split_auth_line drops a line that starts with # and nothing else.
split_auth_line(line) == IF line # <<>> /\ line[1][1] = "#" THEN <<>> ELSE line

\* The period of a `reload` line; a text that is no duration disables it.
Period(w) == LET d == parse_go_duration(w) IN IF d.ok THEN d.total ELSE Nothing

ReloadWord == <<"reload">>
ReverseWord == <<"reverse">>
parse_bool(w) == w \in {<<"1">>, <<"t">>, <<"true">>}

\* LocalAuthenticator::reload_impl: later lines win.
reload_auth(lines) ==
    FoldLeft(LAMBDA acc, line :
                LET parts == split_auth_line(line) IN
                IF parts = <<>> THEN acc
                ELSE IF parts[1] = ReloadWord
                THEN IF Len(parts) > 1 THEN [acc EXCEPT !.period = Period(parts[2])] ELSE acc
                ELSE [acc EXCEPT !.kvs = [u \in DOMAIN @ \cup {parts[1]} |->
                        IF u # parts[1] THEN @[u] ELSE IF Len(parts) > 1 THEN parts[2] ELSE <<>>]],
             [period |-> Nothing, kvs |-> [u \in {} |-> <<>>]], lines)

\* Bypass::reload_impl; every other word is a matcher.
reload_bypass(lines) ==
    FoldLeft(LAMBDA acc, line :
                LET parts == split_line_ref(line) IN
                CASE parts = <<>> -> acc
                  [] parts # <<>> /\ parts[1] = ReloadWord ->
                        IF Len(parts) > 1 THEN [acc EXCEPT !.period = Period(parts[2])] ELSE acc
                  [] parts # <<>> /\ parts[1] = ReverseWord ->
                        IF Len(parts) > 1 THEN [acc EXCEPT !.reversed = parse_bool(parts[2])] ELSE acc
                  [] OTHER -> [acc EXCEPT !.matchers = Append(@, parts[1])],
             [period |-> Nothing, reversed |-> FALSE, matchers |-> <<>>], lines)

\* mutant: the first reload line decides.
reload_hosts_first(lines) ==
    FoldLeft(LAMBDA acc, line :
                LET parts == split_line_ref(line) IN
                CASE Len(parts) < 2 -> acc
                  [] Len(parts) >= 2 /\ parts[1] = ReloadWord ->
                        IF IsZero(acc.period) THEN [acc EXCEPT !.period = Period(parts[2])] ELSE acc
                  [] OTHER -> [acc EXCEPT !.hosts = Append(@, parts)],
             [period |-> Nothing, hosts |-> <<>>], lines)

\* Hosts::reload_impl: a line of fewer than two words is ignored, and so is
\* one whose first word is no address (here: does not start with a digit).
reload_hosts(lines) ==
    FoldLeft(LAMBDA acc, line :
                LET parts == split_line_ref(line) IN
                CASE Len(parts) < 2 -> acc
                  [] Len(parts) >= 2 /\ parts[1] = ReloadWord -> [acc EXCEPT !.period = Period(parts[2])]
                  [] OTHER -> IF parts[1][1] \in Digits
                              THEN [acc EXCEPT !.hosts = Append(@, [ip |-> parts[1], hostname |-> parts[2],
                                                                   aliases |-> From(parts, 3)])]
                              ELSE acc,
             [period |-> Nothing, hosts |-> <<>>], lines)

=============================================================================
