--------------------------- MODULE MuxChannel_proofs ---------------------------
(***************************************************************************)
(* A stream of a smux session is the pipe StreamPipe describes, whatever   *)
(* the number of streams, the frame size and the limits: MuxChannel        *)
(* implements StreamPipe.                                                  *)
(*                                                                         *)
(* The frames that will still reach the peer form one line: what is on the *)
(* transport and, as long as that is up, what is queued behind it.  The    *)
(* invariant says what that line holds for each stream: its SYN first, its *)
(* FIN last, and between them frames that start where the one before them  *)
(* ended.  "Where the one before ended" is said byte by byte: every byte   *)
(* that the reader does not have yet and that comes before a frame's first *)
(* is in a frame in front of it.  That stays true when the line loses its  *)
(* head to the reader, gains a frame, or is cut anywhere.                  *)
(***************************************************************************)
EXTENDS MuxChannel, TLAPS, SequenceTheorems

Frames == [cmd : {"SYN", "PSH", "FIN"}, sid : Streams, first : Nat, len : Nat]

\* The frames that can still reach the peer.
Line == IF transport = "up" THEN wire \o queue ELSE wire

\* What the receiving end has of a stream.
Got(s) == Len(received[s]) + Len(buffer[s])

\* The bytes g + 1 .. e of stream s are in frames of q in front of place j.
Carried(q, s, g, e, j) ==
  \A b \in g + 1 .. e : \E i \in 1 .. j - 1 :
    q[i].sid = s /\ q[i].cmd = "PSH" /\ q[i].first <= b /\ b < q[i].first + q[i].len

\* In q the SYN of stream s is in front of its other frames and the FIN
\* behind them, and the data is in order.
Ranked(q, s) ==
  \A i, j \in DOMAIN q : i < j /\ q[i].sid = s /\ q[j].sid = s =>
    /\ q[j].cmd # "SYN" /\ q[i].cmd # "FIN"
    /\ q[i].cmd = "PSH" /\ q[j].cmd = "PSH" => q[i].first + q[i].len <= q[j].first

\* The SYN of s is still in the line, in front of everything, or was received.
Opened(q, s, known) ==
  \A j \in DOMAIN q : q[j].sid = s =>
    IF q[j].cmd = "SYN" THEN ~known
    ELSE known \/ \E i \in 1 .. j - 1 : q[i].sid = s /\ q[i].cmd = "SYN"

\* Nothing of s is missing from q: the reader has g bytes, e were written.
Whole(q, s, g, e) ==
  \A j \in DOMAIN q : q[j].sid = s =>
    /\ q[j].cmd = "PSH" => g < q[j].first /\ Carried(q, s, g, q[j].first - 1, j)
    /\ q[j].cmd = "FIN" => Carried(q, s, g, e, j)

TypeInv ==
  /\ tx \in [Streams -> {"new", "open", "closed"}]
  /\ sent \in [Streams -> Nat] /\ shut \in [Streams -> BOOLEAN]
  /\ queue \in Seq(Frames) /\ wire \in Seq(Frames)
  /\ tx_closed \in BOOLEAN /\ transport \in {"up", "eof", "cut"}
  /\ rx \in [Streams -> {"none", "open", "dropped"}]
  /\ buffer \in [Streams -> Seq(Nat)] /\ fin \in [Streams -> BOOLEAN]
  /\ received \in [Streams -> Seq(Nat)] /\ ended \in [Streams -> {"no", "eof", "error"}]

\* The frames of s and its sending end: none before it is opened, no data
\* that was not written, and a FIN only from a stream that is shut.
Written(s) ==
  /\ tx[s] = "new" => sent[s] = 0 /\ rx[s] = "none" /\ \A i \in DOMAIN Line : Line[i].sid # s
  /\ shut[s] => tx[s] = "closed"
  /\ \A i \in DOMAIN Line : Line[i].sid = s =>
       /\ Line[i].cmd = "PSH" => Line[i].first + Line[i].len <= sent[s] + 1
       /\ Line[i].cmd = "FIN" => shut[s]

\* The receiving end of s.
Held(s) ==
  /\ rx[s] = "none" => received[s] = <<>> /\ buffer[s] = <<>> /\ ~fin[s]
  /\ rx[s] # "dropped" => /\ Got(s) <= sent[s]
                          /\ \A i \in 1 .. Len(buffer[s]) : buffer[s][i] = Len(received[s]) + i
  /\ fin[s] /\ rx[s] # "dropped" =>
       shut[s] /\ Got(s) = sent[s] /\ \A i \in DOMAIN Line : Line[i].sid # s

\* What is between them.
Between(s) ==
  /\ Ranked(Line, s) /\ Opened(Line, s, rx[s] # "none")
  /\ rx[s] # "dropped" => Whole(Line, s, Got(s), sent[s])
  /\ transport = "up" =>
       /\ rx[s] # "dropped" => Carried(Line, s, Got(s), sent[s], Len(Line) + 1)
       /\ tx[s] # "new" /\ rx[s] = "none" => \E i \in DOMAIN Line : Line[i].sid = s /\ Line[i].cmd = "SYN"

StreamInv(s) == Written(s) /\ Held(s) /\ Between(s)

PipeInv ==
  /\ TypeInv
  /\ transport = "eof" => tx_closed
  /\ \A s \in Streams : StreamInv(s)
-------------------------------------------------------------------------------
(* Sequences.                                                              *)

\* What a sequence holds after Append, Tail and a cut.
LEMMA Appended ==
  ASSUME NEW T, NEW q \in Seq(T), NEW f \in T
  PROVE  /\ Append(q, f) \in Seq(T) /\ Len(Append(q, f)) = Len(q) + 1
         /\ DOMAIN Append(q, f) = 1 .. Len(q) + 1 /\ DOMAIN q = 1 .. Len(q) /\ Len(q) \in Nat
         /\ \A i \in 1 .. Len(q) : Append(q, f)[i] = q[i]
         /\ Append(q, f)[Len(q) + 1] = f
  OBVIOUS

\* The same, position by position.
LEMMA AppendKeeps ==
  ASSUME NEW T, NEW q \in Seq(T), NEW f \in T
  PROVE  /\ \A i \in DOMAIN q : i \in DOMAIN Append(q, f) /\ Append(q, f)[i] = q[i]
         /\ \A i \in DOMAIN Append(q, f) : Append(q, f)[i] = f \/ (i \in DOMAIN q /\ Append(q, f)[i] = q[i])
  OBVIOUS

\* A bound on where a frame ends may be raised.
LEMMA EndsBelow ==
  ASSUME NEW a \in Nat, NEW n \in Nat, NEW c \in Nat, NEW d \in Nat, a + n <= c + 1, c <= d
  PROVE  a + n <= d + 1
  OBVIOUS

\* The elements of a tail.
LEMMA Tailed ==
  ASSUME NEW T, NEW q \in Seq(T), q # <<>>
  PROVE  /\ Tail(q) \in Seq(T) /\ Len(Tail(q)) = Len(q) - 1 /\ Len(q) \in Nat \ {0}
         /\ DOMAIN Tail(q) = 1 .. Len(q) - 1 /\ DOMAIN q = 1 .. Len(q)
         /\ \A i \in 1 .. Len(q) - 1 : Tail(q)[i] = q[i + 1]
         /\ Head(q) = q[1] /\ 1 \in DOMAIN q
  OBVIOUS

\* The elements of a prefix.
LEMMA Cutted ==
  ASSUME NEW T, NEW q \in Seq(T), NEW n \in 0 .. Len(q)
  PROVE  /\ SubSeq(q, 1, n) \in Seq(T) /\ Len(SubSeq(q, 1, n)) = n
         /\ DOMAIN SubSeq(q, 1, n) = 1 .. n /\ DOMAIN q = 1 .. Len(q) /\ Len(q) \in Nat
         /\ \A i \in 1 .. n : SubSeq(q, 1, n)[i] = q[i]
  OBVIOUS

\* The elements of what a prefix leaves.
LEMMA Rested ==
  ASSUME NEW T, NEW q \in Seq(T), NEW n \in 1 .. Len(q), NEW i \in 1 .. Len(q) - n
  PROVE  i + n \in 1 .. Len(q) /\ SubSeq(q, n + 1, Len(q))[i] = q[i + n]
  OBVIOUS

\* The two parts of a buffer.
LEMMA Divided ==
  \A q \in Seq(Nat) : \A n \in 1 .. Len(q) : SubSeq(q, 1, n) \in Seq(Nat) /\ SubSeq(q, n + 1, Len(q)) \in Seq(Nat)
  OBVIOUS

\* The elements of two buffers put together.
LEMMA Concatenated ==
  \A x, y \in Seq(Nat) :
    /\ x \o y \in Seq(Nat) /\ Len(x \o y) = Len(x) + Len(y)
    /\ \A i \in 1 .. Len(x) + Len(y) :
         /\ i \in Int
         /\ i <= Len(x) => i \in 1 .. Len(x) /\ (x \o y)[i] = x[i]
         /\ ~(i <= Len(x)) => i - Len(x) \in 1 .. Len(y) /\ (x \o y)[i] = y[i - Len(x)]
  OBVIOUS

\* The line is a sequence of frames; it grows at the queue and is read at the wire.
LEMMA LineTyped == TypeInv => Line \in Seq(Frames)
  BY DEF TypeInv, Line

\* A frame that is queued is the last one under way.
LEMMA LineAppends ==
  ASSUME TypeInv, NEW f \in Frames, queue' = Append(queue, f), UNCHANGED netVars, transport = "up"
  PROVE  Line' = Append(Line, f)
<1>1. \A a, b \in Seq(Frames) : a \o Append(b, f) = Append(a \o b, f)
  OBVIOUS
<1> QED
  BY <1>1, Zenon DEF TypeInv, Line, netVars

\* The frame that is read is the first one under way.
LEMMA LineTail ==
  ASSUME TypeInv, wire # <<>>, wire' = Tail(wire), UNCHANGED <<queue, transport>>
  PROVE  Line # <<>> /\ Head(Line) = Head(wire) /\ Line' = Tail(Line)
<1>1. \A a, b \in Seq(Frames) : a # <<>> => a \o b # <<>> /\ Head(a \o b) = Head(a) /\ Tail(a \o b) = Tail(a) \o b
  OBVIOUS
<1> QED
  BY <1>1, Zenon DEF TypeInv, Line
-------------------------------------------------------------------------------
(* The line of frames.                                                     *)

\* Frames of other streams come and go without a trace.
LEMMA OthersAppended ==
  ASSUME NEW q \in Seq(Frames), NEW f \in Frames, NEW s \in Streams, f.sid # s,
         NEW g \in Nat, NEW e \in Nat, NEW known \in BOOLEAN
  PROVE  /\ Ranked(q, s) => Ranked(Append(q, f), s)
         /\ Opened(q, s, known) => Opened(Append(q, f), s, known)
         /\ Whole(q, s, g, e) => Whole(Append(q, f), s, g, e)
         /\ Carried(q, s, g, e, Len(q) + 1) => Carried(Append(q, f), s, g, e, Len(Append(q, f)) + 1)
<1> DEFINE r == Append(q, f)
<1>1. /\ r \in Seq(Frames) /\ DOMAIN r = 1 .. Len(q) + 1 /\ DOMAIN q = 1 .. Len(q) /\ Len(q) \in Nat
      /\ Len(r) = Len(q) + 1 /\ r[Len(q) + 1] = f
      /\ \A i \in 1 .. Len(q) : r[i] = q[i]
  BY Appended
<1> HIDE DEF r
<1>2. ASSUME NEW j \in DOMAIN r, r[j].sid = s PROVE j \in DOMAIN q /\ r[j] = q[j] /\ j \in 1 .. Len(q)
  BY <1>1, <1>2
<1>3. Ranked(q, s) => Ranked(r, s)
  BY <1>2, Zenon DEF Ranked
<1>4. ASSUME NEW j \in 1 .. Len(q) + 1, NEW x, Carried(q, s, g, x, j) PROVE Carried(r, s, g, x, j)
  BY <1>1, <1>4 DEF Carried
<1>5. ASSUME Opened(q, s, known) PROVE Opened(r, s, known)
  <2> SUFFICES ASSUME NEW j \in DOMAIN r, r[j].sid = s, r[j].cmd # "SYN", ~known
               PROVE  \E i \in 1 .. j - 1 : r[i].sid = s /\ r[i].cmd = "SYN"
    BY <1>2, <1>5, Zenon DEF Opened
  <2>1. PICK i \in 1 .. j - 1 : q[i].sid = s /\ q[i].cmd = "SYN"
    BY <1>2, <1>5, Zenon DEF Opened
  <2> QED
    BY <1>1, <1>2, <2>1
<1>6. ASSUME Whole(q, s, g, e) PROVE Whole(r, s, g, e)
  <2> SUFFICES ASSUME NEW j \in DOMAIN r, r[j].sid = s
               PROVE  /\ r[j].cmd = "PSH" => g < r[j].first /\ Carried(r, s, g, r[j].first - 1, j)
                      /\ r[j].cmd = "FIN" => Carried(r, s, g, e, j)
    BY Zenon DEF Whole
  <2>1. j \in DOMAIN q /\ r[j] = q[j] /\ j \in 1 .. Len(q) + 1
    BY <1>1, <1>2, Zenon
  <2> QED
    BY <1>4, <1>6, <2>1, Zenon DEF Whole
<1>7. Carried(q, s, g, e, Len(q) + 1) => Carried(r, s, g, e, Len(r) + 1)
  <2> SUFFICES ASSUME NEW b \in g + 1 .. e, Carried(q, s, g, e, Len(q) + 1)
               PROVE  \E i \in 1 .. Len(r) + 1 - 1 :
                        r[i].sid = s /\ r[i].cmd = "PSH" /\ r[i].first <= b /\ b < r[i].first + r[i].len
    BY DEF Carried
  <2>1. PICK i \in 1 .. Len(q) + 1 - 1 :
               q[i].sid = s /\ q[i].cmd = "PSH" /\ q[i].first <= b /\ b < q[i].first + q[i].len
    BY DEF Carried
  <2>2. i \in 1 .. Len(r) + 1 - 1 /\ r[i] = q[i]
    BY <1>1
  <2> QED
    BY <2>1, <2>2, Zenon
<1> QED
  BY <1>3, <1>5, <1>6, <1>7, Zenon DEF r

\* A stream's SYN is the first of its frames.
LEMMA SynAppended ==
  ASSUME NEW q \in Seq(Frames), NEW f \in Frames, NEW s \in Streams, f.sid = s, f.cmd = "SYN",
         \A i \in DOMAIN q : q[i].sid # s, NEW r \in Seq(Frames), r = Append(q, f)
  PROVE  /\ Ranked(r, s) /\ Whole(r, s, 0, 0)
         /\ Carried(r, s, 0, 0, Len(r) + 1)
         /\ \E i \in DOMAIN r : r[i].sid = s /\ r[i].cmd = "SYN"
         /\ \A i \in DOMAIN r : r[i].sid = s => r[i].cmd = "SYN"
<1>1. /\ r \in Seq(Frames) /\ DOMAIN r = 1 .. Len(q) + 1 /\ DOMAIN q = 1 .. Len(q) /\ Len(q) \in Nat
      /\ Len(r) = Len(q) + 1 /\ r[Len(q) + 1] = f
      /\ \A i \in 1 .. Len(q) : r[i] = q[i]
  BY Appended
<1>2. ASSUME NEW j \in DOMAIN r, r[j].sid = s PROVE j = Len(q) + 1 /\ r[j] = f
  BY <1>1, <1>2
<1>3. Len(q) + 1 \in DOMAIN r
  BY <1>1
<1>4. Ranked(r, s)
  BY <1>1, <1>2 DEF Ranked
<1>5. Whole(r, s, 0, 0)
  BY <1>2, Zenon DEF Whole
<1>6. Carried(r, s, 0, 0, Len(r) + 1)
  BY DEF Carried
<1> QED
  BY <1>1, <1>2, <1>3, <1>4, <1>5, <1>6, Zenon

\* A stream's next frame joins the line behind all its data: a PSH starts
\* where that ends, and both need the SYN to have gone before.
LEMMA NextAppended ==
  ASSUME NEW q \in Seq(Frames), NEW f \in Frames, NEW s \in Streams, f.sid = s, f.cmd \in {"PSH", "FIN"},
         NEW g \in Nat, NEW e \in Nat, NEW known \in BOOLEAN,
         f.cmd = "PSH" => f.first = e + 1 /\ f.len > 0,
         Ranked(q, s), Opened(q, s, known),
         \A i \in DOMAIN q : q[i].sid = s =>
            /\ q[i].cmd = "PSH" => q[i].first + q[i].len <= e + 1
            /\ q[i].cmd # "FIN",
         ~known => \E i \in DOMAIN q : q[i].sid = s /\ q[i].cmd = "SYN"
  PROVE  /\ Ranked(Append(q, f), s) /\ Opened(Append(q, f), s, known)
         /\ Carried(q, s, g, e, Len(q) + 1) /\ Whole(q, s, g, e) /\ g <= e =>
              /\ Whole(Append(q, f), s, g, IF f.cmd = "PSH" THEN e + f.len ELSE e)
              /\ Carried(Append(q, f), s, g, IF f.cmd = "PSH" THEN e + f.len ELSE e, Len(Append(q, f)) + 1)
<1> DEFINE r == Append(q, f)
           k == Len(q) + 1
<1>1. /\ r \in Seq(Frames) /\ DOMAIN r = 1 .. k /\ DOMAIN q = 1 .. Len(q) /\ Len(q) \in Nat
      /\ Len(r) = k /\ r[k] = f
      /\ \A i \in 1 .. Len(q) : r[i] = q[i]
  BY Appended
<1> HIDE DEF r
<1>2. \A j \in DOMAIN r : j = k \/ (j \in DOMAIN q /\ r[j] = q[j] /\ j < k)
  BY <1>1
<1>3. k \in DOMAIN r /\ k \in Nat /\ k \in 1 .. k /\ \A i \in DOMAIN q : i \in 1 .. k - 1 /\ i \in DOMAIN r /\ r[i] = q[i]
  BY <1>1
<1>4. \A i \in DOMAIN q : q[i] \in Frames
  BY <1>1
<1>5. Ranked(r, s)
  <2> SUFFICES ASSUME NEW i \in DOMAIN r, NEW j \in DOMAIN r, i < j, r[i].sid = s, r[j].sid = s
               PROVE  /\ r[j].cmd # "SYN" /\ r[i].cmd # "FIN"
                      /\ r[i].cmd = "PSH" /\ r[j].cmd = "PSH" => r[i].first + r[i].len <= r[j].first
    BY Zenon DEF Ranked
  <2>1. i \in DOMAIN q /\ r[i] = q[i]
    BY <1>1, <1>2
  <2>2. CASE j = k
    BY <1>1, <2>1, <2>2, Zenon
  <2>3. CASE j # k
    BY <1>2, <2>1, <2>3, Zenon DEF Ranked
  <2> QED
    BY <2>2, <2>3, Zenon
<1>6. Opened(r, s, known)
  <2> SUFFICES ASSUME NEW j \in DOMAIN r, r[j].sid = s
               PROVE  IF r[j].cmd = "SYN" THEN ~known
                      ELSE known \/ \E i \in 1 .. j - 1 : r[i].sid = s /\ r[i].cmd = "SYN"
    BY Zenon DEF Opened
  <2>1. CASE j = k
    BY <1>1, <1>3, <2>1, Zenon
  <2>2. CASE j # k
    <3>1. j \in DOMAIN q /\ r[j] = q[j]
      BY <1>2, <2>2, Zenon
    <3>2. CASE q[j].cmd = "SYN" \/ known
      BY <3>1, <3>2, Zenon DEF Opened
    <3>3. CASE q[j].cmd # "SYN" /\ ~known
      <4>1. PICK i \in 1 .. j - 1 : q[i].sid = s /\ q[i].cmd = "SYN"
        BY <3>1, <3>3, Zenon DEF Opened
      <4> QED
        BY <1>1, <3>1, <3>3, <4>1
    <3> QED
      BY <3>2, <3>3, Zenon
  <2> QED
    BY <2>1, <2>2, Zenon
<1>7. ASSUME NEW j \in 1 .. k, NEW x, Carried(q, s, g, x, j) PROVE Carried(r, s, g, x, j)
  BY <1>1, <1>7 DEF Carried
<1>8. ASSUME Carried(q, s, g, e, Len(q) + 1), Whole(q, s, g, e), g <= e
      PROVE  Whole(r, s, g, IF f.cmd = "PSH" THEN e + f.len ELSE e)
  <2> SUFFICES ASSUME NEW j \in DOMAIN r, r[j].sid = s
               PROVE  /\ r[j].cmd = "PSH" => g < r[j].first /\ Carried(r, s, g, r[j].first - 1, j)
                      /\ r[j].cmd = "FIN" => Carried(r, s, g, IF f.cmd = "PSH" THEN e + f.len ELSE e, j)
    BY Zenon DEF Whole
  <2>1. CASE j = k
    <3>1. Carried(r, s, g, e, k)
      <4>1. k \in 1 .. k /\ Carried(q, s, g, e, k)
        BY <1>3, <1>8, Zenon
      <4> HIDE DEF k
      <4> QED
        BY <1>7, <4>1, Zenon
    <3>2. f.cmd = "PSH" => f.first - 1 = e
      OBVIOUS
    <3> QED
      BY <1>1, <1>8, <2>1, <3>1, <3>2
  <2>2. CASE j # k
    <3>1. j \in DOMAIN q /\ r[j] = q[j] /\ j \in 1 .. k /\ r[j].cmd # "FIN"
      BY <1>1, <1>2, <2>2, Zenon
    <3> QED
      BY <1>7, <1>8, <3>1, Zenon DEF Whole
  <2> QED
    BY <2>1, <2>2, Zenon
<1>9. ASSUME Carried(q, s, g, e, Len(q) + 1)
      PROVE  Carried(r, s, g, IF f.cmd = "PSH" THEN e + f.len ELSE e, Len(r) + 1)
  <2> SUFFICES ASSUME NEW b \in g + 1 .. (IF f.cmd = "PSH" THEN e + f.len ELSE e)
               PROVE  \E i \in 1 .. (Len(r) + 1) - 1 :
                        r[i].sid = s /\ r[i].cmd = "PSH" /\ r[i].first <= b /\ b < r[i].first + r[i].len
    BY Zenon DEF Carried
  <2>1. CASE b <= e
    <3>1. b \in g + 1 .. e
      BY <2>1
    <3>2. PICK i \in 1 .. (Len(q) + 1) - 1 :
                 q[i].sid = s /\ q[i].cmd = "PSH" /\ q[i].first <= b /\ b < q[i].first + q[i].len
      BY <1>9, <3>1, Zenon DEF Carried
    <3>3. i \in 1 .. (Len(r) + 1) - 1 /\ r[i] = q[i]
      BY <1>1
    <3> QED
      BY <3>2, <3>3, Zenon
  <2>2. CASE ~(b <= e)
    <3>1. f.cmd = "PSH" /\ f.first <= b /\ b < f.first + f.len
      BY <2>2 DEF Frames
    <3>2. k \in 1 .. (Len(r) + 1) - 1
      BY <1>1
    <3> QED
      BY <1>1, <3>1, <3>2, Zenon
  <2> QED
    BY <2>1, <2>2, Zenon
<1> QED
  BY <1>5, <1>6, <1>8, <1>9, Zenon DEF r

\* The line q grows to r by a frame f of s that continues it: n bytes were
\* written before, e are now, and the reader has g.
Continues(q, f, s, g, n, known, r, e) ==
  /\ q \in Seq(Frames) /\ f \in Frames /\ s \in Streams /\ f.sid = s /\ f.cmd \in {"PSH", "FIN"}
  /\ g \in Nat /\ n \in Nat /\ known \in BOOLEAN
  /\ f.cmd = "PSH" => f.first = n + 1 /\ f.len > 0
  /\ Ranked(q, s) /\ Opened(q, s, known)
  /\ \A i \in DOMAIN q : q[i].sid = s => (q[i].cmd = "PSH" => q[i].first + q[i].len <= n + 1) /\ q[i].cmd # "FIN"
  /\ ~known => \E i \in DOMAIN q : q[i].sid = s /\ q[i].cmd = "SYN"
  /\ r = Append(q, f) /\ e = (IF f.cmd = "PSH" THEN n + f.len ELSE n)

\* The grown line is still ordered and whole.
Continued(q, f, s, g, n, known, r, e) ==
  /\ Ranked(r, s) /\ Opened(r, s, known)
  /\ Carried(q, s, g, n, Len(q) + 1) /\ Whole(q, s, g, n) /\ g <= n =>
       Whole(r, s, g, e) /\ Carried(r, s, g, e, Len(r) + 1)
  /\ \A i \in DOMAIN q : i \in DOMAIN r /\ r[i] = q[i]
  /\ \A i \in DOMAIN r : r[i] = f \/ (i \in DOMAIN q /\ r[i] = q[i])

\* So it is.
LEMMA NextOnLine ==
  ASSUME NEW q, NEW f, NEW s, NEW g, NEW n, NEW known, NEW r, NEW e, Continues(q, f, s, g, n, known, r, e)
  PROVE  Continued(q, f, s, g, n, known, r, e)
<1>1. /\ \A i \in DOMAIN q : i \in DOMAIN r /\ r[i] = q[i]
      /\ \A i \in DOMAIN r : r[i] = f \/ (i \in DOMAIN q /\ r[i] = q[i])
  <2>1. q \in Seq(Frames) /\ f \in Frames /\ r = Append(q, f)
    BY Zenon DEF Continues
  <2> QED
    BY <2>1, AppendKeeps
<1>2. /\ Ranked(r, s) /\ Opened(r, s, known)
      /\ Carried(q, s, g, n, Len(q) + 1) /\ Whole(q, s, g, n) /\ g <= n =>
           Whole(r, s, g, e) /\ Carried(r, s, g, e, Len(r) + 1)
  BY NextAppended, ZenonT(30) DEF Continues
<1> QED
  BY <1>1, <1>2, Zenon DEF Continued

\* A line that is cut is the line of a stream that has said less.
LEMMA CutKeeps ==
  ASSUME NEW q \in Seq(Frames), NEW n \in 0 .. Len(q), NEW s \in Streams,
         NEW g \in Nat, NEW e \in Nat, NEW known \in BOOLEAN
  PROVE  /\ Ranked(q, s) => Ranked(SubSeq(q, 1, n), s)
         /\ Opened(q, s, known) => Opened(SubSeq(q, 1, n), s, known)
         /\ Whole(q, s, g, e) => Whole(SubSeq(q, 1, n), s, g, e)
<1> DEFINE r == SubSeq(q, 1, n)
<1>1. /\ r \in Seq(Frames) /\ DOMAIN r = 1 .. n /\ DOMAIN q = 1 .. Len(q) /\ Len(q) \in Nat
      /\ \A i \in 1 .. n : r[i] = q[i]
  BY Cutted
<1> HIDE DEF r
<1>2. \A j \in DOMAIN r : j \in DOMAIN q /\ r[j] = q[j] /\ j \in 1 .. n
  BY <1>1
<1>3. Ranked(q, s) => Ranked(r, s)
  BY <1>2, Zenon DEF Ranked
<1>4. ASSUME NEW j \in 1 .. n, NEW x, Carried(q, s, g, x, j) PROVE Carried(r, s, g, x, j)
  BY <1>1, <1>4 DEF Carried
<1>5. ASSUME Opened(q, s, known) PROVE Opened(r, s, known)
  <2> SUFFICES ASSUME NEW j \in DOMAIN r, r[j].sid = s, r[j].cmd # "SYN", ~known
               PROVE  \E i \in 1 .. j - 1 : r[i].sid = s /\ r[i].cmd = "SYN"
    BY <1>2, <1>5, Zenon DEF Opened
  <2>1. PICK i \in 1 .. j - 1 : q[i].sid = s /\ q[i].cmd = "SYN"
    BY <1>2, <1>5, Zenon DEF Opened
  <2> QED
    BY <1>1, <1>2, <2>1
<1>6. ASSUME Whole(q, s, g, e) PROVE Whole(r, s, g, e)
  <2> SUFFICES ASSUME NEW j \in DOMAIN r, r[j].sid = s
               PROVE  /\ r[j].cmd = "PSH" => g < r[j].first /\ Carried(r, s, g, r[j].first - 1, j)
                      /\ r[j].cmd = "FIN" => Carried(r, s, g, e, j)
    BY Zenon DEF Whole
  <2> QED
    BY <1>2, <1>4, <1>6, Zenon DEF Whole
<1> QED
  BY <1>3, <1>5, <1>6, Zenon DEF r

\* The fields of a frame of the line.
LEMMA FrameTyped ==
  ASSUME NEW q \in Seq(Frames), NEW i \in DOMAIN q
  PROVE  /\ q[i] \in Frames /\ q[i].first \in Nat /\ q[i].len \in Nat /\ q[i].sid \in Streams
         /\ q[i].cmd \in {"SYN", "PSH", "FIN"}
<1>1. q[i] \in Frames
  OBVIOUS
<1> QED
  BY <1>1, Zenon DEF Frames

\* A line is read from the front: its order stays.
LEMMA TailRanked ==
  ASSUME NEW q \in Seq(Frames), q # <<>>, NEW s \in Streams, Ranked(q, s)
  PROVE  Ranked(Tail(q), s)
<1> DEFINE r == Tail(q)
<1>1. /\ DOMAIN r = 1 .. Len(q) - 1 /\ DOMAIN q = 1 .. Len(q) /\ Len(q) \in Nat
      /\ \A i \in 1 .. Len(q) - 1 : r[i] = q[i + 1]
  BY Tailed, Zenon
<1> HIDE DEF r
<1>2. \A i \in DOMAIN r : i + 1 \in DOMAIN q /\ r[i] = q[i + 1] /\ i \in Nat
  BY <1>1
<1>3. \A i, j \in DOMAIN r : i < j => i + 1 < j + 1
  BY <1>1
<1>4. Ranked(r, s)
  BY <1>2, <1>3, Zenon DEF Ranked
<1> QED
  BY <1>4, Zenon DEF r

\* A frame that carries none of the bytes from h + 1 on is read: they are
\* still all there.
LEMMA TailCarries ==
  ASSUME NEW q \in Seq(Frames), q # <<>>, NEW s \in Streams, NEW g \in Nat, NEW h \in Nat, NEW e \in Int,
         NEW j \in 1 .. Len(q), g <= h, Carried(q, s, g, e, j + 1),
         Head(q).sid # s \/ Head(q).cmd # "PSH" \/ Head(q).first + Head(q).len <= h + 1
  PROVE  Carried(Tail(q), s, h, e, j)
<1> DEFINE r == Tail(q)
<1>1. /\ DOMAIN r = 1 .. Len(q) - 1 /\ DOMAIN q = 1 .. Len(q) /\ Len(q) \in Nat
      /\ \A i \in 1 .. Len(q) - 1 : r[i] = q[i + 1]
      /\ Head(q) = q[1]
  BY Tailed, Zenon
<1> HIDE DEF r
<1> SUFFICES ASSUME NEW b \in h + 1 .. e
             PROVE  \E i \in 1 .. j - 1 :
                      r[i].sid = s /\ r[i].cmd = "PSH" /\ r[i].first <= b /\ b < r[i].first + r[i].len
  BY Zenon DEF Carried, r
<1>2. b \in g + 1 .. e
  OBVIOUS
<1>3. PICK i \in 1 .. (j + 1) - 1 :
             q[i].sid = s /\ q[i].cmd = "PSH" /\ q[i].first <= b /\ b < q[i].first + q[i].len
  BY <1>2, Zenon DEF Carried
<1>4. i # 1
  <2> SUFFICES ASSUME i = 1 PROVE FALSE
    BY Zenon
  <2>1. 1 \in DOMAIN q
    BY <1>1
  <2>2. q[1].first \in Nat /\ q[1].len \in Nat
    BY <2>1, FrameTyped, Zenon
  <2>3. q[1].first + q[1].len <= h + 1 /\ b < q[1].first + q[1].len
    BY <1>1, <1>3, Zenon
  <2> QED
    BY <2>2, <2>3
<1>5. i - 1 \in 1 .. j - 1 /\ i - 1 \in 1 .. Len(q) - 1 /\ (i - 1) + 1 = i
  BY <1>1, <1>4
<1>6. r[i - 1] = q[i]
  BY <1>1, <1>5, Zenon
<1> QED
  BY <1>3, <1>5, <1>6, Zenon

\* A frame that is read is not one the others need to be carried: a frame of
\* another stream, a SYN, or data the reader now has.
LEMMA TailWhole ==
  ASSUME NEW q \in Seq(Frames), q # <<>>, NEW s \in Streams, NEW g \in Nat, NEW h \in Nat, NEW e \in Nat,
         g <= h, Ranked(q, s), Whole(q, s, g, e),
         \/ Head(q).sid # s /\ h = g
         \/ Head(q).sid = s /\ Head(q).cmd = "SYN" /\ h = g
         \/ Head(q).sid = s /\ Head(q).cmd = "PSH" /\ Head(q).first + Head(q).len = h + 1
  PROVE  /\ Whole(Tail(q), s, h, e)
         /\ Carried(q, s, g, e, Len(q) + 1) => Carried(Tail(q), s, h, e, Len(Tail(q)) + 1)
<1> DEFINE r == Tail(q)
<1>1. /\ DOMAIN r = 1 .. Len(q) - 1 /\ DOMAIN q = 1 .. Len(q) /\ Len(q) \in Nat \ {0}
      /\ \A i \in 1 .. Len(q) - 1 : r[i] = q[i + 1]
      /\ Head(q) = q[1] /\ Len(r) = Len(q) - 1 /\ r \in Seq(Frames)
  BY Tailed, Zenon
<1> HIDE DEF r
<1>2. Head(q).sid # s \/ Head(q).cmd # "PSH" \/ Head(q).first + Head(q).len <= h + 1
  OBVIOUS
<1>3. ASSUME NEW e1 \in Int, NEW j \in 1 .. Len(q), Carried(q, s, g, e1, j + 1) PROVE Carried(r, s, h, e1, j)
  BY <1>2, <1>3, TailCarries, Zenon DEF r
<1>4. ASSUME NEW j \in DOMAIN r, r[j].sid = s
      PROVE  /\ r[j].cmd = "PSH" => h < r[j].first /\ Carried(r, s, h, r[j].first - 1, j)
             /\ r[j].cmd = "FIN" => Carried(r, s, h, e, j)
  <2>1. j \in 1 .. Len(q) /\ j + 1 \in DOMAIN q /\ r[j] = q[j + 1] /\ 1 \in DOMAIN q /\ 1 < j + 1
    BY <1>1
  <2>2. r[j] \in Frames /\ r[j].first \in Nat /\ q[1] \in Frames /\ q[1].first \in Nat /\ q[1].len \in Nat
    BY <1>1, <2>1, FrameTyped, Zenon
  <2>3. ASSUME r[j].cmd = "PSH" PROVE h < r[j].first /\ Carried(r, s, h, r[j].first - 1, j)
    <3>1. g < q[j + 1].first /\ Carried(q, s, g, q[j + 1].first - 1, j + 1)
      BY <1>4, <2>1, <2>3, Zenon DEF Whole
    <3>2. Carried(r, s, h, r[j].first - 1, j)
      <4>1. r[j].first - 1 \in Int
        BY <2>2
      <4> QED
        BY <1>3, <2>1, <3>1, <4>1, Zenon
    <3>3. q[1].sid = s /\ q[1].cmd = "PSH" => q[1].first + q[1].len <= q[j + 1].first
      BY <1>4, <2>1, <2>3, Zenon DEF Ranked
    <3> QED
      BY <1>1, <2>1, <2>2, <3>1, <3>2, <3>3
  <2>4. ASSUME r[j].cmd = "FIN" PROVE Carried(r, s, h, e, j)
    <3>1. Carried(q, s, g, e, j + 1) /\ e \in Int
      BY <1>4, <2>1, <2>4 DEF Whole
    <3> QED
      BY <1>3, <2>1, <3>1, Zenon
  <2> QED
    BY <2>3, <2>4, Zenon
<1>5. Whole(r, s, h, e)
  BY <1>4, Zenon DEF Whole
<1>6. ASSUME Carried(q, s, g, e, Len(q) + 1) PROVE Carried(r, s, h, e, Len(r) + 1)
  <2>1. Len(q) \in 1 .. Len(q) /\ e \in Int /\ Len(r) + 1 = Len(q)
    BY <1>1
  <2> QED
    BY <1>3, <1>6, <2>1, Zenon
<1> QED
  BY <1>5, <1>6, Zenon DEF r

\* After the SYN no other follows; every other frame leaves the rest behind a
\* SYN as it was.
LEMMA TailOpened ==
  ASSUME NEW q \in Seq(Frames), q # <<>>, NEW s \in Streams, NEW known \in BOOLEAN, NEW now \in BOOLEAN,
         Ranked(q, s), Opened(q, s, known),
         IF Head(q).sid = s /\ Head(q).cmd = "SYN" THEN now ELSE now = known
  PROVE  Opened(Tail(q), s, now)
<1> DEFINE r == Tail(q)
<1>1. /\ DOMAIN r = 1 .. Len(q) - 1 /\ DOMAIN q = 1 .. Len(q) /\ Len(q) \in Nat \ {0}
      /\ \A i \in 1 .. Len(q) - 1 : r[i] = q[i + 1]
      /\ Head(q) = q[1]
  BY Tailed, Zenon
<1> HIDE DEF r
<1>2. ASSUME NEW j \in DOMAIN r, r[j].sid = s
      PROVE  IF r[j].cmd = "SYN" THEN ~now ELSE now \/ \E i \in 1 .. j - 1 : r[i].sid = s /\ r[i].cmd = "SYN"
  <2>1. j + 1 \in DOMAIN q /\ r[j] = q[j + 1] /\ 1 \in DOMAIN q /\ 1 < j + 1 /\ j \in Nat
    BY <1>1
  <2>2. CASE q[1].sid = s /\ q[1].cmd = "SYN"
    BY <1>1, <1>2, <2>1, <2>2, Zenon DEF Ranked
  <2>3. CASE ~(q[1].sid = s /\ q[1].cmd = "SYN")
    <3>1. now = known
      BY <1>1, <2>3, Zenon
    <3>2. CASE r[j].cmd = "SYN" \/ known
      BY <1>2, <2>1, <3>1, <3>2, Zenon DEF Opened
    <3>3. CASE r[j].cmd # "SYN" /\ ~known
      <4>1. PICK i \in 1 .. (j + 1) - 1 : q[i].sid = s /\ q[i].cmd = "SYN"
        BY <1>2, <2>1, <3>3, Zenon DEF Opened
      <4>2. i # 1
        BY <2>3, <4>1, Zenon
      <4>3. i - 1 \in 1 .. j - 1 /\ i - 1 \in 1 .. Len(q) - 1 /\ (i - 1) + 1 = i
        BY <1>1, <2>1, <4>2
      <4>4. r[i - 1] = q[i]
        BY <1>1, <4>3, Zenon
      <4> QED
        BY <3>3, <4>1, <4>3, <4>4, Zenon
    <3> QED
      BY <3>2, <3>3, Zenon
  <2> QED
    BY <2>2, <2>3, Zenon
<1> QED
  BY <1>2, Zenon DEF Opened, r
-------------------------------------------------------------------------------
(* Steps that leave a stream alone.                                        *)

Untouched(s) ==
  /\ tx'[s] = tx[s] /\ sent'[s] = sent[s] /\ shut'[s] = shut[s]
  /\ rx'[s] = rx[s] /\ buffer'[s] = buffer[s] /\ fin'[s] = fin[s] /\ received'[s] = received[s]

\* The numbers a stream's part of the invariant is about.
LEMMA Counts ==
  ASSUME TypeInv, NEW s \in Streams
  PROVE  Len(received[s]) \in Nat /\ Len(buffer[s]) \in Nat /\ Got(s) \in Nat /\ sent[s] \in Nat
<1>1. received[s] \in Seq(Nat) /\ buffer[s] \in Seq(Nat) /\ sent[s] \in Nat
  BY Zenon DEF TypeInv
<1>2. Len(received[s]) \in Nat /\ Len(buffer[s]) \in Nat
  BY <1>1, LenProperties, Zenon
<1>3. \A a, b \in Nat : a + b \in Nat
  OBVIOUS
<1> QED
  BY <1>1, <1>2, <1>3, Zenon DEF Got

\* The line is the same.
LEMMA StreamStays ==
  ASSUME NEW s \in Streams, StreamInv(s), Untouched(s), Line' = Line, transport' = "up" => transport = "up"
  PROVE  StreamInv(s)'
<1>1. Got(s)' = Got(s)
  BY Zenon DEF Got, Untouched
<1>2. Written(s)'
  BY Zenon DEF StreamInv, Written, Untouched
<1>3. Held(s)'
  BY <1>1, Zenon DEF StreamInv, Held, Untouched
<1>4. Between(s)'
  BY <1>1, Zenon DEF StreamInv, Between, Untouched
<1> QED
  BY <1>2, <1>3, <1>4, Zenon DEF StreamInv

\* A frame of another stream joins the line.
LEMMA OtherGrows ==
  ASSUME TypeInv, NEW s \in Streams, StreamInv(s), Untouched(s), NEW f \in Frames, f.sid # s,
         Line' = Append(Line, f), transport' = transport
  PROVE  StreamInv(s)'
<1>0. Line \in Seq(Frames) /\ Got(s) \in Nat /\ sent[s] \in Nat
  BY LineTyped, Counts, Zenon
<1>1. Got(s)' = Got(s)
  BY Zenon DEF Got, Untouched
<1>2. \A i \in DOMAIN Line' : Line'[i].sid = s => i \in DOMAIN Line /\ Line'[i] = Line[i]
  BY <1>0, Appended
<1>3. Written(s)'
  BY <1>2, Zenon DEF StreamInv, Written, Untouched
<1>4. Held(s)'
  BY <1>1, <1>2, Zenon DEF StreamInv, Held, Untouched
<1>5. Between(s)'
  <2>1. Ranked(Line', s)
    BY <1>0, OthersAppended, Zenon DEF StreamInv, Between
  <2>2. Opened(Line', s, rx'[s] # "none")
    BY <1>0, OthersAppended, Zenon DEF StreamInv, Between, Untouched
  <2>3. rx'[s] # "dropped" => Whole(Line', s, Got(s)', sent'[s])
    BY <1>0, <1>1, OthersAppended, Zenon DEF StreamInv, Between, Untouched
  <2>4. transport' = "up" /\ rx'[s] # "dropped" => Carried(Line', s, Got(s)', sent'[s], Len(Line') + 1)
    BY <1>0, <1>1, OthersAppended, Zenon DEF StreamInv, Between, Untouched
  <2>5. transport' = "up" /\ tx'[s] # "new" /\ rx'[s] = "none" =>
          \E i \in DOMAIN Line' : Line'[i].sid = s /\ Line'[i].cmd = "SYN"
    <3>1. \A i \in DOMAIN Line : i \in DOMAIN Line' /\ Line'[i] = Line[i]
      <4>1. \A i \in DOMAIN Line : i \in DOMAIN Append(Line, f) /\ Append(Line, f)[i] = Line[i]
        BY <1>0, AppendKeeps
      <4> QED
        BY <4>1, Zenon
    <3> QED
      BY <3>1, Zenon DEF StreamInv, Between, Untouched
  <2> QED
    BY <2>1, <2>2, <2>3, <2>4, <2>5, Zenon DEF Between
<1> QED
  BY <1>3, <1>4, <1>5, Zenon DEF StreamInv

\* A frame of another stream is read.
LEMMA OtherRead ==
  ASSUME TypeInv, NEW s \in Streams, StreamInv(s), Untouched(s), Line # <<>>, Head(Line).sid # s,
         Line' = Tail(Line), transport' = transport
  PROVE  StreamInv(s)'
<1>0. Line \in Seq(Frames) /\ Got(s) \in Nat /\ sent[s] \in Nat
  BY LineTyped, Counts, Zenon
<1>1. Got(s)' = Got(s)
  BY Zenon DEF Got, Untouched
<1>2. /\ \A i \in DOMAIN Line' : i + 1 \in DOMAIN Line /\ Line'[i] = Line[i + 1]
      /\ \A i \in DOMAIN Line : i # 1 => i - 1 \in DOMAIN Line' /\ Line'[i - 1] = Line[i]
      /\ Head(Line) = Line[1]
  BY <1>0, Tailed
<1>3. Written(s)'
  BY <1>2 DEF StreamInv, Written, Untouched
<1>4. Held(s)'
  BY <1>1, <1>2 DEF StreamInv, Held, Untouched
<1>5. Between(s)'
  <2>0. Ranked(Line, s) /\ Opened(Line, s, rx[s] # "none")
    BY Zenon DEF StreamInv, Between
  <2>1. Ranked(Line', s)
    BY <1>0, <2>0, TailRanked, Zenon
  <2>2. Opened(Line', s, rx'[s] # "none")
    BY <1>0, <2>0, TailOpened, Zenon DEF Untouched
  <2>3. ASSUME rx'[s] # "dropped"
        PROVE  /\ Whole(Line', s, Got(s)', sent'[s])
               /\ transport' = "up" => Carried(Line', s, Got(s)', sent'[s], Len(Line') + 1)
    <3>1. Whole(Line, s, Got(s), sent[s]) /\ (transport = "up" => Carried(Line, s, Got(s), sent[s], Len(Line) + 1))
      BY <2>3, Zenon DEF StreamInv, Between, Untouched
    <3>2. Got(s) <= Got(s)
      BY <1>0
    <3> QED
      BY <1>0, <1>1, <2>0, <3>1, <3>2, TailWhole, Zenon DEF Untouched
  <2>4. transport' = "up" /\ tx'[s] # "new" /\ rx'[s] = "none" =>
          \E i \in DOMAIN Line' : Line'[i].sid = s /\ Line'[i].cmd = "SYN"
    <3>1. SUFFICES ASSUME transport' = "up", tx'[s] # "new", rx'[s] = "none"
                   PROVE  \E i \in DOMAIN Line' : Line'[i].sid = s /\ Line'[i].cmd = "SYN"
      BY Zenon
    <3>2. PICK i \in DOMAIN Line : Line[i].sid = s /\ Line[i].cmd = "SYN"
      BY <3>1, Zenon DEF StreamInv, Between, Untouched
    <3>3. i # 1
      BY <1>2, <3>2, Zenon
    <3>4. i - 1 \in DOMAIN Line' /\ Line'[i - 1] = Line[i]
      BY <1>2, <3>3, Zenon
    <3> QED
      BY <3>2, <3>4, Zenon
  <2> QED
    BY <2>1, <2>2, <2>3, <2>4, Zenon DEF Between
<1> QED
  BY <1>3, <1>4, <1>5, Zenon DEF StreamInv
-------------------------------------------------------------------------------
(* Every step keeps the invariant.                                         *)

\* At the start nothing is under way.
LEMMA PipeInit == Init => PipeInv
<1> SUFFICES ASSUME Init PROVE PipeInv
  BY Zenon
<1>1. TypeInv
  <2>1. <<>> \in Seq(Frames) /\ <<>> \in Seq(Nat)
    OBVIOUS
  <2> QED
    BY <2>1, Zenon DEF Init, TypeInv
<1>2. Line = <<>> /\ DOMAIN Line = {}
  BY DEF Init, Line
<1>3. ASSUME NEW s \in Streams PROVE StreamInv(s)
  <2>1. Got(s) = 0 /\ sent[s] = 0
    BY DEF Init, Got
  <2>2. Ranked(Line, s) /\ Opened(Line, s, rx[s] # "none") /\ Whole(Line, s, Got(s), sent[s])
    BY <1>2, Zenon DEF Ranked, Opened, Whole
  <2>3. Carried(Line, s, Got(s), sent[s], Len(Line) + 1)
    BY <2>1 DEF Carried
  <2>4. tx[s] = "new" /\ rx[s] = "none" /\ ~shut[s] /\ ~fin[s] /\ buffer[s] = <<>> /\ received[s] = <<>>
    BY Zenon DEF Init
  <2> QED
    BY <1>2, <2>1, <2>2, <2>3, <2>4 DEF StreamInv, Written, Held, Between
<1> QED
  BY <1>1, <1>3, Zenon DEF PipeInv, Init

\* The bytes of a frame.
LEMMA PayloadTyped ==
  ASSUME NEW f \in Frames
  PROVE  Payload(f) \in Seq(Nat) /\ Len(Payload(f)) = f.len /\ \A i \in 1 .. f.len : Payload(f)[i] = f.first + i - 1
<1>1. f.first \in Nat /\ f.len \in Nat
  BY Zenon DEF Frames
<1>2. \A i \in 1 .. f.len : f.first + i - 1 \in Nat
  BY <1>1
<1> QED
  BY <1>1, <1>2 DEF Payload

\* What is read from the wire is a frame of a stream.
LEMMA FrameRead == ASSUME TypeInv, NEW f \in Range(wire) PROVE f \in Frames /\ f.sid \in Streams
<1>1. f \in Frames
  <2>1. PICK i \in DOMAIN wire : f = wire[i]
    BY Zenon DEF Range
  <2> QED
    BY <2>1 DEF TypeInv
<1> QED
  BY <1>1, Zenon DEF Frames

\* Every step keeps the shape of the state.
LEMMA TypeNext == TypeInv /\ [Next]_vars => TypeInv'
<1> SUFFICES ASSUME TypeInv, [Next]_vars PROVE TypeInv'
  BY Zenon
<1> USE DEF TypeInv, txVars, rxVars, netVars, NextFrame, Reading
<1>1. ASSUME NEW s \in Streams, open_stream(s) PROVE TypeInv'
  <2>1. Frame("SYN", s, 0, 0) \in Frames
    BY Zenon DEF Frame, Frames
  <2> QED
    BY <1>1, <2>1 DEF open_stream
<1>2. ASSUME NEW s \in Streams, poll_write(s) PROVE TypeInv'
  <2>1. PICK n \in 1 .. MaxFrame : /\ queue' = Append(queue, Frame("PSH", s, sent[s] + 1, n))
                                   /\ sent' = [sent EXCEPT ![s] = @ + n]
    BY <1>2, Zenon DEF poll_write
  <2>2. n \in Nat /\ sent[s] + 1 \in Nat
    BY ChannelConstants
  <2>3. Frame("PSH", s, sent[s] + 1, n) \in Frames
    BY <2>2, Zenon DEF Frame, Frames
  <2> QED
    BY <1>2, <2>1, <2>2, <2>3 DEF poll_write
<1>3. ASSUME NEW s \in Streams, send_fin(s) PROVE TypeInv'
  <2>1. Frame("FIN", s, 0, 0) \in Frames
    BY Zenon DEF Frame, Frames
  <2> QED
    BY <1>3, <2>1 DEF send_fin
<1>4. ASSUME NEW s \in Streams, poll_read(s) PROVE TypeInv'
  <2>1. PICK n \in 1 .. Len(buffer[s]) :
               /\ received' = [received EXCEPT ![s] = @ \o SubSeq(buffer[s], 1, n)]
               /\ buffer' = [buffer EXCEPT ![s] = SubSeq(@, n + 1, Len(@))]
    BY <1>4, Zenon DEF poll_read
  <2>2. buffer[s] \in Seq(Nat) /\ received[s] \in Seq(Nat)
    BY Zenon
  <2>3. SubSeq(buffer[s], 1, n) \in Seq(Nat) /\ SubSeq(buffer[s], n + 1, Len(buffer[s])) \in Seq(Nat)
    BY <2>2, Divided, Zenon
  <2>4. received[s] \o SubSeq(buffer[s], 1, n) \in Seq(Nat)
    BY <2>2, <2>3, Concatenated, Zenon
  <2> QED
    BY <1>4, <2>1, <2>3, <2>4, Zenon DEF poll_read
<1>5. ASSUME NEW s \in Streams, ReadEnd(s) \/ DropRx(s) PROVE TypeInv'
  <2>1. CASE ReadEnd(s)
    <3>1. ended' = [ended EXCEPT ![s] = "eof"] \/ ended' = [ended EXCEPT ![s] = "error"]
      BY <2>1, Zenon DEF ReadEnd
    <3>2. ended' \in [Streams -> {"no", "eof", "error"}]
      BY <3>1, Zenon
    <3> QED
      BY <2>1, <3>2, Zenon DEF ReadEnd
  <2>2. CASE DropRx(s)
    <3>1. <<>> \in Seq(Nat)
      OBVIOUS
    <3> QED
      BY <2>2, <3>1, Zenon DEF DropRx
  <2> QED
    BY <1>5, <2>1, <2>2, Zenon
<1>6. CASE WriteBatch
  BY <1>6 DEF WriteBatch
<1>7. CASE Cut
  <2>1. PICK n \in 0 .. Len(wire \o queue) : wire' = SubSeq(wire \o queue, 1, n)
    BY <1>7, Zenon DEF Cut
  <2>2. wire \o queue \in Seq(Frames)
    OBVIOUS
  <2>3. SubSeq(wire \o queue, 1, n) \in Seq(Frames)
    BY <2>2, Cutted, Zenon
  <2> QED
    BY <1>7, <2>1, <2>3, Zenon DEF Cut
<1>8. CASE WriterFails \/ WriterShutdown \/ FailTx \/ FailRx \/ CloseRx
  <2>1. CASE WriterFails
    <3>1. <<>> \in Seq(Frames)
      OBVIOUS
    <3> QED
      BY <2>1, <3>1, Zenon DEF WriterFails
  <2>2. CASE WriterShutdown
    BY <2>2, Zenon DEF WriterShutdown
  <2>3. CASE FailTx
    BY <2>3, Zenon DEF FailTx
  <2>4. CASE FailRx
    BY <2>4, Zenon DEF FailRx
  <2>5. CASE CloseRx
    BY <2>5, Zenon DEF CloseRx
  <2> QED
    BY <1>8, <2>1, <2>2, <2>3, <2>4, <2>5, Zenon
<1>9. CASE OnSyn
  <2>1. PICK f \in Range(wire) : NextFrame(f) /\ rx' = [rx EXCEPT ![f.sid] = "open"]
    BY <1>9, Zenon DEF OnSyn
  <2>2. f.sid \in Streams
    BY FrameRead, Zenon
  <2>3. Tail(wire) \in Seq(Frames)
    BY <2>1
  <2>4. rx' \in [Streams -> {"none", "open", "dropped"}]
    BY <2>1, <2>2, Zenon
  <2> QED
    BY <1>9, <2>1, <2>3, <2>4, Zenon DEF OnSyn
<1>10. CASE OnFin
  <2>1. PICK f \in Range(wire) : NextFrame(f) /\ fin' = [fin EXCEPT ![f.sid] = rx[f.sid] = "open"]
    BY <1>10, Zenon DEF OnFin
  <2>2. f.sid \in Streams
    BY FrameRead, Zenon
  <2>3. Tail(wire) \in Seq(Frames)
    BY <2>1
  <2>4. fin' \in [Streams -> BOOLEAN]
    BY <2>1, <2>2, Zenon
  <2> QED
    BY <1>10, <2>1, <2>3, <2>4, Zenon DEF OnFin
<1>11. CASE OnPsh
  <2>1. PICK f \in Range(wire) : /\ NextFrame(f)
                                 /\ IF rx[f.sid] = "open"
                                    THEN buffer' = [buffer EXCEPT ![f.sid] = @ \o Payload(f)]
                                    ELSE UNCHANGED buffer
    BY <1>11, Zenon DEF OnPsh
  <2>2. f \in Frames /\ f.sid \in Streams
    BY FrameRead, Zenon
  <2>3. Payload(f) \in Seq(Nat) /\ buffer[f.sid] \in Seq(Nat)
    BY <2>2, PayloadTyped, Zenon
  <2>4. buffer[f.sid] \o Payload(f) \in Seq(Nat)
    BY <2>3
  <2>5. buffer' \in [Streams -> Seq(Nat)]
    BY <2>1, <2>2, <2>4, Zenon
  <2> QED
    BY <1>11, <2>1, <2>5 DEF OnPsh
<1>12. CASE UNCHANGED vars
  BY <1>12, Zenon DEF vars
<1> QED
  BY <1>1, <1>2, <1>3, <1>4, <1>5, <1>6, <1>7, <1>8, <1>9, <1>10, <1>11, <1>12, Zenon DEF Next, Sender, Receiver, Reader

\* The sending end.  On a transport that is down a new frame changes nothing
\* for the peer.
LEMMA OpenKeeps ==
  ASSUME PipeInv, NEW t \in Streams, open_stream(t), NEW s \in Streams
  PROVE  StreamInv(s)'
<1> DEFINE f == Frame("SYN", t, 0, 0)
<1>0. TypeInv /\ StreamInv(s) /\ Line \in Seq(Frames) /\ transport' = transport
  BY LineTyped, Zenon DEF PipeInv, open_stream, netVars
<1>1. f \in Frames /\ f.sid = t /\ f.cmd = "SYN"
  BY Zenon DEF Frame, Frames
<1>2. IF transport = "up" THEN Line' = Append(Line, f) ELSE Line' = Line
  <2>1. CASE transport = "up"
    BY <1>0, <1>1, <2>1, LineAppends, Zenon DEF open_stream
  <2>2. CASE transport # "up"
    BY <2>2, Zenon DEF open_stream, netVars, Line
  <2> QED
    BY <2>1, <2>2, Zenon
<1>3. /\ tx[t] = "new" /\ tx' = [tx EXCEPT ![t] = "open"] /\ tx \in [Streams -> {"new", "open", "closed"}]
      /\ UNCHANGED <<sent, shut, rx, buffer, fin, received>>
  BY <1>0, Zenon DEF open_stream, rxVars, TypeInv
<1> HIDE DEF f
<1>4. CASE s # t
  <2>1. Untouched(s)
    BY <1>3, <1>4, Zenon DEF Untouched
  <2> QED
    BY <1>0, <1>1, <1>2, <1>4, <2>1, OtherGrows, StreamStays, Zenon
<1>5. CASE s = t
  <2>1. /\ sent[s] = 0 /\ rx[s] = "none" /\ ~shut[s] /\ received[s] = <<>> /\ buffer[s] = <<>> /\ ~fin[s]
        /\ \A i \in DOMAIN Line : Line[i].sid # s
    BY <1>0, <1>3, <1>5, Zenon DEF StreamInv, Written, Held
  <2>2. Got(s) = 0 /\ Got(s)' = 0
    BY <1>3, <2>1 DEF Got
  <2>3. tx'[s] = "open" /\ UNCHANGED <<sent, shut, rx, buffer, fin, received>>
    BY <1>3, <1>5, Zenon
  <2>4. CASE transport = "up"
    <3>1. /\ Ranked(Line', s) /\ Opened(Line', s, rx[s] # "none") /\ Whole(Line', s, 0, 0)
          /\ Carried(Line', s, 0, 0, Len(Line') + 1)
          /\ \E i \in DOMAIN Line' : Line'[i].sid = s /\ Line'[i].cmd = "SYN"
          /\ \A i \in DOMAIN Line' : Line'[i].sid = s => Line'[i].cmd = "SYN"
      <4>1. Line' = Append(Line, f) /\ f.sid = s /\ Line' \in Seq(Frames)
        BY <1>0, <1>1, <1>2, <1>5, <2>4, Appended
      <4>2. Line \in Seq(Frames) /\ f \in Frames /\ f.cmd = "SYN" /\ \A i \in DOMAIN Line : Line[i].sid # s
        BY <1>0, <1>1, <2>1, Zenon
      <4>3. Ranked(Line', s) /\ Whole(Line', s, 0, 0)
        BY <4>1, <4>2, SynAppended, Zenon
      <4>4. Carried(Line', s, 0, 0, Len(Line') + 1)
        BY <4>1, <4>2, SynAppended, Zenon
      <4>5. \E i \in DOMAIN Line' : Line'[i].sid = s /\ Line'[i].cmd = "SYN"
        BY <4>1, <4>2, SynAppended
      <4>6. \A i \in DOMAIN Line' : Line'[i].sid = s => Line'[i].cmd = "SYN"
        BY <4>1, <4>2, SynAppended
      <4>7. Opened(Line', s, rx[s] # "none")
        BY <2>1, <4>6, Zenon DEF Opened
      <4> QED
        BY <4>3, <4>4, <4>5, <4>6, <4>7, Zenon
    <3>2. Written(s)'
      BY <2>1, <2>3, <3>1, Zenon DEF Written
    <3>3. Held(s)'
      BY <1>0, <2>1, <2>2, <2>3, Zenon DEF StreamInv, Held
    <3>4. Between(s)'
      BY <2>1, <2>2, <2>3, <3>1, Zenon DEF Between
    <3> QED
      BY <3>2, <3>3, <3>4, Zenon DEF StreamInv
  <2>5. CASE transport # "up"
    <3>1. Line' = Line /\ transport' # "up"
      BY <1>0, <1>2, <2>5, Zenon
    <3>2. Written(s)'
      BY <1>0, <2>1, <2>3, <3>1, Zenon DEF StreamInv, Written
    <3>3. Held(s)'
      BY <1>0, <2>1, <2>2, <2>3, Zenon DEF StreamInv, Held
    <3>4. Between(s)'
      BY <1>0, <2>2, <2>3, <3>1, Zenon DEF StreamInv, Between
    <3> QED
      BY <3>2, <3>3, <3>4, Zenon DEF StreamInv
  <2> QED
    BY <2>4, <2>5, Zenon
<1> QED
  BY <1>4, <1>5, Zenon

\* poll_write and send_fin put the frame f on the queue of an open stream.
Sends(s, f) ==
  /\ f.sid = s /\ f.cmd \in {"PSH", "FIN"} /\ (f.cmd = "PSH" => f.first = sent[s] + 1 /\ f.len > 0)
  /\ tx[s] = "open" /\ queue' = Append(queue, f) /\ UNCHANGED netVars
  /\ sent'[s] = (IF f.cmd = "PSH" THEN sent[s] + f.len ELSE sent[s])
  /\ shut'[s] = (f.cmd = "FIN") /\ tx'[s] = (IF f.cmd = "FIN" THEN "closed" ELSE "open")
  /\ UNCHANGED <<rx, buffer, fin, received>>

\* Such a frame continues where the line ends.
LEMMA SendKeeps ==
  ASSUME PipeInv, NEW s \in Streams, NEW f \in Frames, Sends(s, f)
  PROVE  StreamInv(s)'
<1> DEFINE e == IF f.cmd = "PSH" THEN sent[s] + f.len ELSE sent[s]
<1>a. /\ f.sid = s /\ f.cmd \in {"PSH", "FIN"} /\ (f.cmd = "PSH" => f.first = sent[s] + 1 /\ f.len > 0)
      /\ sent'[s] = e
  BY Zenon DEF Sends
<1>b. rx' = rx /\ (f.cmd = "FIN" => shut'[s]) /\ tx[s] = "open" /\ tx'[s] # "new" /\ (shut'[s] => tx'[s] = "closed")
  BY Zenon DEF Sends
<1>c. queue' = Append(queue, f) /\ UNCHANGED netVars /\ UNCHANGED <<rx, buffer, fin, received>>
  BY Zenon DEF Sends
<1>0. TypeInv /\ StreamInv(s) /\ Line \in Seq(Frames) /\ transport' = transport
  BY <1>c, LineTyped, Zenon DEF PipeInv, netVars
<1>1. IF transport = "up" THEN Line' = Append(Line, f) ELSE Line' = Line
  <2>1. CASE transport = "up"
    BY <1>0, <1>c, <2>1, LineAppends, Zenon
  <2>2. CASE transport # "up"
    BY <1>c, <2>2, Zenon DEF netVars, Line
  <2> QED
    BY <2>1, <2>2, Zenon
<1>2. Got(s) \in Nat /\ sent[s] \in Nat /\ f.len \in Nat /\ Got(s)' = Got(s)
  BY <1>0, <1>c, Counts, Zenon DEF Got, Frames
<1>3. e \in Nat /\ sent[s] <= e
  BY <1>2
<1> HIDE DEF e
<1>4. /\ ~shut[s] /\ (fin[s] => rx[s] = "dropped")
      /\ \A i \in DOMAIN Line : Line[i].sid = s =>
           Line[i].cmd # "FIN" /\ (Line[i].cmd = "PSH" => Line[i].first + Line[i].len <= sent[s] + 1)
  BY <1>0, <1>b, Zenon DEF StreamInv, Written, Held
<1>5. Ranked(Line, s) /\ Opened(Line, s, rx[s] # "none")
  BY <1>0, Zenon DEF StreamInv, Between
<1>6. Held(s)'
  <2>1. rx[s] # "dropped" => Got(s)' <= sent'[s]
    <3>1. rx[s] # "dropped" => Got(s) <= sent[s]
      BY <1>0, Zenon DEF StreamInv, Held
    <3> QED
      BY <1>a, <1>2, <1>3, <3>1
  <2> QED
    BY <1>0, <1>4, <1>c, <2>1, Zenon DEF StreamInv, Held
<1>7. CASE transport = "up"
  <2>2. rx[s] = "none" => \E i \in DOMAIN Line : Line[i].sid = s /\ Line[i].cmd = "SYN"
    BY <1>0, <1>7, <1>b, Zenon DEF StreamInv, Between
  <2>3. /\ Ranked(Line', s) /\ Opened(Line', s, rx[s] # "none")
        /\ Carried(Line, s, Got(s), sent[s], Len(Line) + 1) /\ Whole(Line, s, Got(s), sent[s]) /\ Got(s) <= sent[s] =>
             Whole(Line', s, Got(s), e) /\ Carried(Line', s, Got(s), e, Len(Line') + 1)
        /\ \A i \in DOMAIN Line : i \in DOMAIN Line' /\ Line'[i] = Line[i]
        /\ \A i \in DOMAIN Line' : Line'[i] = f \/ (i \in DOMAIN Line /\ Line'[i] = Line[i])
    <3>1. PICK q, r, g, n, known : /\ q = Line /\ r = Line' /\ g = Got(s) /\ n = sent[s]
                                   /\ known = (rx[s] # "none")
      BY Zenon
    <3>2. /\ q \in Seq(Frames) /\ g \in Nat /\ n \in Nat /\ known \in BOOLEAN /\ r = Append(q, f)
          /\ Ranked(q, s) /\ Opened(q, s, known)
      BY <1>0, <1>1, <1>2, <1>5, <1>7, <3>1, Zenon
    <3>3. /\ \A i \in DOMAIN q : q[i].sid = s => (q[i].cmd = "PSH" => q[i].first + q[i].len <= n + 1) /\ q[i].cmd # "FIN"
          /\ ~known => \E i \in DOMAIN q : q[i].sid = s /\ q[i].cmd = "SYN"
      BY <1>4, <2>2, <3>1, Zenon
    <3>4. /\ f.sid = s /\ f.cmd \in {"PSH", "FIN"} /\ (f.cmd = "PSH" => f.first = n + 1 /\ f.len > 0)
          /\ e = (IF f.cmd = "PSH" THEN n + f.len ELSE n)
      BY <1>a, <3>1, Zenon DEF e
    <3>5. Continued(q, f, s, g, n, known, r, e)
      <4>1. Continues(q, f, s, g, n, known, r, e)
        BY <3>2, <3>3, <3>4 DEF Continues
      <4> QED
        BY <4>1, NextOnLine, Zenon
    <3> QED
      BY <3>1, <3>5, Zenon DEF Continued
  <2>4. rx[s] # "dropped" => Whole(Line', s, Got(s), e) /\ Carried(Line', s, Got(s), e, Len(Line') + 1)
    BY <1>0, <1>7, <2>3, Zenon DEF StreamInv, Held, Between
  <2>6. Between(s)'
    <3>1. Ranked(Line', s) /\ Opened(Line', s, rx'[s] # "none")
      BY <1>b, <2>3, Zenon
    <3>2. rx'[s] # "dropped" => Whole(Line', s, Got(s)', sent'[s]) /\ Carried(Line', s, Got(s)', sent'[s], Len(Line') + 1)
      BY <1>a, <1>b, <1>2, <2>4, Zenon
    <3>3. rx'[s] = "none" => \E i \in DOMAIN Line' : Line'[i].sid = s /\ Line'[i].cmd = "SYN"
      BY <1>b, <2>2, <2>3, Zenon
    <3> QED
      BY <3>1, <3>2, <3>3, Zenon DEF Between
  <2>7. Written(s)'
    <3>1. ASSUME NEW i \in DOMAIN Line', Line'[i].sid = s
          PROVE  /\ Line'[i].cmd = "PSH" => Line'[i].first + Line'[i].len <= sent'[s] + 1
                 /\ Line'[i].cmd = "FIN" => shut'[s]
      <4>1. CASE Line'[i] = f
        <5>1. f.cmd = "PSH" => f.first + f.len <= e + 1
          BY <1>a, <1>2 DEF e
        <5> QED
          BY <1>a, <1>b, <4>1, <5>1, Zenon
      <4>2. CASE i \in DOMAIN Line /\ Line'[i] = Line[i]
        <5>1. Line[i].first \in Nat /\ Line[i].len \in Nat
          BY <1>0, <4>2, FrameTyped, Zenon
        <5>2. Line[i].cmd # "FIN" /\ (Line[i].cmd = "PSH" => Line[i].first + Line[i].len <= sent[s] + 1)
          BY <1>4, <3>1, <4>2, Zenon
        <5>3. Line[i].cmd = "PSH" => Line[i].first + Line[i].len <= e + 1
          BY <1>2, <1>3, <5>1, <5>2, EndsBelow, Zenon
        <5> QED
          BY <1>a, <4>2, <5>2, <5>3, Zenon
      <4> QED
        BY <2>3, <4>1, <4>2, Zenon
    <3> QED
      BY <1>b, <3>1, Zenon DEF Written
  <2> QED
    BY <1>6, <2>6, <2>7, Zenon DEF StreamInv
<1>8. CASE transport # "up"
  <2>1. Line' = Line /\ transport' # "up"
    BY <1>0, <1>1, <1>8, Zenon
  <2>2. Written(s)'
    <3>1. ASSUME NEW i \in DOMAIN Line, Line[i].sid = s, Line[i].cmd = "PSH"
          PROVE  Line[i].first + Line[i].len <= sent'[s] + 1
      <4>1. Line[i].first \in Nat /\ Line[i].len \in Nat
        BY <1>0, FrameTyped, Zenon
      <4> QED
        BY <1>a, <1>2, <1>3, <1>4, <3>1, <4>1, EndsBelow, Zenon
    <3> QED
      BY <1>4, <1>b, <2>1, <3>1, Zenon DEF Written
  <2>3. rx[s] # "dropped" => Whole(Line, s, Got(s), e)
    BY <1>0, <1>4, Zenon DEF StreamInv, Between, Whole
  <2>4. Between(s)'
    BY <1>a, <1>b, <1>2, <1>5, <2>1, <2>3, Zenon DEF Between
  <2> QED
    BY <1>6, <2>2, <2>4, Zenon DEF StreamInv
<1> QED
  BY <1>7, <1>8, Zenon

\* A frame that joins the queue is seen by its own stream only.
LEMMA QueuedElsewhere ==
  ASSUME PipeInv, NEW s \in Streams, NEW f \in Frames, f.sid # s,
         queue' = Append(queue, f), UNCHANGED netVars, Untouched(s)
  PROVE  StreamInv(s)'
<1>0. TypeInv /\ StreamInv(s) /\ transport' = transport
  BY Zenon DEF PipeInv, netVars
<1>1. CASE transport = "up"
  BY <1>0, <1>1, LineAppends, OtherGrows, Zenon
<1>2. CASE transport # "up"
  <2>1. Line' = Line
    BY <1>2, Zenon DEF netVars, Line
  <2> QED
    BY <1>0, <2>1, StreamStays, Zenon
<1> QED
  BY <1>1, <1>2, Zenon

\* Writing keeps the bytes of every stream in order.
LEMMA WriteKeeps ==
  ASSUME PipeInv, NEW t \in Streams, poll_write(t), NEW s \in Streams
  PROVE  StreamInv(s)'
<1>1. PICK n \in 1 .. MaxFrame : /\ queue' = Append(queue, Frame("PSH", t, sent[t] + 1, n))
                                 /\ sent' = [sent EXCEPT ![t] = @ + n]
  BY Zenon DEF poll_write
<1> DEFINE f == Frame("PSH", t, sent[t] + 1, n)
<1>2. n \in Nat \ {0} /\ sent \in [Streams -> Nat] /\ tx \in [Streams -> {"new", "open", "closed"}]
  BY ChannelConstants DEF PipeInv, TypeInv
<1>3. f \in Frames /\ f.sid = t /\ f.cmd = "PSH" /\ f.first = sent[t] + 1 /\ f.len = n
  BY <1>2 DEF Frame, Frames
<1>4. /\ queue' = Append(queue, f) /\ UNCHANGED netVars /\ tx[t] = "open"
      /\ UNCHANGED <<tx, shut, rx, buffer, fin, received>>
  BY <1>1, Zenon DEF poll_write, rxVars
<1> HIDE DEF f
<1>5. CASE s # t
  <2>1. Untouched(s)
    BY <1>1, <1>2, <1>4, <1>5, Zenon DEF Untouched
  <2> QED
    BY <1>3, <1>4, <1>5, <2>1, QueuedElsewhere, Zenon
<1>6. CASE s = t
  <2>1. /\ sent'[s] = (IF f.cmd = "PSH" THEN sent[s] + f.len ELSE sent[s])
        /\ f.len > 0 /\ f.sid = s /\ f.first = sent[s] + 1
    BY <1>1, <1>2, <1>3, <1>6
  <2>2. ~shut[s]
    BY <1>4, <1>6, Zenon DEF PipeInv, StreamInv, Written
  <2>3. shut'[s] = (f.cmd = "FIN") /\ tx'[s] = (IF f.cmd = "FIN" THEN "closed" ELSE "open") /\ tx[s] = "open"
    <3>1. shut[s] \in BOOLEAN
      BY Zenon DEF PipeInv, TypeInv
    <3> QED
      BY <1>3, <1>4, <1>6, <2>2, <3>1, Zenon
  <2> QED
    BY <1>3, <1>4, <2>1, <2>3, SendKeeps, Zenon DEF Sends
<1> QED
  BY <1>5, <1>6, Zenon

\* So does closing the writing side.
LEMMA FinKeeps ==
  ASSUME PipeInv, NEW t \in Streams, send_fin(t), NEW s \in Streams
  PROVE  StreamInv(s)'
<1> DEFINE f == Frame("FIN", t, 0, 0)
<1>0. /\ shut \in [Streams -> BOOLEAN] /\ tx \in [Streams -> {"new", "open", "closed"}]
      /\ tx_closed \in BOOLEAN /\ StreamInv(s) /\ StreamInv(t)
  BY Zenon DEF PipeInv, TypeInv
<1>1. f \in Frames /\ f.sid = t /\ f.cmd = "FIN"
  BY Zenon DEF Frame, Frames
<1>2. /\ tx' = [tx EXCEPT ![t] = "closed"] /\ shut' = [shut EXCEPT ![t] = ~tx_closed] /\ tx[t] = "open"
      /\ UNCHANGED <<sent, rx, buffer, fin, received>> /\ UNCHANGED netVars
      /\ queue' = IF tx_closed THEN queue ELSE Append(queue, f)
  BY Zenon DEF send_fin, rxVars
<1> HIDE DEF f
<1>3. CASE s # t
  <2>1. Untouched(s)
    BY <1>0, <1>2, <1>3, Zenon DEF Untouched
  <2>2. CASE tx_closed
    <3>1. Line' = Line /\ transport' = transport
      BY <1>2, <2>2, Zenon DEF Line, netVars
    <3> QED
      BY <1>0, <2>1, <3>1, StreamStays, Zenon
  <2>3. CASE ~tx_closed
    BY <1>1, <1>2, <1>3, <2>1, <2>3, QueuedElsewhere, Zenon
  <2> QED
    BY <2>2, <2>3, Zenon
<1>4. CASE s = t /\ ~tx_closed
  <2>1. shut'[s] = (f.cmd = "FIN") /\ tx'[s] = (IF f.cmd = "FIN" THEN "closed" ELSE "open") /\ tx[s] = "open"
    BY <1>0, <1>1, <1>2, <1>4, Zenon
  <2>2. sent'[s] = (IF f.cmd = "PSH" THEN sent[s] + f.len ELSE sent[s])
    BY <1>1, <1>2, Zenon
  <2>3. f.sid = s /\ f.cmd \in {"PSH", "FIN"} /\ f.cmd # "PSH" /\ queue' = Append(queue, f)
    BY <1>1, <1>2, <1>4, Zenon
  <2> QED
    BY <1>1, <1>2, <2>1, <2>2, <2>3, SendKeeps, Zenon DEF Sends
<1>5. CASE s = t /\ tx_closed
  <2>1. Line' = Line /\ transport' = transport /\ Got(s)' = Got(s)
    BY <1>2, <1>5, Zenon DEF Line, netVars, Got
  <2>2. tx'[s] = "closed" /\ ~shut'[s] /\ ~shut[s] /\ tx[s] = "open"
    BY <1>0, <1>2, <1>5, Zenon DEF StreamInv, Written
  <2>3. Written(s)'
    BY <1>0, <1>2, <2>1, <2>2, Zenon DEF StreamInv, Written
  <2>4. Held(s)'
    BY <1>0, <1>2, <2>1, <2>2, Zenon DEF StreamInv, Held
  <2>5. Between(s)'
    BY <1>0, <1>2, <2>1, <2>2, Zenon DEF StreamInv, Between
  <2> QED
    BY <2>3, <2>4, <2>5, Zenon DEF StreamInv
<1> QED
  BY <1>3, <1>4, <1>5, Zenon

\* The transport breaks.
LEMMA CutAnywhere ==
  ASSUME PipeInv, Cut, NEW s \in Streams
  PROVE  StreamInv(s)'
<1>0. TypeInv /\ StreamInv(s) /\ Line \in Seq(Frames) /\ Got(s) \in Nat /\ sent[s] \in Nat
  BY LineTyped, Counts, Zenon DEF PipeInv
<1>1. PICK n \in 0 .. Len(Line) : Line' = SubSeq(Line, 1, n)
  BY Zenon DEF Cut, Line
<1>2. transport' # "up" /\ Untouched(s) /\ Got(s)' = Got(s)
  BY Zenon DEF Cut, Untouched, txVars, rxVars, Got
<1>3. \A i \in DOMAIN Line' : i \in DOMAIN Line /\ Line'[i] = Line[i]
  BY <1>0, <1>1, Cutted
<1>4. Written(s)'
  BY <1>0, <1>2, <1>3, Zenon DEF StreamInv, Written, Untouched
<1>5. Held(s)'
  BY <1>0, <1>2, <1>3, Zenon DEF StreamInv, Held, Untouched
<1>6. Between(s)'
  <2>1. Ranked(Line', s) /\ (rx[s] # "dropped" => Whole(Line', s, Got(s), sent[s]))
    BY <1>0, <1>1, CutKeeps, Zenon DEF StreamInv, Between
  <2>2. Opened(Line', s, rx[s] # "none")
    BY <1>0, <1>1, CutKeeps, Zenon DEF StreamInv, Between
  <2> QED
    BY <1>2, <2>1, <2>2, Zenon DEF Between, Untouched
<1> QED
  BY <1>4, <1>5, <1>6, Zenon DEF StreamInv

\* The receiving end: the reader task takes the head of the line.
LEMMA HeadTaken ==
  ASSUME PipeInv, NEW f \in Range(wire), NextFrame(f)
  PROVE  /\ Line \in Seq(Frames) /\ Line # <<>> /\ Head(Line) = f /\ Line' = Tail(Line) /\ transport' = transport
         /\ 1 \in DOMAIN Line /\ Line[1] = f /\ f \in Frames /\ f.sid \in Streams
         /\ UNCHANGED <<tx, sent, shut, received, ended>>
<1>0. TypeInv
  BY Zenon DEF PipeInv
<1>1. Line \in Seq(Frames) /\ f \in Frames /\ f.sid \in Streams
  BY <1>0, LineTyped, FrameRead, Zenon
<1>2. Line # <<>> /\ Head(Line) = f /\ Line' = Tail(Line) /\ transport' = transport
  BY <1>0, LineTail, Zenon DEF NextFrame, txVars
<1>3. 1 \in DOMAIN Line /\ Line[1] = f
  BY <1>1, <1>2, Tailed, Zenon
<1> QED
  BY <1>1, <1>2, <1>3, Zenon DEF NextFrame, txVars

\* So does the opening of a stream at the receiver.
LEMMA SynKeeps ==
  ASSUME PipeInv, OnSyn, NEW s \in Streams
  PROVE  StreamInv(s)'
<1>1. PICK f \in Range(wire) : NextFrame(f) /\ f.cmd = "SYN" /\ rx' = [rx EXCEPT ![f.sid] = "open"]
  BY Zenon DEF OnSyn
<1>2. /\ Line \in Seq(Frames) /\ Line # <<>> /\ Head(Line) = f /\ Line' = Tail(Line) /\ transport' = transport
      /\ 1 \in DOMAIN Line /\ Line[1] = f /\ f \in Frames /\ f.sid \in Streams
      /\ UNCHANGED <<tx, sent, shut, received, ended, buffer, fin>>
  BY <1>1, HeadTaken, Zenon DEF OnSyn
<1>3. TypeInv /\ StreamInv(s) /\ Got(s) \in Nat /\ sent[s] \in Nat /\ Got(s)' = Got(s)
  BY <1>2, Counts, Zenon DEF PipeInv, Got
<1>4. rx \in [Streams -> {"none", "open", "dropped"}]
  BY <1>3, Zenon DEF TypeInv
<1>5. CASE f.sid # s
  <2>1. Untouched(s)
    BY <1>1, <1>2, <1>4, <1>5, Zenon DEF Untouched
  <2> QED
    BY <1>2, <1>3, <1>5, <2>1, OtherRead, Zenon
<1>6. CASE f.sid = s
  <2>1. rx[s] = "none" /\ rx'[s] = "open" /\ tx[s] # "new"
    BY <1>1, <1>2, <1>3, <1>4, <1>6, Zenon DEF StreamInv, Between, Opened, Written
  <2>2. /\ \A i \in DOMAIN Line' : i + 1 \in DOMAIN Line /\ Line'[i] = Line[i + 1]
        /\ \A i \in DOMAIN Line' : i \in Nat /\ 1 < i + 1
    BY <1>2, Tailed
  <2>3. Written(s)'
    BY <1>2, <1>3, <2>1, <2>2, Zenon DEF StreamInv, Written
  <2>4. Held(s)'
    BY <1>2, <1>3, <2>1, Zenon DEF StreamInv, Held
  <2>5. Ranked(Line, s) /\ Opened(Line, s, rx[s] # "none") /\ Whole(Line, s, Got(s), sent[s])
    BY <1>3, <2>1, Zenon DEF StreamInv, Between
  <2>6. Ranked(Line', s)
    BY <1>2, <2>5, TailRanked, Zenon
  <2>7. Opened(Line', s, rx'[s] # "none")
    <3>1. \A i \in DOMAIN Line' : Line'[i].sid = s => Line'[i].cmd # "SYN"
      BY <1>2, <1>6, <2>2, <2>5, Zenon DEF Ranked
    <3> QED
      BY <2>1, <3>1, Zenon DEF Opened
  <2>8. /\ Whole(Line', s, Got(s), sent[s])
        /\ Carried(Line, s, Got(s), sent[s], Len(Line) + 1) => Carried(Line', s, Got(s), sent[s], Len(Line') + 1)
    <3>1. Got(s) <= Got(s)
      BY <1>3
    <3> QED
      BY <1>1, <1>2, <1>3, <1>6, <2>5, <3>1, TailWhole, Zenon
  <2>9. Between(s)'
    BY <1>2, <1>3, <2>1, <2>6, <2>7, <2>8, Zenon DEF StreamInv, Between
  <2> QED
    BY <2>3, <2>4, <2>9, Zenon DEF StreamInv
<1> QED
  BY <1>5, <1>6, Zenon

\* So does the end of a stream at the receiver.
LEMMA FinReadKeeps ==
  ASSUME PipeInv, OnFin, NEW s \in Streams
  PROVE  StreamInv(s)'
<1>1. PICK f \in Range(wire) : NextFrame(f) /\ f.cmd = "FIN" /\ fin' = [fin EXCEPT ![f.sid] = rx[f.sid] = "open"]
  BY Zenon DEF OnFin
<1>2. /\ Line \in Seq(Frames) /\ Line # <<>> /\ Head(Line) = f /\ Line' = Tail(Line) /\ transport' = transport
      /\ 1 \in DOMAIN Line /\ Line[1] = f /\ f \in Frames /\ f.sid \in Streams
      /\ UNCHANGED <<tx, sent, shut, received, ended, buffer, rx>>
  BY <1>1, HeadTaken, Zenon DEF OnFin
<1>3. TypeInv /\ StreamInv(s) /\ Got(s) \in Nat /\ sent[s] \in Nat /\ Got(s)' = Got(s)
  BY <1>2, Counts, Zenon DEF PipeInv, Got
<1>4. rx \in [Streams -> {"none", "open", "dropped"}] /\ fin \in [Streams -> BOOLEAN]
  BY <1>3, Zenon DEF TypeInv
<1>5. CASE f.sid # s
  <2>1. Untouched(s)
    BY <1>1, <1>2, <1>4, <1>5, Zenon DEF Untouched
  <2> QED
    BY <1>2, <1>3, <1>5, <2>1, OtherRead, Zenon
<1>6. CASE f.sid = s
  <2>1. fin'[s] = (rx[s] = "open") /\ shut[s]
    BY <1>1, <1>2, <1>3, <1>4, <1>6, Zenon DEF StreamInv, Written
  <2>2. /\ \A i \in DOMAIN Line' : i + 1 \in DOMAIN Line /\ Line'[i] = Line[i + 1]
        /\ \A i \in DOMAIN Line' : i \in Nat /\ 1 < i + 1
    BY <1>2, Tailed
  <2>3. \A i \in DOMAIN Line' : Line'[i].sid # s
    BY <1>1, <1>2, <1>3, <1>6, <2>2, Zenon DEF StreamInv, Between, Ranked
  <2>4. rx[s] # "none"
    <3>1. \A i \in 1 .. 1 - 1 : FALSE
      OBVIOUS
    <3>2. Opened(Line, s, rx[s] # "none") /\ Line[1].sid = s /\ Line[1].cmd # "SYN"
      BY <1>1, <1>2, <1>3, <1>6, Zenon DEF StreamInv, Between
    <3> QED
      BY <1>2, <3>1, <3>2, Zenon DEF Opened
  <2>5. rx[s] # "dropped" => Got(s) = sent[s]
    <3> SUFFICES ASSUME rx[s] # "dropped" PROVE Got(s) = sent[s]
      BY Zenon
    <3>1. Whole(Line, s, Got(s), sent[s]) /\ Got(s) <= sent[s]
      BY <1>3, Zenon DEF StreamInv, Between, Held
    <3>2. Carried(Line, s, Got(s), sent[s], 1)
      BY <1>1, <1>2, <1>6, <3>1, Zenon DEF Whole
    <3>3. ~(Got(s) + 1 \in Got(s) + 1 .. sent[s])
      BY <3>2 DEF Carried
    <3> QED
      BY <1>3, <3>1, <3>3
  <2>6. Written(s)'
    BY <1>2, <1>3, <2>3, Zenon DEF StreamInv, Written
  <2>7. Held(s)'
    BY <1>2, <1>3, <2>1, <2>3, <2>4, <2>5, Zenon DEF StreamInv, Held
  <2>8. Between(s)'
    <3>1. Ranked(Line', s) /\ Opened(Line', s, rx'[s] # "none") /\ Whole(Line', s, Got(s)', sent'[s])
      BY <2>3, Zenon DEF Ranked, Opened, Whole
    <3>2. rx[s] # "dropped" => Carried(Line', s, Got(s)', sent'[s], Len(Line') + 1)
      BY <1>2, <1>3, <2>5 DEF Carried
    <3> QED
      BY <1>2, <2>4, <3>1, <3>2, Zenon DEF Between
  <2> QED
    BY <2>6, <2>7, <2>8, Zenon DEF StreamInv
<1> QED
  BY <1>5, <1>6, Zenon

\* Data at the head of the line continues what the stream's reader has.
LEMMA PshFits ==
  ASSUME PipeInv, NEW f \in Frames, NEW s \in Streams, f.sid = s, f.cmd = "PSH",
         1 \in DOMAIN Line, Line[1] = f
  PROVE  /\ rx[s] # "none"
         /\ rx[s] # "dropped" => f.first = Got(s) + 1 /\ Got(s) + f.len <= sent[s]
<1>1. TypeInv /\ StreamInv(s) /\ Got(s) \in Nat /\ sent[s] \in Nat /\ f.first \in Nat /\ f.len \in Nat
  BY Counts, Zenon DEF PipeInv, Frames
<1>2. rx[s] # "none"
  <2>1. \A i \in 1 .. 1 - 1 : FALSE
    OBVIOUS
  <2>2. Opened(Line, s, rx[s] # "none") /\ Line[1].sid = s /\ Line[1].cmd # "SYN"
    BY <1>1, Zenon DEF StreamInv, Between
  <2> QED
    BY <2>1, <2>2, Zenon DEF Opened
<1>3. ASSUME rx[s] # "dropped" PROVE f.first = Got(s) + 1 /\ Got(s) + f.len <= sent[s]
  <2>1. Whole(Line, s, Got(s), sent[s]) /\ f.first + f.len <= sent[s] + 1
    BY <1>1, <1>3, Zenon DEF StreamInv, Between, Written
  <2>2. Got(s) < f.first /\ Carried(Line, s, Got(s), f.first - 1, 1)
    BY <2>1, Zenon DEF Whole
  <2>3. ~(Got(s) + 1 \in Got(s) + 1 .. f.first - 1)
    BY <2>2 DEF Carried
  <2>4. f.first = Got(s) + 1
    BY <1>1, <2>2, <2>3
  <2> QED
    BY <1>1, <2>1, <2>4
<1> QED
  BY <1>2, <1>3, Zenon

\* So does the arrival of data.
LEMMA PshKeeps ==
  ASSUME PipeInv, OnPsh, NEW s \in Streams
  PROVE  StreamInv(s)'
<1>1. PICK f \in Range(wire) : /\ NextFrame(f) /\ f.cmd = "PSH"
                               /\ IF rx[f.sid] = "open"
                                  THEN buffer' = [buffer EXCEPT ![f.sid] = @ \o Payload(f)]
                                  ELSE UNCHANGED buffer
  BY Zenon DEF OnPsh
<1>2. /\ Line \in Seq(Frames) /\ Line # <<>> /\ Head(Line) = f /\ Line' = Tail(Line) /\ transport' = transport
      /\ 1 \in DOMAIN Line /\ Line[1] = f /\ f \in Frames /\ f.sid \in Streams
      /\ UNCHANGED <<tx, sent, shut, received, ended, fin, rx>>
  BY <1>1, HeadTaken, Zenon DEF OnPsh
<1>3. TypeInv /\ StreamInv(s) /\ Got(s) \in Nat /\ sent[s] \in Nat /\ Len(received[s]) \in Nat /\ Len(buffer[s]) \in Nat
  BY Counts, Zenon DEF PipeInv
<1>4. rx \in [Streams -> {"none", "open", "dropped"}] /\ buffer \in [Streams -> Seq(Nat)]
  BY <1>3, Zenon DEF TypeInv
<1>5. CASE f.sid # s
  <2>1. Untouched(s)
    BY <1>1, <1>2, <1>4, <1>5, Zenon DEF Untouched
  <2> QED
    BY <1>2, <1>3, <1>5, <2>1, OtherRead, Zenon
<1>6. CASE f.sid = s
  <2>1. rx[s] # "none" /\ (rx[s] # "dropped" => f.first = Got(s) + 1 /\ Got(s) + f.len <= sent[s])
    BY <1>1, <1>2, <1>6, PshFits, Zenon
  <2>2. Ranked(Line, s) /\ Opened(Line, s, rx[s] # "none") /\ f.first \in Nat /\ f.len \in Nat
    BY <1>2, <1>3, Zenon DEF StreamInv, Between, Frames
  <2>3. /\ \A i \in DOMAIN Line' : i + 1 \in DOMAIN Line /\ Line'[i] = Line[i + 1]
        /\ \A i \in DOMAIN Line' : i \in Nat /\ 1 < i + 1
    BY <1>2, Tailed
  <2>4. Ranked(Line', s)
    BY <1>2, <2>2, TailRanked, Zenon
  <2>5. Opened(Line', s, rx'[s] # "none")
    <3>1. \A i \in DOMAIN Line' : Line'[i].sid = s => Line'[i].cmd # "SYN"
      BY <1>2, <1>6, <2>2, <2>3, Zenon DEF Ranked
    <3> QED
      BY <1>2, <2>1, <3>1, Zenon DEF Opened
  <2>6. Written(s)'
    BY <1>2, <1>3, <2>3, Zenon DEF StreamInv, Written
  <2>7. CASE rx[s] = "open"
    <3>1. Payload(f) \in Seq(Nat) /\ Len(Payload(f)) = f.len /\ \A i \in 1 .. f.len : Payload(f)[i] = f.first + i - 1
      BY <1>2, PayloadTyped, Zenon
    <3>2. buffer'[s] = buffer[s] \o Payload(f) /\ buffer[s] \in Seq(Nat)
      BY <1>1, <1>4, <1>6, <2>7, Zenon
    <3>3. Len(buffer'[s]) = Len(buffer[s]) + f.len
      BY <3>1, <3>2, Concatenated, Zenon
    <3>4. Got(s)' = Got(s) + f.len /\ Got(s) + f.len \in Nat
      <4>1. \A x, y, z \in Nat : x + (y + z) = (x + y) + z /\ (x + y) + z \in Nat
        OBVIOUS
      <4>2. Got(s)' = Len(received[s]) + (Len(buffer[s]) + f.len)
        BY <1>2, <3>3, Zenon DEF Got
      <4> QED
        BY <1>3, <2>2, <4>1, <4>2, Zenon DEF Got
    <3>5. ~fin[s]
      BY <1>2, <1>3, <1>6, <2>7, Zenon DEF StreamInv, Held
    <3>a. /\ \A i \in 1 .. Len(buffer[s]) + f.len : i \in Int
          /\ \A i \in 1 .. Len(buffer[s]) + f.len : i <= Len(buffer[s]) =>
               i \in 1 .. Len(buffer[s]) /\ buffer'[s][i] = buffer[s][i]
          /\ \A i \in 1 .. Len(buffer[s]) + f.len : ~(i <= Len(buffer[s])) =>
               i - Len(buffer[s]) \in 1 .. f.len /\ buffer'[s][i] = Payload(f)[i - Len(buffer[s])]
      <4>1. PICK x, y, z : x = buffer[s] /\ y = Payload(f) /\ z = buffer'[s]
        BY Zenon
      <4>2. x \in Seq(Nat) /\ y \in Seq(Nat) /\ z = x \o y /\ Len(y) = f.len
        BY <3>1, <3>2, <4>1, Zenon
      <4>3. \A i \in 1 .. Len(x) + Len(y) :
              /\ i \in Int
              /\ i <= Len(x) => i \in 1 .. Len(x) /\ z[i] = x[i]
              /\ ~(i <= Len(x)) => i - Len(x) \in 1 .. Len(y) /\ z[i] = y[i - Len(x)]
        BY <4>2, Concatenated, Zenon
      <4> QED
        BY <4>1, <4>2, <4>3, Zenon
    <3>6. ASSUME NEW i \in 1 .. Len(buffer'[s]) PROVE buffer'[s][i] = Len(received[s]) + i
      <4>1. CASE i <= Len(buffer[s])
        <5>1. i \in 1 .. Len(buffer[s]) /\ buffer'[s][i] = buffer[s][i]
          BY <3>3, <3>a, <4>1, Zenon
        <5> QED
          BY <1>3, <2>7, <5>1, Zenon DEF StreamInv, Held
      <4>2. CASE ~(i <= Len(buffer[s]))
        <5>1. i - Len(buffer[s]) \in 1 .. f.len /\ buffer'[s][i] = Payload(f)[i - Len(buffer[s])]
          BY <3>3, <3>a, <4>2, Zenon
        <5>2. Payload(f)[i - Len(buffer[s])] = f.first + (i - Len(buffer[s])) - 1
          BY <3>1, <5>1, Zenon
        <5>3. f.first = Len(received[s]) + Len(buffer[s]) + 1
          BY <2>1, <2>7, Zenon DEF Got
        <5>4. \A x, y \in Nat, z \in Int : (x + y + 1) + (z - y) - 1 = x + z
          OBVIOUS
        <5>5. i \in Int
          BY <3>3, <3>a, Zenon
        <5>6. (Len(received[s]) + Len(buffer[s]) + 1) + (i - Len(buffer[s])) - 1 = Len(received[s]) + i
          BY <1>3, <5>4, <5>5, Zenon
        <5> QED
          BY <5>1, <5>2, <5>3, <5>6, Zenon
      <4> QED
        BY <4>1, <4>2, Zenon
    <3>7. Held(s)'
      BY <1>2, <2>1, <2>7, <3>4, <3>5, <3>6, Zenon DEF Held
    <3>8. /\ Whole(Line', s, Got(s) + f.len, sent[s])
          /\ transport = "up" => Carried(Line', s, Got(s) + f.len, sent[s], Len(Line') + 1)
      <4>1. Whole(Line, s, Got(s), sent[s]) /\ (transport = "up" => Carried(Line, s, Got(s), sent[s], Len(Line) + 1))
        BY <1>3, <2>7, Zenon DEF StreamInv, Between
      <4>2. Got(s) <= Got(s) + f.len /\ f.first + f.len = (Got(s) + f.len) + 1
        BY <1>3, <2>1, <2>2, <2>7
      <4> QED
        BY <1>1, <1>2, <1>3, <1>6, <2>2, <3>4, <4>1, <4>2, TailWhole, Zenon
    <3>9. Between(s)'
      BY <1>2, <2>1, <2>4, <2>5, <3>4, <3>8, Zenon DEF Between
    <3> QED
      BY <2>6, <3>7, <3>9, Zenon DEF StreamInv
  <2>8. CASE rx[s] # "open"
    <3>1. rx[s] = "dropped" /\ buffer' = buffer
      BY <1>1, <1>4, <1>6, <2>1, <2>8, Zenon
    <3>2. Held(s)'
      BY <1>2, <3>1, Zenon DEF Held
    <3>3. Between(s)'
      BY <1>2, <2>4, <2>5, <3>1, Zenon DEF Between
    <3> QED
      BY <2>6, <3>2, <3>3, Zenon DEF StreamInv
  <2> QED
    BY <2>7, <2>8, Zenon
<1> QED
  BY <1>5, <1>6, Zenon

\* poll_read moves bytes from the buffer to the application.
LEMMA ReadTakes ==
  ASSUME PipeInv, NEW s \in Streams, rx[s] # "dropped", NEW n \in 1 .. Len(buffer[s])
  PROVE  /\ SubSeq(buffer[s], 1, n) = [i \in 1 .. n |-> Len(received[s]) + i]
         /\ Len(received[s] \o SubSeq(buffer[s], 1, n)) = Len(received[s]) + n
         /\ Len(SubSeq(buffer[s], n + 1, Len(buffer[s]))) = Len(buffer[s]) - n
         /\ \A i \in 1 .. Len(buffer[s]) - n :
              SubSeq(buffer[s], n + 1, Len(buffer[s]))[i] = Len(received[s]) + n + i
<1> DEFINE b == buffer[s]
           g == Len(received[s])
<1>1. b \in Seq(Nat) /\ received[s] \in Seq(Nat) /\ g \in Nat /\ Len(b) \in Nat /\ n \in 1 .. Len(b)
  BY Counts, Zenon DEF PipeInv, TypeInv
<1>2. \A i \in 1 .. Len(b) : b[i] = g + i
  BY Zenon DEF PipeInv, StreamInv, Held
<1>3. Len(received[s] \o SubSeq(buffer[s], 1, n)) = g + n
  BY <1>1
<1> HIDE DEF b, g
<1>4. SubSeq(b, 1, n) = [i \in 1 .. n |-> g + i]
  BY <1>1, <1>2
<1>5. Len(SubSeq(b, n + 1, Len(b))) = Len(b) - n
  BY <1>1
<1>6. ASSUME NEW i \in 1 .. Len(b) - n PROVE SubSeq(b, n + 1, Len(b))[i] = g + n + i
  <2>1. i + n \in 1 .. Len(b) /\ SubSeq(b, n + 1, Len(b))[i] = b[i + n]
    BY <1>1, Rested, Zenon
  <2> QED
    BY <1>1, <1>2, <2>1
<1> QED
  BY <1>3, <1>4, <1>5, <1>6, Zenon DEF b, g

\* So does reading.
LEMMA ReadKeeps ==
  ASSUME PipeInv, NEW t \in Streams, poll_read(t), NEW s \in Streams
  PROVE  StreamInv(s)'
<1>1. PICK n \in 1 .. Len(buffer[t]) :
             /\ received' = [received EXCEPT ![t] = @ \o SubSeq(buffer[t], 1, n)]
             /\ buffer' = [buffer EXCEPT ![t] = SubSeq(@, n + 1, Len(@))]
  BY Zenon DEF poll_read
<1>2. /\ TypeInv /\ StreamInv(s) /\ rx[t] = "open"
      /\ UNCHANGED <<tx, sent, shut, rx, fin>> /\ Line' = Line /\ transport' = transport
  BY Zenon DEF PipeInv, poll_read, Reading, txVars, netVars, Line
<1>3. received \in [Streams -> Seq(Nat)] /\ buffer \in [Streams -> Seq(Nat)]
  BY <1>2, Zenon DEF TypeInv
<1>4. CASE s # t
  <2>1. Untouched(s)
    BY <1>1, <1>2, <1>3, <1>4, Zenon DEF Untouched
  <2> QED
    BY <1>2, <2>1, StreamStays, Zenon
<1>5. CASE s = t
  <2>1. /\ Len(received'[s]) = Len(received[s]) + n /\ Len(buffer'[s]) = Len(buffer[s]) - n
        /\ \A i \in 1 .. Len(buffer[s]) - n : buffer'[s][i] = Len(received[s]) + n + i
    <3>1. rx[s] # "dropped" /\ n \in 1 .. Len(buffer[s])
      BY <1>2, <1>5, Zenon
    <3>2. received'[s] = received[s] \o SubSeq(buffer[s], 1, n) /\ buffer'[s] = SubSeq(buffer[s], n + 1, Len(buffer[s]))
      BY <1>1, <1>3, <1>5, Zenon
    <3> QED
      BY <3>1, <3>2, ReadTakes
  <2>2. Len(received[s]) \in Nat /\ Len(buffer[s]) \in Nat /\ n \in Nat
    BY <1>2, <1>5, Counts
  <2>3. Got(s)' = Got(s)
    <3>1. \A x, y, z \in Nat : (x + z) + (y - z) = x + y
      OBVIOUS
    <3>2. Got(s)' = (Len(received[s]) + n) + (Len(buffer[s]) - n)
      BY <2>1, Zenon DEF Got
    <3> QED
      BY <2>2, <3>1, <3>2, Zenon DEF Got
  <2>4. Written(s)'
    BY <1>2, Zenon DEF StreamInv, Written
  <2>5. Held(s)'
    BY <1>2, <1>5, <2>1, <2>2, <2>3, Zenon DEF StreamInv, Held
  <2>6. Between(s)'
    BY <1>2, <2>3, Zenon DEF StreamInv, Between
  <2> QED
    BY <2>4, <2>5, <2>6, Zenon DEF StreamInv
<1> QED
  BY <1>4, <1>5, Zenon

\* A stream that is dropped has nothing left to be right about but its SYN.
LEMMA DropKeeps ==
  ASSUME PipeInv, NEW t \in Streams, DropRx(t), NEW s \in Streams
  PROVE  StreamInv(s)'
<1>1. /\ rx[t] = "open" /\ rx' = [rx EXCEPT ![t] = "dropped"] /\ buffer' = [buffer EXCEPT ![t] = <<>>]
      /\ UNCHANGED <<tx, sent, shut, fin, received>> /\ Line' = Line /\ transport' = transport
  BY Zenon DEF DropRx, txVars, netVars, Line
<1>2. /\ StreamInv(s) /\ rx \in [Streams -> {"none", "open", "dropped"}] /\ buffer \in [Streams -> Seq(Nat)]
  BY Zenon DEF PipeInv, TypeInv
<1>3. CASE s # t
  <2>1. Untouched(s)
    BY <1>1, <1>2, <1>3, Zenon DEF Untouched
  <2> QED
    BY <1>1, <1>2, <2>1, StreamStays, Zenon
<1>4. CASE s = t
  <2>1. rx[s] = "open" /\ rx'[s] = "dropped"
    BY <1>1, <1>2, <1>4, Zenon
  <2> QED
    BY <1>1, <1>2, <2>1, Zenon DEF StreamInv, Written, Held, Between
<1> QED
  BY <1>3, <1>4, Zenon

\* The steps that move no frame from its place in the line and touch no stream.
LEMMA OthersKeep ==
  ASSUME PipeInv, WriteBatch \/ WriterFails \/ WriterShutdown \/ FailTx \/ FailRx \/ CloseRx \/ UNCHANGED vars
                  \/ \E t \in Streams : ReadEnd(t),
         NEW s \in Streams
  PROVE  StreamInv(s)'
<1> USE DEF txVars, rxVars, netVars
<1>0. StreamInv(s) /\ queue \in Seq(Frames) /\ wire \in Seq(Frames)
  BY Zenon DEF PipeInv, TypeInv
<1>1. \A x, y \in Seq(Frames) : (x \o y) \o <<>> = x \o y /\ x \o <<>> = x
  OBVIOUS
<1>2. Untouched(s) /\ (transport' = "up" => transport = "up") /\ Line' = Line
  <2>1. CASE WriteBatch
    BY <1>0, <1>1, <2>1, Zenon DEF WriteBatch, Untouched, Line
  <2>2. CASE WriterFails
    BY <2>2, Zenon DEF WriterFails, Untouched, Line
  <2>3. CASE WriterShutdown
    BY <1>0, <1>1, <2>3, Zenon DEF WriterShutdown, Untouched, Line
  <2>4. CASE FailTx
    BY <2>4, Zenon DEF FailTx, Untouched, Line
  <2>5. CASE FailRx
    BY <2>5, Zenon DEF FailRx, Untouched, Line
  <2>6. CASE CloseRx
    BY <2>6, Zenon DEF CloseRx, Untouched, Line
  <2>7. CASE UNCHANGED vars
    BY <2>7, Zenon DEF vars, Untouched, Line
  <2>8. CASE \E t \in Streams : ReadEnd(t)
    BY <2>8, Zenon DEF ReadEnd, Untouched, Line
  <2> QED
    BY <2>1, <2>2, <2>3, <2>4, <2>5, <2>6, <2>7, <2>8, Zenon
<1> QED
  BY <1>0, <1>2, StreamStays, Zenon

\* Every step keeps the bytes of every stream in order.
LEMMA PipeNext == PipeInv /\ [Next]_vars => PipeInv'
<1> SUFFICES ASSUME PipeInv, [Next]_vars PROVE PipeInv'
  BY Zenon
<1>1. TypeInv'
  BY TypeNext, Zenon DEF PipeInv
<1>2. (transport = "eof" => tx_closed)'
  <2>0. transport = "eof" => tx_closed
    BY Zenon DEF PipeInv
  <2>1. CASE WriterShutdown
    BY <2>1, Zenon DEF WriterShutdown, txVars
  <2>2. CASE Cut
    BY <2>2, Zenon DEF Cut
  <2>3. CASE FailTx
    BY <2>3, Zenon DEF FailTx
  <2>4. CASE WriterFails
    BY <2>4, Zenon DEF WriterFails
  <2>5. CASE UNCHANGED <<transport, tx_closed>>
    BY <2>0, <2>5, Zenon
  <2>6. [Next]_vars => WriterShutdown \/ Cut \/ FailTx \/ WriterFails \/ UNCHANGED <<transport, tx_closed>>
    <3> USE DEF txVars, netVars, rxVars, NextFrame
    <3>1. ASSUME NEW t \in Streams, open_stream(t) \/ poll_write(t) \/ send_fin(t) \/ Reader(t) \/ DropRx(t)
          PROVE  UNCHANGED <<transport, tx_closed>>
      BY <3>1, Zenon DEF open_stream, poll_write, send_fin, Reader, poll_read, ReadEnd, DropRx
    <3>2. CASE WriteBatch \/ FailRx \/ CloseRx
      BY <3>2, Zenon DEF WriteBatch, FailRx, CloseRx
    <3>3. CASE OnSyn \/ OnPsh \/ OnFin
      BY <3>3, Zenon DEF OnSyn, OnPsh, OnFin
    <3>4. CASE UNCHANGED vars
      BY <3>4, Zenon DEF vars
    <3> QED
      BY <3>1, <3>2, <3>3, <3>4, Zenon DEF Next, Sender, Receiver
  <2> QED
    BY <2>1, <2>2, <2>3, <2>4, <2>5, <2>6, Zenon
<1>3. ASSUME NEW s \in Streams PROVE StreamInv(s)'
  <2>1. CASE \E t \in Streams : open_stream(t)
    BY <2>1, OpenKeeps, Zenon
  <2>2. CASE \E t \in Streams : poll_write(t)
    BY <2>2, WriteKeeps, Zenon
  <2>3. CASE \E t \in Streams : send_fin(t)
    BY <2>3, FinKeeps, Zenon
  <2>4. CASE \E t \in Streams : poll_read(t)
    BY <2>4, ReadKeeps, Zenon
  <2>5. CASE \E t \in Streams : DropRx(t)
    BY <2>5, DropKeeps, Zenon
  <2>6. CASE OnSyn
    BY <2>6, SynKeeps, Zenon
  <2>7. CASE OnPsh
    BY <2>7, PshKeeps, Zenon
  <2>8. CASE OnFin
    BY <2>8, FinReadKeeps, Zenon
  <2>9. CASE Cut
    BY <2>9, CutAnywhere, Zenon
  <2>10. CASE \/ WriteBatch \/ WriterFails \/ WriterShutdown \/ FailTx \/ FailRx \/ CloseRx \/ UNCHANGED vars
              \/ \E t \in Streams : ReadEnd(t)
    BY <2>10, OthersKeep, Zenon
  <2> QED
    BY <2>1, <2>2, <2>3, <2>4, <2>5, <2>6, <2>7, <2>8, <2>9, <2>10, Zenon DEF Next, Sender, Receiver, Reader
<1> QED
  BY <1>1, <1>2, <1>3, Zenon DEF PipeInv

\* The invariant of the line holds in every state of the channel.
THEOREM ChannelOrdered == Spec => []PipeInv
<1> QED
  BY PipeInit, PipeNext, PTL DEF Spec
-------------------------------------------------------------------------------
(* Every step of the channel is one of the pipe's, or none.                *)

\* Every step of the channel is a step of the pipe or leaves it alone.
LEMMA StepKept == PipeInv /\ [Next]_vars => [Pipe!Next]_(Pipe!vars)
<1> SUFFICES ASSUME PipeInv, [Next]_vars PROVE [Pipe!Next]_(Pipe!vars)
  BY Zenon
<1> USE DEF txVars, rxVars, netVars
<1>0. /\ TypeInv /\ \A s \in Streams : StreamInv(s)
      /\ sent \in [Streams -> Nat] /\ shut \in [Streams -> BOOLEAN]
      /\ received \in [Streams -> Seq(Nat)] /\ ended \in [Streams -> {"no", "eof", "error"}]
  BY Zenon DEF PipeInv, TypeInv
<1>1. CASE UNCHANGED <<sent, shut, received, ended>>
  BY <1>1, Zenon DEF Pipe!vars
<1>2. ASSUME NEW s \in Streams, poll_write(s) PROVE Pipe!Write(s)
  <2>1. PICK n \in 1 .. MaxFrame : sent' = [sent EXCEPT ![s] = @ + n]
    BY <1>2, Zenon DEF poll_write
  <2>2. n \in Nat \ {0}
    BY ChannelConstants
  <2>3. sent'[s] = sent[s] + n /\ sent'[s] > sent[s] /\ sent' = [sent EXCEPT ![s] = sent'[s]]
    BY <1>0, <2>1, <2>2
  <2>4. ~shut[s]
    BY <1>0, <1>2, Zenon DEF StreamInv, Written, poll_write
  <2> QED
    BY <1>2, <2>3, <2>4, Zenon DEF poll_write, Pipe!Write
<1>3. ASSUME NEW s \in Streams, send_fin(s) PROVE [Pipe!Next]_(Pipe!vars)
  <2>1. ~shut[s] /\ shut' = [shut EXCEPT ![s] = ~tx_closed] /\ UNCHANGED <<sent, received, ended>>
    BY <1>0, <1>3, Zenon DEF StreamInv, Written, send_fin
  <2>2. CASE tx_closed
    <3>1. shut[s] = FALSE
      BY <1>0, <2>1, Zenon
    <3>2. shut' = [shut EXCEPT ![s] = FALSE]
      BY <2>1, <2>2, Zenon
    <3>3. shut' = shut
      BY <1>0, <3>1, <3>2, Zenon
    <3> QED
      BY <2>1, <3>3, Zenon DEF Pipe!vars
  <2>3. CASE ~tx_closed
    <3>1. shut' = [shut EXCEPT ![s] = TRUE]
      BY <2>1, <2>3, Zenon
    <3> QED
      BY <2>1, <3>1, Zenon DEF Pipe!Shutdown, Pipe!Next
  <2> QED
    BY <2>2, <2>3, Zenon
<1>4. ASSUME NEW s \in Streams, poll_read(s) PROVE Pipe!Read(s)
  <2>1. PICK n \in 1 .. Len(buffer[s]) : received' = [received EXCEPT ![s] = @ \o SubSeq(buffer[s], 1, n)]
    BY <1>4, Zenon DEF poll_read
  <2>2. ended[s] = "no" /\ rx[s] # "dropped" /\ UNCHANGED <<sent, shut, ended>>
    BY <1>4, Zenon DEF poll_read, Reading
  <2>3. SubSeq(buffer[s], 1, n) = [i \in 1 .. n |-> Len(received[s]) + i]
    BY <2>2, ReadTakes, Zenon
  <2>4. n \in 1 .. sent[s] - Len(received[s])
    <3>1. /\ Len(received[s]) \in Nat /\ Len(buffer[s]) \in Nat /\ sent[s] \in Nat
          /\ Len(received[s]) + Len(buffer[s]) <= sent[s]
      BY <1>0, <2>2, Counts, Zenon DEF StreamInv, Held, Got
    <3>2. \A x, y, z \in Nat : x + y <= z => \A k \in 1 .. y : k \in 1 .. z - x
      OBVIOUS
    <3> QED
      BY <3>1, <3>2, Zenon
  <2>5. received' = [received EXCEPT ![s] = @ \o [i \in 1 .. n |-> Len(received[s]) + i]]
    BY <2>1, <2>3, Zenon
  <2> QED
    BY <2>2, <2>4, <2>5, Zenon DEF Pipe!Read
<1>5. ASSUME NEW s \in Streams, ReadEnd(s) PROVE Pipe!Eof(s) \/ Pipe!Error(s)
  <2>1. /\ ended[s] = "no" /\ rx[s] # "dropped" /\ buffer[s] = <<>>
        /\ ended' = [ended EXCEPT ![s] = IF fin[s] THEN "eof" ELSE "error"]
        /\ UNCHANGED <<sent, shut, received>>
    BY <1>5, Zenon DEF ReadEnd, Reading
  <2>2. CASE fin[s]
    <3>1. shut[s] /\ Got(s) = sent[s]
      BY <1>0, <2>1, <2>2, Zenon DEF StreamInv, Held
    <3>2. Len(received[s]) = sent[s]
      <4>1. Len(buffer[s]) = 0 /\ Len(received[s]) \in Nat
        BY <1>0, <2>1, Counts, Zenon
      <4> QED
        BY <3>1, <4>1 DEF Got
    <3> QED
      BY <2>1, <2>2, <3>1, <3>2, Zenon DEF Pipe!Eof
  <2>3. CASE ~fin[s]
    BY <2>1, <2>3, Zenon DEF Pipe!Error
  <2> QED
    BY <2>2, <2>3, Zenon
<1>6. ASSUME NEW s \in Streams, open_stream(s) \/ DropRx(s) PROVE UNCHANGED <<sent, shut, received, ended>>
  BY <1>6, Zenon DEF open_stream, DropRx
<1>7. CASE OnSyn \/ OnPsh \/ OnFin
  <2>1. UNCHANGED <<sent, shut, received, ended>>
    BY <1>7, Zenon DEF OnSyn, OnPsh, OnFin, NextFrame
  <2> QED
    BY <1>1, <2>1, Zenon
<1>8. CASE Sender \/ FailRx \/ FailTx \/ Cut \/ CloseRx \/ UNCHANGED vars
  <2>1. UNCHANGED <<sent, shut, received, ended>>
    BY <1>8, Zenon DEF Sender, WriteBatch, WriterFails, WriterShutdown, FailRx, FailTx, Cut, CloseRx, vars
  <2> QED
    BY <1>1, <2>1, Zenon
<1> QED
  BY <1>1, <1>2, <1>3, <1>4, <1>5, <1>6, <1>7, <1>8, Zenon DEF Next, Receiver, Reader, Pipe!Next

\* MuxChannel implements StreamPipe (mux.rs, from poll_write to the peer's
\* poll_read): however many streams share the session, whatever the frame
\* size, the queue limit and the receive buffer, and wherever the transport
\* breaks or a session fails, each stream's reader gets the writer's bytes
\* without gap, repetition or reordering, and end of file only after the last
\* of them.
THEOREM ChannelIsPipe == Spec => PipeKept
<1>1. Init => Pipe!Init
  BY Zenon DEF Init, Pipe!Init
<1> QED
  BY <1>1, StepKept, ChannelOrdered, PTL DEF Spec, PipeKept, Pipe!Spec
================================================================================
