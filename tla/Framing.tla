------------------------------- MODULE Framing -------------------------------
(***************************************************************************)
(* The stream wrappers that put a byte stream into frames: RelayConn       *)
(* (relay.rs), SsStream (ss.rs), ObfsTlsStream (obfs_transport.rs),        *)
(* WsStream (ws.rs), SnappyStream (kcp.rs) and H2Stream (h2_transport.rs), *)
(* and the handshakes of obfs_transport.rs and obfs.rs, after which most   *)
(* streams go on bare.  Each turns the writes of one end into frames,      *)
(* queues them in `out`, pushes them at a connection that takes and        *)
(* delivers any number of bytes at a time, and reassembles them at the     *)
(* other end.  Some hold a reply back until the first write; H2Stream      *)
(* writes only what the other end has made room for.  Connections end by   *)
(* shutdown, by an end being dropped with frames still queued, or by a     *)
(* reset.                                                                  *)
(*                                                                         *)
(* A frame is a sequence of tokens: a header is two tokens, so that it can *)
(* be cut in the middle, a payload byte one.  A poll_read is taken one     *)
(* turn of its loop at a time: hand out what is decoded, else decode what  *)
(* is whole, else read the connection.                                     *)
(***************************************************************************)
EXTENDS Integers, Sequences, FiniteSets, SequencesExt

CONSTANTS
  Kinds,     \* the wrappers to look at, each in one direction of use
  MaxBytes,  \* bound of the model: bytes written in the one direction looked at
  WsBytes,   \* bound of the model: bytes written in each direction of a WebSocket
  MaxChunk,  \* MAX_PAYLOAD, MAX_TLS_DATA_LEN, MAX_WRITE_FRAME, SNAPPY_MAX_BLOCK
  Window,    \* the window an HTTP/2 stream starts with, in bytes
  Capacity   \* tokens the connection takes before a write is pending

\* The kinds that open with a message each way: obfs_transport's ohttp, with a
\* client that waits for the answer or one that does not, and obfs.rs's pairs.
Handshakes == {"ohttp", "ohttp_eager", "obfs_http", "obfs_tls"}

AllKinds == {"relay_tcp", "relay_udp", "relay_udp_reply", "ss", "otls",
             "otls_ticket", "otls_reply", "ws", "snappy", "h2"} \union Handshakes

ASSUME FramingConstants ==
  /\ Kinds \subseteq AllKinds /\ MaxBytes \in Nat /\ WsBytes \in 0..MaxBytes
  /\ MaxChunk \in Nat \ {0} /\ Window \in Nat \ {0} /\ Capacity \in Nat \ {0}

Dirs == {"fwd", "back"}
Opp(d) == IF d = "fwd" THEN "back" ELSE "fwd"

VARIABLES
  kind,      \* the wrapper in use
  sent,      \* bytes accepted from the writer of each direction
  shut,      \* the writer has called shutdown
  emptied,   \* a frame without payload has been sent
  w,         \* write side of the wrapper
  net,       \* "up", "fin", "dropped" (closed without shutdown) or "cut"
  wire,      \* tokens between the two ends
  r,         \* read side of the wrapper
  received,  \* bytes handed to the reader
  ended      \* how reading ended: "no", "eof", "error", or "lost", which is an end
             \* of file from a writer that was dropped

vars == <<kind, sent, shut, emptied, w, net, wire, r, received, ended>>

\* Only a WebSocket close and a handshake in one direction touch the other one.
Active == IF kind \in Handshakes \union {"ws"} THEN Dirs ELSE {"fwd"}
Limit == IF kind \in Handshakes \union {"ws"} THEN WsBytes ELSE MaxBytes
Otls == kind \in {"otls", "otls_ticket", "otls_reply"}
Udp == kind \in {"relay_udp", "relay_udp_reply"}

Token(t, n) == [t |-> t, n |-> n]
Header(t, n) == <<Token(t \o "1", n), Token(t \o "2", n)>>
Payload(d, n) == [i \in 1..n |-> Token("byte", sent[d] + i)]
Numbers(tokens) == [i \in DOMAIN tokens |-> tokens[i].n]

-------------------------------------------------------------------------------
(* What each wrapper starts with.                                          *)

\* The reply a server holds back: relay's response, which a gost peer may
\* follow with features, and otls's ServerHello and ChangeCipherSpec.
relay_held == {Header("resp", 0), Header("resp", 1) \o <<Token("feature", 0)>>}
otls_held == {Header("hs", 1) \o <<Token("byte", 0)>> \o Header("ccs", 1) \o <<Token("byte", 0)>>}

Held(k) ==
  IF k \in {"relay_tcp", "relay_udp_reply"} THEN relay_held
  ELSE IF k = "otls_reply" THEN otls_held ELSE {<<>>}

\* RelayConn::client and ::server.
relay_new(udp, reply) ==
  [st |-> IF reply THEN "Response" ELSE IF udp THEN "Length" ELSE "Raw", need |-> 2]

\* SsStream::new.
ss_new == [st |-> "Salt", need |-> 2]

\* ObfsTlsStream::new: a client expects the server's opening records; a server
\* has to read the ClientHello, its header first (otls_accept).
otls_new(reply) == [st |-> IF reply THEN "Reply" ELSE "HelloHead", need |-> IF reply THEN 0 ELSE 2]

\* A ClientHello with n bytes of payload in its session ticket.
ClientHello(d, n) == Header("hs", n + 1) \o <<Token("id", 0)>> \o Payload(d, n)

\* What a client sends before it is handed the stream: otls_connect,
\* ohttp_connect, and the handshakes of obfs.rs.
Hello(k) ==
  CASE k \in {"ohttp", "ohttp_eager", "obfs_http"} -> Header("req", 0)
    [] k = "obfs_tls" -> Header("hs", 1) \o <<Token("byte", 0)>>
    [] k = "otls" -> ClientHello("fwd", 0)
    [] OTHER -> <<>>

\* What a server answers: ohttp_accept, and the accept_handshakes of obfs.rs.
\* Something that is no ohttp server may refuse.
Answers ==
  CASE kind = "ohttp" -> {Header("status", 101), Header("status", 400)}
    [] kind \in {"ohttp_eager", "obfs_http"} -> {Header("status", 101)}
    [] kind = "obfs_tls" -> {Header("hs", 1) \o <<Token("byte", 0)>>}

\* Tokens in the buffer of 4096 bytes that obfs.rs reads a request into.
HeadBuffer == 4

\* How each end starts to read: read_head and the client of obfs.rs take one
\* byte at a time, its server whatever fits its buffer.
HandshakeReader(k, d) ==
  CASE k = "obfs_tls" -> [st |-> "HelloHead", need |-> 2]
    [] k = "obfs_http" /\ d = "fwd" -> [st |-> "Chunk", need |-> HeadBuffer]
    [] OTHER -> [st |-> "Head", need |-> 1]

Reader(k, d) ==
  LET s == CASE k \in Handshakes -> HandshakeReader(k, d)
             [] k = "relay_tcp" -> relay_new(FALSE, TRUE)
             [] k = "relay_udp" -> relay_new(TRUE, FALSE)
             [] k = "relay_udp_reply" -> relay_new(TRUE, TRUE)
             [] k = "ss" -> ss_new
             [] k \in {"otls", "otls_ticket"} -> otls_new(FALSE)
             [] k = "otls_reply" -> otls_new(TRUE)
             [] k = "ws" -> [st |-> "Record", need |-> 0]
             [] k = "snappy" -> [st |-> "NoMagic", need |-> 0]
             [] k = "h2" -> [st |-> "Record", need |-> 0]
  IN [st |-> s.st, need |-> s.need, buf |-> <<>>, plain |-> <<>>, nonce |-> 0, owed |-> 0]

Init ==
  /\ kind \in Kinds
  /\ sent = [d \in Dirs |-> 0] /\ shut = [d \in Dirs |-> FALSE]
  /\ emptied = FALSE
  /\ \E h \in Held(kind) :
       w = [d \in Dirs |-> [held |-> IF d = "fwd" THEN h ELSE <<>>,
                            out |-> IF d = "fwd" THEN Hello(kind) ELSE <<>>,
                            nonce |-> 0, opened |-> FALSE, replied |-> FALSE,
                            failed |-> FALSE, window |-> IF kind = "h2" THEN Window ELSE 0]]
  /\ net = [d \in Dirs |-> "up"] /\ wire = [d \in Dirs |-> <<>>]
  /\ r = [d \in Dirs |-> Reader(kind, d)]
  /\ received = [d \in Dirs |-> <<>>] /\ ended = [d \in Dirs |-> "no"]

-------------------------------------------------------------------------------
(* Writing.                                                                *)

readVars == <<r, received, ended>>

\* An end has its stream once its handshake is over.
Opened(d) ==
  \/ kind \notin Handshakes \/ r[Opp(d)].st = "Raw"
  \/ kind = "ohttp_eager" /\ d = "fwd"

\* Each poll_write drains `out` before it queues another frame; the HTTP/2
\* library takes whatever the window allows.
CanWrite(d) ==
  /\ d \in Active /\ Opened(d)
  /\ ~shut[d] /\ ~w[d].failed /\ net[d] = "up" /\ (kind = "h2" \/ w[d].out = <<>>)

Queue(d, n, tokens) ==
  /\ w' = [w EXCEPT ![d].out = tokens]
  /\ sent' = [sent EXCEPT ![d] = @ + n]

\* A variant: the first write forgets the response that is held back.
relay_poll_write_no_header(d, n) ==
  /\ kind \in {"relay_tcp", "relay_udp", "relay_udp_reply"}
  /\ IF ~Udp
     THEN /\ Len(wire[d]) + n <= Capacity
          /\ wire' = [wire EXCEPT ![d] = @ \o Payload(d, n)]
          /\ UNCHANGED w
     ELSE /\ w' = [w EXCEPT ![d].out = Header("len", n) \o Payload(d, n)]
          /\ UNCHANGED wire
  /\ sent' = [sent EXCEPT ![d] = @ + n]

\* RelayConn::poll_write: the held response goes in front of the first frame;
\* without one, TCP mode hands the bytes straight to the connection.
relay_poll_write(d, n) ==
  /\ kind \in {"relay_tcp", "relay_udp", "relay_udp_reply"}
  /\ IF ~Udp /\ w[d].held = <<>>
     THEN /\ Len(wire[d]) + n <= Capacity
          /\ wire' = [wire EXCEPT ![d] = @ \o Payload(d, n)]
          /\ sent' = [sent EXCEPT ![d] = @ + n]
          /\ UNCHANGED w
     ELSE /\ sent' = [sent EXCEPT ![d] = @ + n]
          /\ w' = [w EXCEPT ![d].out =
                     w[d].held \o (IF Udp THEN Header("len", n) ELSE <<>>) \o Payload(d, n),
                            ![d].held = <<>>]
          /\ UNCHANGED wire

\* SsStream::seal_chunk: the salt once, a sealed length, a sealed payload; each
\* seal uses one nonce.
ss_seal_chunk(d, n) ==
  /\ kind = "ss"
  /\ w' = [w EXCEPT
       ![d].out = (IF w[d].opened THEN <<>> ELSE Header("salt", 0))
                    \o <<Token("len1", n), Token("tag", w[d].nonce)>>
                    \o Payload(d, n) \o <<Token("tag", w[d].nonce + 1)>>,
       ![d].opened = TRUE,
       ![d].nonce = @ + 2]
  /\ sent' = [sent EXCEPT ![d] = @ + n]
  /\ UNCHANGED wire

\* ObfsTlsStream::poll_write: the first record of a server is typed handshake.
\* The client of another implementation sends its first bytes in the ticket.
otls_poll_write(d, n) ==
  /\ Otls /\ w[d].held = <<>>
  /\ w' = [w EXCEPT
       ![d].out = IF kind = "otls_ticket" /\ ~w[d].opened THEN ClientHello(d, n)
                  ELSE Header(IF kind = "otls_reply" /\ ~w[d].opened THEN "hs" ELSE "app", n)
                         \o Payload(d, n),
       ![d].opened = TRUE]
  /\ sent' = [sent EXCEPT ![d] = @ + n]
  /\ UNCHANGED wire

\* After a handshake the stream is the connection itself.
BareWrite(d, n) ==
  /\ kind \in Handshakes /\ Len(wire[d]) + n <= Capacity
  /\ wire' = [wire EXCEPT ![d] = @ \o Payload(d, n)]
  /\ sent' = [sent EXCEPT ![d] = @ + n]
  /\ UNCHANGED w

\* WsStream::poll_write: one binary frame.
ws_poll_write(d, n) ==
  /\ kind = "ws" /\ ~w[d].replied
  /\ Queue(d, n, Header("frame", n) \o Payload(d, n))
  /\ UNCHANGED wire

\* SnappyStream::poll_write and encode_chunk: the stream identifier once, then a
\* chunk with the checksum of its payload.
snappy_poll_write(d, n) ==
  /\ kind = "snappy"
  /\ w' = [w EXCEPT
       ![d].out = (IF w[d].opened THEN <<>> ELSE Header("magic", 0))
                    \o Header("chunk", n) \o Payload(d, n),
       ![d].opened = TRUE]
  /\ sent' = [sent EXCEPT ![d] = @ + n]
  /\ UNCHANGED wire

\* H2Stream::poll_write: capacity is reserved, and no more is sent than granted.
h2_poll_write(d, n) ==
  /\ kind = "h2" /\ n <= w[d].window
  /\ w' = [w EXCEPT ![d].out = @ \o Header("data", n) \o Payload(d, n), ![d].window = @ - n]
  /\ sent' = [sent EXCEPT ![d] = @ + n]
  /\ UNCHANGED wire

Write(d) ==
  /\ CanWrite(d)
  /\ \E n \in 1..MaxChunk :
       /\ sent[d] + n <= Limit
       /\ \/ relay_poll_write(d, n) \/ ss_seal_chunk(d, n) \/ otls_poll_write(d, n)
          \/ ws_poll_write(d, n) \/ snappy_poll_write(d, n) \/ h2_poll_write(d, n)
          \/ BareWrite(d, n)
  /\ UNCHANGED <<kind, shut, emptied, net>> /\ UNCHANGED readVars

\* A peer that is not rt may send a frame without payload.
EmptyFrame(d) ==
  /\ CanWrite(d) /\ ~emptied /\ w[d].held = <<>>
  /\ \/ Udp /\ Queue(d, 0, Header("len", 0))
     \/ Otls /\ (kind = "otls_ticket" => w[d].opened) /\ Queue(d, 0, Header("app", 0))
  /\ emptied' = TRUE
  /\ UNCHANGED <<kind, shut, net, wire>> /\ UNCHANGED readVars

\* A held reply is released by the first flush, and by any write of otls.
queue_pending_header(d) ==
  /\ d \in Active /\ net[d] = "up" /\ w[d].out = <<>> /\ w[d].held # <<>>
  /\ w' = [w EXCEPT ![d].out = w[d].held, ![d].held = <<>>]
  /\ UNCHANGED <<kind, sent, shut, emptied, net, wire>> /\ UNCHANGED readVars

\* poll_flush_out, flush_out, poll_drain: part of `out`, as much as is taken.
poll_flush_out(d) ==
  /\ net[d] = "up" /\ w[d].out # <<>>
  /\ \E k \in 1..Len(w[d].out) :
       /\ k \in {1, Len(w[d].out)} /\ Len(wire[d]) + k <= Capacity
       /\ wire' = [wire EXCEPT ![d] = @ \o SubSeq(w[d].out, 1, k)]
       /\ w' = [w EXCEPT ![d].out = SubSeq(@, k + 1, Len(@))]
  /\ UNCHANGED <<kind, sent, shut, emptied, net>> /\ UNCHANGED readVars

\* What a shutdown queues: a WebSocket's Close frame, and the empty DATA frame
\* with END_STREAM of H2Stream.
Closing(d) ==
  IF kind = "ws" /\ ~w[d].replied THEN Header("close", 0)
  ELSE IF kind = "h2" THEN Header("end", 0) ELSE <<>>

\* A variant: a shutdown does not release what is held back.
CallShutdown_keeps_held(d) ==
  /\ d \in Active /\ Opened(d) /\ ~shut[d] /\ ~w[d].failed /\ net[d] = "up"
  /\ kind = "otls_ticket" => w[d].opened
  /\ shut' = [shut EXCEPT ![d] = TRUE]
  /\ w' = [w EXCEPT ![d].out = @ \o Closing(d)]
  /\ UNCHANGED <<kind, sent, emptied, net, wire>> /\ UNCHANGED readVars

\* poll_shutdown is called: what is held back is queued, and a frame that says so
\* behind it.  (A client whose hello carries its first bytes has written some.)
CallShutdown(d) ==
  /\ d \in Active /\ Opened(d) /\ ~shut[d] /\ ~w[d].failed /\ net[d] = "up"
  /\ kind = "otls_ticket" => w[d].opened
  /\ shut' = [shut EXCEPT ![d] = TRUE]
  /\ w' = [w EXCEPT ![d].out = @ \o w[d].held \o Closing(d), ![d].held = <<>>]
  /\ UNCHANGED <<kind, sent, emptied, net, wire>> /\ UNCHANGED readVars

\* ... and the connection's write half is shut once everything is out.  A
\* WebSocket and an HTTP/2 stream only end their own protocol here.
poll_shutdown(d) ==
  /\ shut[d] /\ net[d] = "up" /\ w[d].out = <<>> /\ kind \notin {"ws", "h2"}
  /\ net' = [net EXCEPT ![d] = "fin"]
  /\ UNCHANGED <<kind, sent, shut, emptied, w, wire>> /\ UNCHANGED readVars

\* tungstenite refuses data once it has seen and answered a Close frame.
WriteRefused(d) ==
  /\ kind = "ws" /\ d \in Active /\ w[d].replied /\ ~shut[d] /\ ~w[d].failed
  /\ sent[d] < Limit
  /\ w' = [w EXCEPT ![d].failed = TRUE]
  /\ UNCHANGED <<kind, sent, shut, emptied, net, wire>> /\ UNCHANGED readVars

\* The owner of an end drops it: its frames are lost, the peer sees a close.
Drop(d) ==
  /\ d \in Active /\ net[d] = "up"
  /\ net' = [e \in Dirs |-> IF e = d THEN "dropped"
                            ELSE IF e \in Active /\ net[e] = "up" THEN "cut" ELSE net[e]]
  /\ w' = [e \in Dirs |-> [w[e] EXCEPT !.out = <<>>]]
  /\ UNCHANGED <<kind, sent, shut, emptied, wire>> /\ UNCHANGED readVars

Cut ==
  /\ \A d \in Active : net[d] \in {"up", "fin"}
  /\ net' = [d \in Dirs |-> IF d \in Active THEN "cut" ELSE net[d]]
  /\ wire' = [d \in Dirs |-> <<>>]
  /\ w' = [e \in Dirs |-> [w[e] EXCEPT !.out = <<>>]]
  /\ UNCHANGED <<kind, sent, shut, emptied>> /\ UNCHANGED readVars

-------------------------------------------------------------------------------
(* Decoding what has been read.  Each wrapper takes one whole unit off its *)
(* buffer and returns its next read state; "Bad" is an error.              *)

Rest(s, n) == SubSeq(s, n + 1, Len(s))

\* RelayConn::enter_data_phase.
enter_data_phase(s) ==
  IF Udp THEN [s EXCEPT !.st = "Length", !.need = 2, !.buf = <<>>]
  ELSE [s EXCEPT !.st = "Raw", !.need = 0, !.buf = <<>>]

\* RelayConn::poll_read, once read_need bytes are there.
relay_decode(s) ==
  CASE s.st = "Response" ->
         IF s.buf[2].t # "resp2" THEN [s EXCEPT !.st = "Bad"]
         ELSE IF s.buf[2].n > 0
              THEN [s EXCEPT !.st = "Features", !.need = s.buf[2].n, !.buf = <<>>]
              ELSE enter_data_phase(s)
    [] s.st = "Features" -> enter_data_phase(s)
    [] s.st = "Length" ->
         IF s.buf[2].t # "len2" THEN [s EXCEPT !.st = "Bad"]
         ELSE IF s.buf[2].n = 0 THEN [s EXCEPT !.buf = <<>>]
         ELSE [s EXCEPT !.st = "Payload", !.need = s.buf[2].n, !.buf = <<>>]
    [] s.st = "Payload" ->
         [s EXCEPT !.st = "Length", !.need = 2, !.buf = <<>>, !.plain = Numbers(s.buf)]

\* A variant: the payload of a chunk is opened without a step of the nonce.
ss_decode_no_bump(s) ==
  CASE s.st = "Salt" -> [s EXCEPT !.st = "Length", !.buf = <<>>]
    [] s.st = "Length" ->
         IF s.buf[1].t # "len1" \/ s.buf[2] # Token("tag", s.nonce)
         THEN [s EXCEPT !.st = "Bad"]
         ELSE [s EXCEPT !.st = "Payload", !.need = s.buf[1].n + 1, !.buf = <<>>,
                        !.nonce = @ + 1]
    [] s.st = "Payload" ->
         IF Last(s.buf) # Token("tag", s.nonce) THEN [s EXCEPT !.st = "Bad"]
         ELSE [s EXCEPT !.st = "Length", !.need = 2, !.buf = <<>>,
                        !.plain = Numbers(Front(s.buf))]

\* A variant: the tag is counted twice.
ss_decode_two_tags(s) ==
  CASE s.st = "Salt" -> [s EXCEPT !.st = "Length", !.buf = <<>>]
    [] s.st = "Length" ->
         [s EXCEPT !.st = "Payload", !.need = s.buf[1].n + 2, !.buf = <<>>, !.nonce = @ + 1]
    [] s.st = "Payload" ->
         [s EXCEPT !.st = "Length", !.need = 2, !.buf = <<>>,
                   !.plain = Numbers(Front(s.buf)), !.nonce = @ + 1]

\* SsStream::poll_read, once read_need bytes are there: a tag that was not made
\* with the nonce the reader is at does not open.
ss_decode(s) ==
  CASE s.st = "Salt" -> [s EXCEPT !.st = "Length", !.buf = <<>>]
    [] s.st = "Length" ->
         IF s.buf[1].t # "len1" \/ s.buf[2] # Token("tag", s.nonce)
         THEN [s EXCEPT !.st = "Bad"]
         ELSE [s EXCEPT !.st = "Payload", !.need = s.buf[1].n + 1, !.buf = <<>>,
                        !.nonce = @ + 1]
    [] s.st = "Payload" ->
         IF Last(s.buf) # Token("tag", s.nonce) THEN [s EXCEPT !.st = "Bad"]
         ELSE [s EXCEPT !.st = "Length", !.need = 2, !.buf = <<>>,
                        !.plain = Numbers(Front(s.buf)), !.nonce = @ + 1]

\* A variant: the next part is asked for before the blank line is looked for.
read_head_past_the_end(s) ==
  IF s.buf = <<Token("req2", 0)>> THEN [s EXCEPT !.need = 2]
  ELSE IF Last(s.buf).t \in {"req1", "status1"} THEN [s EXCEPT !.buf = <<>>]
  ELSE [s EXCEPT !.st = "Raw", !.need = 0, !.buf = <<>>]

\* read_head, one byte: the blank line ends it, and an answer must say 101.
read_head(s) ==
  IF Last(s.buf).t \in {"req1", "status1"} THEN [s EXCEPT !.buf = <<>>]
  ELSE IF Last(s.buf) \in {Token("req2", 0), Token("status2", 101)}
  THEN [s EXCEPT !.st = "Raw", !.need = 0, !.buf = <<>>]
  ELSE [s EXCEPT !.st = "Bad"]

\* ObfsHttpListener::accept_handshake: done when what it has read ends with the
\* blank line, given up when the buffer is full.
accept_handshake(s) ==
  IF Last(s.buf).t = "req2" THEN [s EXCEPT !.st = "Raw", !.need = 0, !.buf = <<>>]
  ELSE [s EXCEPT !.st = "Bad"]

\* otls_accept and the TLS handshakes of obfs.rs: the header, then exactly the
\* hello; otls finds the first payload in its ticket.
HelloRead(s) ==
  CASE s.st = "HelloHead" ->
         IF s.buf[2].t # "hs2" THEN [s EXCEPT !.st = "Bad"]
         ELSE [s EXCEPT !.st = "Hello", !.need = s.buf[2].n, !.buf = <<>>]
    [] s.st = "Hello" ->
         IF Otls THEN [s EXCEPT !.st = "Record", !.need = 0, !.buf = <<>>,
                                !.plain = Numbers(Rest(s.buf, 1))]
         ELSE [s EXCEPT !.st = "Raw", !.need = 0, !.buf = <<>>]

\* A variant: records typed handshake are skipped wherever they come.
otls_decode_by_type(s) ==
  LET n == s.buf[2].n  rest == Rest(s.buf, 2 + n) IN
  IF s.buf[2].t = "ccs2" THEN [s EXCEPT !.st = "Record", !.buf = rest]
  ELSE IF s.buf[2].t = "hs2" THEN [s EXCEPT !.buf = rest]
  ELSE [s EXCEPT !.st = "Record", !.buf = rest, !.plain = Numbers(SubSeq(s.buf, 3, 2 + n))]

\* ObfsTlsStream::poll_read after take_record: until the ChangeCipherSpec the
\* client skips, from there on everything is payload whatever its type.
otls_decode(s) ==
  LET n == s.buf[2].n  rest == Rest(s.buf, 2 + n) IN
  IF s.st = "Reply" /\ s.buf[2].t = "ccs2" THEN [s EXCEPT !.st = "Record", !.buf = rest]
  ELSE IF s.st = "Reply" /\ s.buf[2].t = "hs2" THEN [s EXCEPT !.buf = rest]
  ELSE [s EXCEPT !.st = "Record", !.buf = rest, !.plain = Numbers(SubSeq(s.buf, 3, 2 + n))]

\* WsStream::poll_read on a message: a Close frame ends the stream.
ws_decode(s) ==
  LET n == s.buf[2].n IN
  IF s.buf[2].t = "close2" THEN [s EXCEPT !.st = "Eof", !.buf = <<>>]
  ELSE [s EXCEPT !.buf = Rest(s.buf, 2 + n), !.plain = Numbers(SubSeq(s.buf, 3, 2 + n))]

\* SnappyStream::decode_chunks: data before the stream identifier is an error.
decode_chunks(s) ==
  LET n == s.buf[2].n IN
  IF s.buf[2].t = "magic2" THEN [s EXCEPT !.st = "Record", !.buf = Rest(s.buf, 2)]
  ELSE IF s.st = "NoMagic" THEN [s EXCEPT !.st = "Bad"]
  ELSE [s EXCEPT !.buf = Rest(s.buf, 2 + n), !.plain = Numbers(SubSeq(s.buf, 3, 2 + n))]

\* H2Stream::poll_read on what poll_data returns: a chunk, or the end of the body.
h2_decode(s) ==
  LET n == s.buf[2].n IN
  IF s.buf[2].t = "end2" THEN [s EXCEPT !.st = "Eof", !.buf = <<>>]
  ELSE [s EXCEPT !.buf = Rest(s.buf, 2 + n), !.plain = Numbers(SubSeq(s.buf, 3, 2 + n))]

\* A unit is whole: read_need bytes, or a whole record, frame or chunk.
Whole(s) ==
  IF s.st = "Chunk" THEN s.buf # <<>> /\ (Last(s.buf).t = "req2" \/ Len(s.buf) = s.need)
  ELSE IF s.need > 0 THEN Len(s.buf) = s.need
  ELSE s.st # "Raw" /\ Len(s.buf) >= 2 /\ Len(s.buf) >= 2 + s.buf[2].n

Decoded(s) ==
  CASE s.st = "Head" -> read_head(s)
    [] s.st = "Chunk" -> accept_handshake(s)
    [] s.st \in {"HelloHead", "Hello"} -> HelloRead(s)
    [] kind \in {"relay_tcp", "relay_udp", "relay_udp_reply"} -> relay_decode(s)
    [] kind = "ss" -> ss_decode(s)
    [] Otls -> otls_decode(s)
    [] kind = "ws" -> ws_decode(s)
    [] kind = "snappy" -> decode_chunks(s)
    [] kind = "h2" -> h2_decode(s)

-------------------------------------------------------------------------------
(* Reading: one turn of the loop in poll_read.                             *)

Reading(d) == d \in Active /\ ended[d] = "no"

\* A variant: the window is not given back.
release_capacity_never(s, n) == s

\* What H2Stream hands out the peer may send again.
release_capacity(s, n) == IF kind = "h2" THEN [s EXCEPT !.owed = @ + n] ELSE s

\* The HTTP/2 library announces released capacity once it is half the window.
WindowUpdate(d) ==
  /\ kind = "h2" /\ net[d] \in {"up", "fin"} /\ r[d].owed > 0 /\ 2 * r[d].owed >= Window
  /\ w' = [w EXCEPT ![d].window = @ + r[d].owed]
  /\ r' = [r EXCEPT ![d].owed = 0]
  /\ UNCHANGED <<kind, sent, shut, emptied, net, wire, received, ended>>

\* What is decoded is handed out first, as much as the caller has room for.
Deliver(d) ==
  /\ Reading(d) /\ r[d].plain # <<>>
  /\ \E n \in 1..Len(r[d].plain) :
       /\ received' = [received EXCEPT ![d] = @ \o SubSeq(r[d].plain, 1, n)]
       /\ r' = [r EXCEPT ![d] = release_capacity([@ EXCEPT !.plain = Rest(@, n)], n)]
  /\ UNCHANGED <<kind, sent, shut, emptied, w, net, wire, ended>>

\* A Close frame is answered by tungstenite behind what this end has queued; a
\* server answers the client's opening message.
Decode(d) ==
  LET s == Decoded(r[d]) IN
  /\ Reading(d) /\ r[d].plain = <<>> /\ r[d].st \notin {"Bad", "Eof"} /\ Whole(r[d])
  /\ r' = [r EXCEPT ![d] = s]
  /\ IF kind = "ws" /\ s.st = "Eof" /\ ~shut[Opp(d)] /\ net[Opp(d)] = "up"
     THEN w' = [w EXCEPT ![Opp(d)].out = @ \o Header("close", 0), ![Opp(d)].replied = TRUE]
     ELSE IF kind \in Handshakes /\ d = "fwd" /\ s.st = "Raw" /\ net["back"] = "up"
     THEN \E a \in Answers : w' = [w EXCEPT !["back"].out = a]
     ELSE UNCHANGED w
  /\ UNCHANGED <<kind, sent, shut, emptied, net, wire, received, ended>>


\* poll_fill, or the read of a chunk: what has arrived, up to what is needed.
\* (How tungstenite and h2 read a frame is their own affair.)
poll_fill(d) ==
  LET s == r[d]
      room == IF s.need > 0 THEN s.need - Len(s.buf) ELSE Len(wire[d])
      most == IF room < Len(wire[d]) THEN room ELSE Len(wire[d])
  IN /\ Reading(d) /\ s.plain = <<>> /\ s.st \notin {"Bad", "Eof"} /\ ~Whole(s)
     /\ wire[d] # <<>>
     /\ \E k \in IF kind \in {"ws", "h2"} THEN {most} ELSE {1, most} :
          LET got == SubSeq(wire[d], 1, k) IN
          /\ wire' = [wire EXCEPT ![d] = Rest(@, k)]
          /\ IF s.st = "Raw"
             THEN received' = [received EXCEPT ![d] = @ \o Numbers(got)] /\ UNCHANGED r
             ELSE r' = [r EXCEPT ![d].buf = @ \o got] /\ UNCHANGED received
     /\ UNCHANGED <<kind, sent, shut, emptied, w, net, ended>>

\* The connection is at its end.  A relay client that never saw the response
\* fails, and so does HTTP/2 without an END_STREAM; snappy ends whatever it
\* holds; a WebSocket takes a close without a Close frame for the end; for the
\* others an empty buffer is the boundary.
AtEof(s) ==
  CASE kind \in {"relay_tcp", "relay_udp", "relay_udp_reply"} ->
         IF s.st \in {"Response", "Features"} THEN "error"
         ELSE IF s.buf = <<>> THEN "eof" ELSE "error"
    [] s.st \in {"Head", "Chunk", "HelloHead", "Hello"} -> "error"
    [] kind = "ss" \/ Otls -> IF s.buf = <<>> THEN "eof" ELSE "error"
    [] kind \in Handshakes -> "eof"
    [] kind \in {"ws", "snappy"} -> "eof"
    [] kind = "h2" -> "error"

ReadEnd(d) ==
  /\ Reading(d) /\ r[d].plain = <<>>
  /\ \/ r[d].st = "Bad" /\ ended' = [ended EXCEPT ![d] = "error"]
     \/ r[d].st = "Eof" /\ ended' = [ended EXCEPT ![d] = "eof"]
     \/ /\ r[d].st \notin {"Bad", "Eof"} /\ ~Whole(r[d]) /\ wire[d] = <<>>
        /\ \/ net[d] = "fin" /\ ended' = [ended EXCEPT ![d] = AtEof(r[d])]
           \/ /\ net[d] = "dropped"
              /\ ended' = [ended EXCEPT ![d] = IF AtEof(r[d]) = "eof" THEN "lost" ELSE "error"]
           \/ net[d] = "cut" /\ ended' = [ended EXCEPT ![d] = "error"]
  /\ UNCHANGED <<kind, sent, shut, emptied, w, net, wire, r, received>>

-------------------------------------------------------------------------------

Next ==
  \/ \E d \in Dirs :
       \/ Write(d) \/ EmptyFrame(d) \/ queue_pending_header(d) \/ poll_flush_out(d)
       \/ CallShutdown(d) \/ poll_shutdown(d) \/ WriteRefused(d) \/ Drop(d)
       \/ Deliver(d) \/ Decode(d) \/ poll_fill(d) \/ ReadEnd(d)
       \/ WindowUpdate(d)
  \/ Cut

Spec == Init /\ [][Next]_vars

\* copy_bidirectional flushes what it has written whenever it waits for more to
\* copy, and goes on polling a shutdown and a read until they are done.
Fairness ==
  \A d \in Dirs :
    /\ WF_vars(poll_flush_out(d)) /\ WF_vars(poll_shutdown(d))
    /\ WF_vars(Deliver(d)) /\ WF_vars(Decode(d)) /\ WF_vars(poll_fill(d))
    /\ WF_vars(ReadEnd(d)) /\ WF_vars(WindowUpdate(d))

FairSpec == Spec /\ Fairness

-------------------------------------------------------------------------------

\* The connection broke, or the answer to a handshake is not 101.
Broken(d) == net[d] \in {"cut", "dropped"} \/ r[d].buf = <<Token("status2", 400)>>

\* Type correctness.
TypeOK ==
  /\ kind \in AllKinds /\ sent \in [Dirs -> 0..MaxBytes] /\ shut \in [Dirs -> BOOLEAN]
  /\ emptied \in BOOLEAN
  /\ net \in [Dirs -> {"up", "fin", "dropped", "cut"}]
  /\ ended \in [Dirs -> {"no", "eof", "lost", "error"}]
  /\ \A d \in Dirs :
       /\ w[d].window \in 0..Window /\ r[d].owed \in 0..Window
       /\ Len(wire[d]) <= Capacity /\ r[d].need \in 0..(IF r[d].st = "Chunk" THEN HeadBuffer ELSE MaxChunk + 1)
       /\ r[d].st \in {"Response", "Features", "Raw", "Length", "Payload", "Salt",
                       "Reply", "Record", "NoMagic", "Head", "Chunk", "HelloHead", "Hello",
                       "Eof", "Bad"}

\* A writer that answered the peer's Close has ended its direction; after a drop
\* an end of file promises nothing, so it counts as an error.
Pipe == INSTANCE StreamPipe WITH
  Streams <- Dirs,
  sent <- sent,
  shut <- [d \in Dirs |-> shut[d] \/ w[d].replied],
  received <- received,
  ended <- [d \in Dirs |-> IF ended[d] = "lost" THEN "error" ELSE ended[d]]

\* Every wrapper is a byte pipe: whatever the splits, the reader gets the
\* writer's bytes in order and without gaps, and sees end of file only after all
\* of them and only if the writer closed.
PipeKept == Pipe!Spec

\* No wrapper reports an error on a connection that nobody broke: held replies,
\* frames cut anywhere and frames without payload are all taken in order.
NoSpuriousError ==
  \A d \in Dirs : ended[d] = "error" => Broken(d)

\* What a wrapper has accepted reaches the reader without another write.
AcceptedIsDelivered ==
  \A d \in Dirs : []<>(Len(received[d]) = sent[d] \/ Broken(d))

\* A handshake is over on both sides unless the connection breaks or the server
\* refuses: nobody waits for what the other holds back.
HandshakesEnd ==
  []<>(\A d \in Active : \/ r[d].st \notin {"Head", "Chunk", "HelloHead", "Hello"}
                          \/ Broken(d) \/ kind = "otls_ticket")

\* The writer of an HTTP/2 stream never waits for good: as long as the other end
\* reads, the window opens again, however much has been sent.
WindowReopens ==
  []<>(kind = "h2" => w["fwd"].window > 0 \/ Broken("fwd"))

\* A shutdown reaches the reader as the end of the stream, also from a server
\* that never wrote and still holds its reply.
ShutdownArrives ==
  \A d \in Dirs : shut[d] ~> ended[d] = "eof" \/ Broken(d)

\* On a connection that is not broken no wrapper reports an error, however the
\* frames are split, and its buffers keep their shape.
ReadsSound == TypeOK /\ NoSpuriousError

\* No end waits for good for the other's first move: not in a handshake with a
\* reply that is held back, and not at a full HTTP/2 window.
NobodyWaits == HandshakesEnd /\ WindowReopens

\* What a wrapper has accepted, bytes and shutdown, reaches the other end without
\* another call.
AllDelivered == AcceptedIsDelivered /\ ShutdownArrives

===============================================================================
