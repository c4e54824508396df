----------------------------- MODULE Lifecycle -----------------------------
(***************************************************************************)
(* Starting, serving and stopping: main.rs wires one server per listener   *)
(* and stops them on Ctrl+C; the servers (server.rs, tls_listener.rs,      *)
(* ws.rs, mux_transport.rs, quic_transport.rs) accept connections, run one *)
(* task for each and drain them; the handlers that turn a connection into  *)
(* many streams (mux_transport.rs, h2_transport.rs, http2_transport.rs,    *)
(* ssh.rs) start tasks of their own.                                       *)
(*                                                                         *)
(* What varies between the listeners is where a task watches the token:    *)
(* never during a TLS handshake, always while the handler runs, and not at *)
(* all in the streams of HTTP/2 and SSH, which no tracker counts either.   *)
(* What a handler does with its connection is the subject of Proxy.        *)
(***************************************************************************)
EXTENDS Integers, Sequences, FiniteSets, Startup

CONSTANT
    Setups      \* bound: the nodes on the command line, and how many
                \* connections, streams and accept errors each listener meets

\* A -L node: the words of its scheme, whether it has a remote address, and
\* whether it can be parsed, its handler built and its address bound.
ASSUME LifecycleConstants ==
    \A u \in Setups :
        /\ DOMAIN u.listen \subseteq Nat
        /\ \A i \in DOMAIN u.listen :
              /\ Len(u.listen[i].words) \in {1, 2}
              /\ {u.listen[i].remote, u.listen[i].parses, u.listen[i].builds, u.listen[i].binds} \subseteq BOOLEAN
        /\ \A i \in DOMAIN u.hops : Len(u.hops[i]) \in {1, 2}
        /\ u.conns \in Nat /\ u.streams \in Nat /\ u.errs \in Nat

VARIABLES
    setup,      \* the setup of this behaviour
    main,       \* starting, running, waiting for the servers, stopped, failed
    opened,     \* what run_server made of each node: server, transport, handler
    token,      \* the servers whose token is cancelled
    serve,      \* each server's accept loop
    delay,      \* its temp_delay, in milliseconds
    errs,       \* accept errors so far
    task,       \* the task of each connection
    stream,     \* the streams opened on connections
    dead,       \* QUIC servers whose endpoint is closed
    forward     \* the listener an SSH session has bound: none, on, stopping

vars == <<setup, opened, main, token, serve, delay, errs, task, stream, dead, forward>>

Servers == DOMAIN setup.listen
Kind(s) == opened[s].over
Conns == Servers \X (1 .. setup.conns)
Streams == Servers \X (1 .. setup.streams)
None == [of |-> 0, at |-> "none", tracked |-> FALSE]

Init ==
    /\ setup \in Setups
    /\ main = "chain"
    /\ opened = [s \in Servers |-> [by |-> "none", over |-> "none", runs |-> "none"]]
    /\ token = {}
    /\ serve = [s \in Servers |-> "none"]
    /\ delay = [s \in Servers |-> 0]
    /\ errs = [s \in Servers |-> 0]
    /\ task = [c \in Conns |-> "none"]
    /\ stream = [t \in Streams |-> None]
    /\ dead = {}
    /\ forward = [c \in Conns |-> "none"]

-----------------------------------------------------------------------------
(* Starting.                                                               *)

Unstarted == <<setup, opened, token, delay, errs, task, stream, dead, forward>>

\* start_from_cli: the chain first, then one task for each listener, which may
\* run before the next node is looked at.  A node that cannot be used ends the
\* process.
BuildsChain ==
    /\ main = "chain"
    /\ main' = IF \A i \in DOMAIN setup.hops : ensure_chain_transport_supported(parse(setup.hops[i]))
               THEN "starting" ELSE "failed"
    /\ UNCHANGED serve /\ UNCHANGED Unstarted

NotSpawned == {s \in Servers : serve[s] = "none"}
\* mutant: the first listener that cannot be served stops the start.
SpawnsServer_stops ==
    /\ main = "starting" /\ NotSpawned # {}
    /\ \A s \in Servers : serve[s] # "refused"
    /\ \E s \in NotSpawned : serve' = [serve EXCEPT ![s] = "spawned"]
    /\ UNCHANGED main /\ UNCHANGED Unstarted

SpawnsServer ==
    /\ main = "starting" /\ NotSpawned # {}
    /\ LET s == CHOOSE n \in NotSpawned : \A o \in NotSpawned : n <= o
       IN IF setup.listen[s].parses
          THEN serve' = [serve EXCEPT ![s] = "spawned"] /\ UNCHANGED main
          ELSE main' = "failed" /\ UNCHANGED serve
    /\ UNCHANGED Unstarted

Started ==
    /\ main = "starting" /\ NotSpawned = {}
    /\ main' = "running"
    /\ UNCHANGED serve /\ UNCHANGED Unstarted

\* run_server up to the accept loop; an error is logged and ends this task
\* alone.
run_server(s) ==
    /\ serve[s] = "spawned"
    /\ LET n == parse(setup.listen[s].words)
           l == listener(n, setup.hops = <<>>)
       IN IF /\ ensure_listener_transport_supported(n)
             /\ l.by # "none" /\ setup.listen[s].builds /\ setup.listen[s].binds
          THEN /\ serve' = [serve EXCEPT ![s] = "accepting"]
               /\ opened' = [opened EXCEPT ![s] = [by |-> l.by, over |-> l.over,
                                                  runs |-> handler(n, setup.listen[s].remote)]]
          ELSE serve' = [serve EXCEPT ![s] = "refused"] /\ UNCHANGED opened
    /\ UNCHANGED main /\ UNCHANGED <<setup, token, delay, errs, task, stream, dead, forward>>

-----------------------------------------------------------------------------
(* The accept loops.                                                       *)

TlsFirst == {"tls", "mtls", "mwss", "h2", "http2"}
Muxed == {"mtls", "mws", "mwss"}
Http2 == {"h2", "h2c", "http2"}

\* Where the task of a new connection starts: in a handshake that comes
\* before the handler, in one that is part of it, or in the handler.
FirstStage(k) ==
    IF k \in TlsFirst \cup {"ws", "wss", "quic"} THEN "shake"
    ELSE IF k = "mws" THEN "upgrade" ELSE "run"

Accept(s) ==
    /\ serve[s] = "accepting"
    /\ \E c \in Conns :
          /\ c[1] = s /\ task[c] = "none"
          /\ task' = [task EXCEPT ![c] = FirstStage(Kind(s))]
    /\ delay' = [delay EXCEPT ![s] = 0]
    /\ UNCHANGED <<setup, opened, main, token, serve, errs, stream, dead, forward>>

\* The servers whose accept loop outlives an error of accept.
Tolerant == {"Server", "TlsServer", "WsServer", "MuxServer"}

\* mutant: the delay is never capped.
temp_delay_uncapped(d) == IF d = 0 THEN 5 ELSE 2 * d

temp_delay(d) == IF d = 0 THEN 5 ELSE IF 2 * d > 1000 THEN 1000 ELSE 2 * d

\* mutant: an error of accept ends the loop.
AcceptErr_returns(s) ==
    /\ serve[s] = "accepting" /\ opened[s].by \in Tolerant /\ errs[s] < setup.errs
    /\ errs' = [errs EXCEPT ![s] = @ + 1]
    /\ serve' = [serve EXCEPT ![s] = "draining"]
    /\ UNCHANGED <<setup, opened, main, token, delay, task, stream, dead, forward>>

\* accept fails: the loop sleeps, without watching the token.
AcceptErr(s) ==
    /\ serve[s] = "accepting" /\ opened[s].by \in Tolerant /\ errs[s] < setup.errs
    /\ errs' = [errs EXCEPT ![s] = @ + 1]
    /\ delay' = [delay EXCEPT ![s] = temp_delay(@)]
    /\ serve' = [serve EXCEPT ![s] = "sleeping"]
    /\ UNCHANGED <<setup, opened, main, token, task, stream, dead, forward>>

Wake(s) ==
    /\ serve[s] = "sleeping"
    /\ serve' = [serve EXCEPT ![s] = "accepting"]
    /\ UNCHANGED <<setup, opened, main, token, delay, errs, task, stream, dead, forward>>

\* The endpoint's driver has died: accept returns nothing any more.
EndpointDies(s) ==
    /\ serve[s] = "accepting" /\ Kind(s) = "quic" /\ errs[s] < setup.errs
    /\ errs' = [errs EXCEPT ![s] = @ + 1]
    /\ dead' = dead \cup {s}
    /\ serve' = [serve EXCEPT ![s] = "draining"]
    /\ UNCHANGED <<setup, opened, main, token, delay, task, stream, forward>>

\* mutant: the endpoint is closed before the tasks have ended.
CancelSeen_closes(s) ==
    /\ serve[s] = "accepting" /\ s \in token
    /\ serve' = [serve EXCEPT ![s] = "draining"]
    /\ dead' = IF Kind(s) = "quic" THEN dead \cup {s} ELSE dead
    /\ UNCHANGED <<setup, opened, main, token, delay, errs, task, stream, forward>>

\* The loop sees the token, which it may do after it has accepted more: the
\* select takes either branch when both are ready.
CancelSeen(s) ==
    /\ serve[s] = "accepting" /\ s \in token
    /\ serve' = [serve EXCEPT ![s] = "draining"]
    /\ UNCHANGED <<setup, opened, main, token, delay, errs, task, stream, dead, forward>>

Busy(c) == task[c] \in {"shake", "upgrade", "run"}
Tracked(s) == {c \in Conns : c[1] = s /\ Busy(c)}
              \cup {t \in Streams : t[1] = s /\ stream[t].at = "run" /\ stream[t].tracked}

\* tracker.wait is over: serve returns, a QUIC server closing its endpoint.
Drained(s) ==
    /\ serve[s] = "draining" /\ Tracked(s) = {}
    /\ serve' = [serve EXCEPT ![s] = "returned"]
    /\ dead' = IF Kind(s) = "quic" THEN dead \cup {s} ELSE dead
    /\ UNCHANGED <<setup, opened, main, token, delay, errs, task, stream, forward>>

\* Server, which serves plain sockets, waits for ten seconds at most.
DrainTimeout(s) ==
    /\ serve[s] = "draining" /\ Tracked(s) # {} /\ opened[s].by = "Server"
    /\ serve' = [serve EXCEPT ![s] = "timedout"]
    /\ UNCHANGED <<setup, opened, main, token, delay, errs, task, stream, dead, forward>>

-----------------------------------------------------------------------------
(* The task of one connection.                                             *)

Moves(c, at) ==
    /\ task' = [task EXCEPT ![c] = at]
    /\ UNCHANGED <<setup, opened, main, token, serve, delay, errs, stream, dead, forward>>

\* acceptor.accept: neither the token nor a timeout ends it, only the peer.
TlsAccepts(c) ==
    /\ task[c] = "shake" /\ Kind(c[1]) \in TlsFirst
    /\ \/ Moves(c, IF Kind(c[1]) = "mwss" THEN "upgrade" ELSE "run")
       \/ Moves(c, "done")

\* accept_ws runs under a timeout of its own.
WsAccepts(c) ==
    /\ task[c] = "shake" /\ Kind(c[1]) \in {"ws", "wss"}
    /\ Moves(c, "run") \/ Moves(c, "done")

\* incoming.await, which fails once the endpoint is dead.
QuicConnects(c) ==
    /\ task[c] = "shake" /\ Kind(c[1]) = "quic"
    /\ \/ c[1] \notin dead /\ Moves(c, "run")
       \/ Moves(c, "done")

\* The timeouts of accept_ws, of the upgrade in WsHandler, and the idle timeout
\* of a QUIC connection.
ShakeTimesOut(c) ==
    /\ \/ task[c] = "shake" /\ Kind(c[1]) \in {"ws", "wss", "quic"}
       \/ task[c] = "upgrade"
    /\ Moves(c, "done")

\* WsHandler upgrades inside the handler, where the token is watched.
WsHandler(c) ==
    /\ task[c] = "upgrade"
    /\ Moves(c, "run") \/ Moves(c, "done")

\* The listener of an ended SSH session: ForwardSession::drop cancels it.
Stopped(c) == IF forward[c] = "on" THEN "stopping" ELSE forward[c]

\* mutant: the end of a session leaves its listener running.
SessionDrop_keeps(c) == forward

SessionDrop(c) == [forward EXCEPT ![c] = Stopped(c)]

\* The handler returns, or the session it accepts streams of has ended.
HandlerReturns(c) ==
    /\ task[c] \in {"run", "detached"}
    /\ task' = [task EXCEPT ![c] = "done"]
    /\ forward' = SessionDrop(c)
    /\ UNCHANGED <<setup, opened, main, token, serve, delay, errs, stream, dead>>

\* mutant: the stream loop of a QUIC connection does not watch the token.
TaskCancelled_unwatched(c) ==
    /\ c[1] \in token /\ Kind(c[1]) # "quic"
    /\ task[c] \in {"upgrade", "run"}
    /\ Moves(c, "done")

\* The select around the handler takes the token.  The session of an SSH
\* handler is a task of the SSH library, which may go on without it.
TaskCancelled(c) ==
    /\ c[1] \in token
    /\ task[c] \in {"upgrade", "run"}
    /\ \/ /\ task' = [task EXCEPT ![c] = "done"]
          /\ forward' = SessionDrop(c)
       \/ /\ Kind(c[1]) = "ssh"
          /\ task' = [task EXCEPT ![c] = "detached"]
          /\ UNCHANGED forward
    /\ UNCHANGED <<setup, opened, main, token, serve, delay, errs, stream, dead>>

-----------------------------------------------------------------------------
(* The streams of one connection.                                          *)

\* mutant: a stream's task is spawned outside the tracker.
Spawns_untracked(c, tracked) ==
    /\ \E t \in Streams :
          /\ t[1] = c[1] /\ stream[t].at = "none"
          /\ stream' = [stream EXCEPT ![t] = [of |-> c[2], at |-> "run", tracked |-> FALSE]]
    /\ UNCHANGED <<setup, opened, main, token, serve, delay, errs, task, dead, forward>>

Spawns(c, tracked) ==
    /\ \E t \in Streams :
          /\ t[1] = c[1] /\ stream[t].at = "none"
          /\ stream' = [stream EXCEPT ![t] = [of |-> c[2], at |-> "run", tracked |-> tracked]]
    /\ UNCHANGED <<setup, opened, main, token, serve, delay, errs, task, dead, forward>>

\* MuxHandler and QuicServer spawn on the tracker of the server, Http2Handler,
\* H2Handler and the SSH session on none.
MuxAccepts(c) == task[c] = "run" /\ Kind(c[1]) \in Muxed /\ Spawns(c, TRUE)
QuicAccepts(c) == task[c] = "run" /\ Kind(c[1]) = "quic" /\ c[1] \notin dead /\ Spawns(c, TRUE)
H2Accepts(c) == task[c] = "run" /\ Kind(c[1]) \in {"h2", "h2c"} /\ Spawns(c, FALSE)
Http2Accepts(c) == task[c] = "run" /\ Kind(c[1]) = "http2" /\ Spawns(c, FALSE)
channel_open_direct_tcpip(c) ==
    task[c] \in {"run", "detached"} /\ Kind(c[1]) = "ssh" /\ Spawns(c, FALSE)

StreamReturns(t) ==
    /\ stream[t].at = "run"
    /\ stream' = [stream EXCEPT ![t].at = "done"]
    /\ UNCHANGED <<setup, opened, main, token, serve, delay, errs, task, dead, forward>>

\* The select around the handler of a stream.
StreamCancelled(t) ==
    /\ t[1] \in token /\ Kind(t[1]) \in Muxed \cup {"quic"}
    /\ StreamReturns(t)

-----------------------------------------------------------------------------
(* Remote forwarding in SSH: a session binds a port until it is told to    *)
(* release it, or ends.  All sessions here ask for the same port.          *)

Bound(s) == \E c \in Conns : c[1] = s /\ forward[c] # "none"

tcpip_forward(c) ==
    /\ Kind(c[1]) = "ssh" /\ task[c] \in {"run", "detached"} /\ ~Bound(c[1])
    /\ forward' = [forward EXCEPT ![c] = "on"]
    /\ UNCHANGED <<setup, opened, main, token, serve, delay, errs, task, stream, dead>>

cancel_tcpip_forward(c) ==
    /\ task[c] \in {"run", "detached"} /\ forward[c] = "on"
    /\ forward' = [forward EXCEPT ![c] = "stopping"]
    /\ UNCHANGED <<setup, opened, main, token, serve, delay, errs, task, stream, dead>>

\* A connection to the bound port opens a channel; the loop may accept one
\* more after it was stopped.
ForwardAccepts(c) == forward[c] # "none" /\ Spawns(c, FALSE)

\* An error of accept ends this loop, and the session is not told.
ForwardFails(c) ==
    /\ forward[c] = "on" /\ errs[c[1]] < setup.errs
    /\ errs' = [errs EXCEPT ![c[1]] = @ + 1]
    /\ forward' = [forward EXCEPT ![c] = "none"]
    /\ UNCHANGED <<setup, opened, main, token, serve, delay, task, stream, dead>>

\* The loop sees its token.
ForwardEnds(c) ==
    /\ forward[c] = "stopping"
    /\ forward' = [forward EXCEPT ![c] = "none"]
    /\ UNCHANGED <<setup, opened, main, token, serve, delay, errs, task, stream, dead>>

-----------------------------------------------------------------------------
(* main.                                                                   *)

ctrl_c ==
    /\ main = "running"
    /\ main' = "waiting"
    /\ UNCHANGED <<setup, opened, token, serve, delay, errs, task, stream, dead, forward>>

\* The task that passes the token of main on to a server.
PassesOn(s) ==
    /\ main = "waiting" /\ s \notin token /\ serve[s] \notin {"spawned", "refused"}
    /\ token' = token \cup {s}
    /\ UNCHANGED <<setup, opened, main, serve, delay, errs, task, stream, dead, forward>>

Returned == {"returned", "timedout", "refused"}

\* Every server has returned: the process ends, with whatever still runs.
MainStops ==
    /\ main = "waiting" /\ \A s \in Servers : serve[s] \in Returned
    /\ main' = "stopped"
    /\ UNCHANGED <<setup, opened, token, serve, delay, errs, task, stream, dead, forward>>

\* What the program does by itself, and what peers and the network do.
Inside ==
    \/ BuildsChain \/ SpawnsServer \/ Started
    \/ \E s \in Servers : run_server(s) \/ Wake(s) \/ CancelSeen(s) \/ Drained(s) \/ DrainTimeout(s) \/ PassesOn(s)
    \/ \E c \in Conns : ShakeTimesOut(c) \/ TaskCancelled(c)
    \/ \E t \in Streams : StreamCancelled(t)
ListenersEnd == \E c \in Conns : ForwardEnds(c)

Outside ==
    \/ ctrl_c
    \/ \E s \in Servers : Accept(s) \/ AcceptErr(s) \/ EndpointDies(s)
    \/ \E c \in Conns : \/ TlsAccepts(c) \/ WsAccepts(c) \/ QuicConnects(c) \/ WsHandler(c)
                        \/ HandlerReturns(c)
                        \/ MuxAccepts(c) \/ QuicAccepts(c) \/ H2Accepts(c) \/ Http2Accepts(c)
                        \/ channel_open_direct_tcpip(c) \/ tcpip_forward(c)
                        \/ cancel_tcpip_forward(c) \/ ForwardAccepts(c) \/ ForwardFails(c)
    \/ \E t \in Streams : StreamReturns(t)

Next == main \notin {"stopped", "failed"} /\ (Inside \/ ListenersEnd \/ MainStops \/ Outside)

Spec == Init /\ [][Next]_vars

\* The scheduler runs every task that can go on; an SSH client may bind and
\* release its port for ever meanwhile.
FairSpec ==
    /\ Spec
    /\ WF_vars(main \notin {"stopped", "failed"} /\ (Inside \/ MainStops))
    /\ WF_vars(main \notin {"stopped", "failed"} /\ ListenersEnd)

-----------------------------------------------------------------------------
(* Properties.                                                             *)

\* The shape of the state; a delay doubles from 5 up to 640, then stays at 1000.
TypeOK ==
    /\ main \in {"chain", "starting", "running", "waiting", "stopped", "failed"} /\ token \subseteq Servers
    /\ \A s \in Servers :
          /\ serve[s] \in {"none", "spawned", "refused", "accepting", "sleeping", "draining", "returned", "timedout"}
          /\ delay[s] \in {0, 5, 10, 20, 40, 80, 160, 320, 640, 1000}
          /\ errs[s] \in 0 .. setup.errs
    /\ task \in [Conns -> {"none", "shake", "upgrade", "run", "detached", "done"}]
    /\ dead \subseteq Servers
    /\ forward \in [Conns -> {"none", "on", "stopping"}]

\* A server that has returned, other than by the drain timeout, has no task
\* left: no handshake, no session loop, and no stream of a multiplexed
\* connection, even one accepted after the token was cancelled or after the
\* tracker was closed (the doc of MuxServer: "serve returns only once every
\* stream in flight has finished").
DrainComplete ==
    \A s \in Servers : serve[s] = "returned" =>
        /\ \A c \in Conns : c[1] = s => ~Busy(c)
        /\ Kind(s) \in Muxed \cup {"quic"} =>
              \A t \in Streams : t[1] = s => stream[t].at # "run"

\* The QUIC endpoint is closed by the server only when no handler runs on one
\* of its connections any more, so shutdown cuts nobody off from below.
EndpointLast ==
    \A s \in dead : errs[s] = 0 =>
        /\ \A c \in Conns : c[1] = s => ~Busy(c)
        /\ \A t \in Streams : t[1] = s => stream[t].at # "run"

\* As long as it is not told to stop a listener comes back to accepting,
\* whatever its accepts, handshakes, sessions and handlers run into; only the
\* death of a QUIC endpoint ends it.
KeepsAccepting ==
    []<>(\A s \in Servers : serve[s] \in {"accepting", "refused"} \/ main # "running" \/ s \in dead)

Stalled(s) == \E c \in Conns : c[1] = s /\ task[c] = "shake" /\ Kind(s) \in TlsFirst

\* Ctrl+C ends the program: every server learns of it, through a sleep after
\* an error or in the middle of accepting, cancels and drains its tasks and
\* returns.  Only a peer that stays silent in a TLS handshake can hold it up,
\* since nothing bounds that wait.
Terminates ==
    []<>(main = "waiting" => \E s \in Servers : Stalled(s))

\* A port bound for an SSH session is released once the session is over.
PortsFreed ==
    []<>(main \in {"stopped", "failed"} \/ \A c \in Conns : task[c] = "done" => forward[c] = "none")

\* A listener is served over the transport its scheme names or not at all, and
\* a chain is built only of hops that can be dialled over theirs: nothing
\* falls back to plain TCP on the way from the words of the scheme through
\* the normalisation, the gates and the two dispatches of run_server.
NoFallback ==
    /\ \A s \in Servers :
          LET w == setup.listen[s].words
              t == w[Len(w)]
          IN (opened[s].by # "none" /\ t \in Transports) =>
                Kind(s) = IF w[1] = "forward" /\ Carrier(t) = "tcp" THEN "ssh" ELSE Carrier(t)
    /\ main = "starting" =>
          \A i \in DOMAIN setup.hops :
             LET n == parse(setup.hops[i])
             IN n.transport \in SupportedHops \/ (n.transport = "ssh" /\ n.protocol \in {"direct", "remote", "forward"})

\* A listener that cannot be brought up: its handler or its address is the
\* matter, or no listener is wired for its scheme.
GivenUp(l) == \/ ~l.builds \/ ~l.binds
              \/ LET n == parse(l.words)
                 IN ~ensure_listener_transport_supported(n) \/ (n.transport = "rudp" /\ setup.hops # <<>>)

\* Every listener of the command line is brought up or given up, one that is
\* given up takes no other with it, and only a node that cannot be used at all
\* ends the process.
AllStarted ==
    []<>(\/ main = "failed"
         \/ \A s \in Servers : serve[s] \notin {"none", "spawned"}
                               /\ (serve[s] = "refused" => GivenUp(setup.listen[s])))

\* A server that has returned has left no tracked task behind, and has cut none
\* off by closing what it runs on too early.
DrainSound == TypeOK /\ DrainComplete /\ EndpointLast

\* Listeners come up, come back to accepting after every mishap, and end with
\* Ctrl+C; ports bound for a session are released.
ServersLive == AllStarted /\ KeepsAccepting /\ Terminates /\ PortsFreed

====
