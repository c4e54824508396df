-------------------------- MODULE Lifecycle_proofs --------------------------
(***************************************************************************)
(* Proofs about Lifecycle: a server that has returned has left no task     *)
(* behind and a QUIC endpoint is closed last (DrainSound), and no listener *)
(* or hop falls back to another transport than the one its scheme names    *)
(* (NoFallback), for any command line, any number of connections, streams  *)
(* and accept errors.                                                      *)
(***************************************************************************)
EXTENDS Lifecycle, TLAPS, WellFoundedInduction

Stages == {"none", "shake", "upgrade", "run", "detached", "done"}
Loops == {"none", "spawned", "refused", "accepting", "sleeping", "draining", "returned", "timedout"}
Delays == {0, 5, 10, 20, 40, 80, 160, 320, 640, 1000}

\* The shape of the state, with the domains of its functions.
Typed ==
    /\ setup \in Setups
    /\ main \in {"chain", "starting", "running", "waiting", "stopped", "failed"}
    /\ token \subseteq Servers /\ dead \subseteq Servers
    /\ opened = [s \in Servers |-> opened[s]]
    /\ serve \in [Servers -> Loops]
    /\ delay \in [Servers -> Delays]
    /\ errs \in [Servers -> 0 .. setup.errs]
    /\ task \in [Conns -> Stages]
    /\ stream \in [Streams -> [of : Nat, at : {"none", "run", "done"}, tracked : BOOLEAN]]
    /\ forward \in [Conns -> {"none", "on", "stopping"}]

\* A server that has not reached its accept loop has no transport yet.
Unopened == \A s \in Servers : serve[s] \in {"none", "spawned", "refused"} => Kind(s) = "none"

\* A bound port belongs to an SSH server.
ForwardsSsh == \A c \in Conns : forward[c] # "none" => Kind(c[1]) = "ssh"

\* A stream belongs to a server with a transport, and the tracker counts it if
\* the server is one that waits for its streams.
StreamsTracked == \A t \in Streams : stream[t].at = "run" =>
    /\ Kind(t[1]) # "none"
    /\ (Kind(t[1]) \in Muxed \cup {"quic"} => stream[t].tracked)

\* An endpoint that did not die was closed by the server as it returned.
ClosedLast == \A s \in dead : errs[s] = 0 => serve[s] = "returned" /\ Kind(s) = "quic"

\* What a served listener runs on is what the two gates let through.
Wired == \A s \in Servers : opened[s].by # "none" =>
    LET n == parse(setup.listen[s].words)
    IN /\ ensure_listener_transport_supported(n)
       /\ opened[s].by = listener(n, setup.hops = <<>>).by
       /\ Kind(s) = listener(n, setup.hops = <<>>).over

\* A chain that is in use was let through by its gate.
ChainChecked == main = "starting" =>
    \A i \in DOMAIN setup.hops : ensure_chain_transport_supported(parse(setup.hops[i]))

\* The inductive invariant of draining.
DrainInv == Typed /\ Unopened /\ ForwardsSsh /\ StreamsTracked /\ ClosedLast /\ DrainComplete

-----------------------------------------------------------------------------
(* The steps by what they change.                                          *)

\* Starting and stopping.
MainStep == BuildsChain \/ SpawnsServer \/ Started \/ ctrl_c \/ MainStops
\* One accept loop, or its token.
ServerStep(s) ==
    \/ run_server(s) \/ Wake(s) \/ CancelSeen(s) \/ Drained(s) \/ DrainTimeout(s) \/ PassesOn(s)
    \/ Accept(s) \/ AcceptErr(s) \/ EndpointDies(s)
\* The task of one connection.
TaskStep(c) ==
    \/ ShakeTimesOut(c) \/ TaskCancelled(c) \/ TlsAccepts(c) \/ WsAccepts(c) \/ QuicConnects(c)
    \/ WsHandler(c) \/ HandlerReturns(c)
\* The port of one SSH session.
ForwardStep(c) == tcpip_forward(c) \/ cancel_tcpip_forward(c) \/ ForwardFails(c) \/ ForwardEnds(c)
\* A new stream on one connection.
SpawnStep(c) ==
    \/ MuxAccepts(c) \/ QuicAccepts(c) \/ H2Accepts(c) \/ Http2Accepts(c)
    \/ channel_open_direct_tcpip(c) \/ ForwardAccepts(c)

\* Every step of the program is one of these.
LEMMA StepKinds ==
    ASSUME Next
    PROVE  \/ MainStep
           \/ \E s \in Servers : ServerStep(s)
           \/ \E c \in Conns : TaskStep(c) \/ ForwardStep(c) \/ SpawnStep(c)
           \/ \E t \in Streams : StreamReturns(t)
<1>1. CASE Inside
  BY <1>1, Zenon DEF Inside, MainStep, ServerStep, TaskStep, StreamCancelled
<1>2. CASE ListenersEnd
  BY <1>2, Zenon DEF ListenersEnd, ForwardStep
<1>3. CASE Outside
  BY <1>3, Zenon DEF Outside, MainStep, ServerStep, TaskStep, ForwardStep, SpawnStep
<1> QED
  BY <1>1, <1>2, <1>3, Zenon DEF Next, MainStep

\* Nothing changes what the command line said.
LEMMA SetupKept == ASSUME Next PROVE setup' = setup
<1>1. CASE MainStep
  BY <1>1, Zenon DEF MainStep, BuildsChain, SpawnsServer, Started, ctrl_c, MainStops, Unstarted
<1>2. ASSUME NEW s \in Servers, ServerStep(s) PROVE setup' = setup
  BY <1>2, Zenon DEF ServerStep, run_server, Wake, CancelSeen, Drained, DrainTimeout, PassesOn, Accept, AcceptErr, EndpointDies
<1>3. ASSUME NEW c \in Conns, TaskStep(c) PROVE setup' = setup
  BY <1>3, Zenon DEF TaskStep, ShakeTimesOut, TaskCancelled, TlsAccepts, WsAccepts, QuicConnects, WsHandler, HandlerReturns, Moves
<1>4. ASSUME NEW c \in Conns, ForwardStep(c) PROVE setup' = setup
  BY <1>4, Zenon DEF ForwardStep, tcpip_forward, cancel_tcpip_forward, ForwardFails, ForwardEnds
<1>5. ASSUME NEW c \in Conns, SpawnStep(c) PROVE setup' = setup
  BY <1>5, Zenon DEF SpawnStep, MuxAccepts, QuicAccepts, H2Accepts, Http2Accepts, channel_open_direct_tcpip, ForwardAccepts, Spawns
<1>6. ASSUME NEW t \in Streams, StreamReturns(t) PROVE setup' = setup
  BY <1>6, Zenon DEF StreamReturns
<1> QED
  BY StepKinds, <1>1, <1>2, <1>3, <1>4, <1>5, <1>6, Zenon

\* So the servers, the connections and the streams stay the same sets.
LEMMA SetsKept ==
    ASSUME setup' = setup
    PROVE  Servers' = Servers /\ Conns' = Conns /\ Streams' = Streams
  BY Zenon DEF Servers, Conns, Streams

\* A connection and a stream belong to a server.
LEMMA Owners ==
    /\ \A c \in Conns : c[1] \in Servers
    /\ \A t \in Streams : t[1] \in Servers
  BY Zenon DEF Conns, Streams

\* What a step of a connection's task does: the task goes to another stage, is
\* busy only if it was, and its session's port may be told to stop.
LEMMA TaskMoves ==
    ASSUME NEW c \in Conns, TaskStep(c)
    PROVE  /\ \E at \in Stages : /\ task' = [task EXCEPT ![c] = at]
                                 /\ (at \in {"shake", "upgrade", "run"} => Busy(c))
           /\ forward' = forward \/ forward' = SessionDrop(c)
           /\ UNCHANGED <<setup, opened, main, token, serve, delay, errs, stream, dead>>
<1> DEFINE Goal == /\ \E at \in Stages : /\ task' = [task EXCEPT ![c] = at]
                                         /\ (at \in {"shake", "upgrade", "run"} => Busy(c))
                   /\ forward' = forward \/ forward' = SessionDrop(c)
                   /\ UNCHANGED <<setup, opened, main, token, serve, delay, errs, stream, dead>>
<1>1. ASSUME NEW at \in Stages, Moves(c, at), Busy(c) PROVE Goal
  BY <1>1, Zenon DEF Moves
<1>2. {"run", "upgrade", "done", "detached"} \subseteq Stages
  BY Zenon DEF Stages
<1>3. CASE ShakeTimesOut(c)
  BY <1>3, <1>1, <1>2, Zenon DEF ShakeTimesOut, Busy
<1>4. CASE TlsAccepts(c)
  BY <1>4, <1>1, <1>2, Zenon DEF TlsAccepts, Busy
<1>5. CASE WsAccepts(c)
  BY <1>5, <1>1, <1>2, Zenon DEF WsAccepts, Busy
<1>6. CASE QuicConnects(c)
  BY <1>6, <1>1, <1>2, Zenon DEF QuicConnects, Busy
<1>7. CASE WsHandler(c)
  BY <1>7, <1>1, <1>2, Zenon DEF WsHandler, Busy
<1>8. CASE TaskCancelled(c)
  BY <1>8, <1>2, Zenon DEF TaskCancelled
<1>9. CASE HandlerReturns(c)
  BY <1>9, <1>2, Zenon DEF HandlerReturns
<1> QED
  BY <1>3, <1>4, <1>5, <1>6, <1>7, <1>8, <1>9, Zenon DEF TaskStep

\* What a step of a port does: it is bound by an SSH server only.
LEMMA ForwardMoves ==
    ASSUME NEW c \in Conns, ForwardStep(c)
    PROVE  /\ \E f \in {"none", "on", "stopping"} :
                 /\ forward' = [forward EXCEPT ![c] = f]
                 /\ (f # "none" => Kind(c[1]) = "ssh" \/ forward[c] # "none")
           /\ errs' = errs \/ (errs[c[1]] < setup.errs /\ errs' = [errs EXCEPT ![c[1]] = @ + 1])
           /\ UNCHANGED <<setup, opened, main, token, serve, delay, task, stream, dead>>
<1>1. CASE tcpip_forward(c)
  BY <1>1, Zenon DEF tcpip_forward
<1>2. CASE cancel_tcpip_forward(c)
  BY <1>2, Zenon DEF cancel_tcpip_forward
<1>3. CASE ForwardFails(c)
  BY <1>3, Zenon DEF ForwardFails
<1>4. CASE ForwardEnds(c)
  BY <1>4, Zenon DEF ForwardEnds
<1> QED
  BY <1>1, <1>2, <1>3, <1>4, Zenon DEF ForwardStep

\* What a new stream is: one of a server with a transport, counted by the
\* tracker, and opened by a task that is still counted itself, where the server
\* waits for its streams.
LEMMA SpawnMoves ==
    ASSUME NEW c \in Conns, SpawnStep(c), ForwardsSsh
    PROVE  /\ \E t \in Streams, tracked \in BOOLEAN :
                 /\ t[1] = c[1]
                 /\ stream' = [stream EXCEPT ![t] = [of |-> c[2], at |-> "run", tracked |-> tracked]]
                 /\ (Kind(c[1]) \in Muxed \cup {"quic"} => tracked /\ Busy(c))
           /\ Kind(c[1]) # "none"
           /\ UNCHANGED <<setup, opened, main, token, serve, delay, errs, task, dead, forward>>
<1>1. ASSUME NEW tracked \in BOOLEAN, Spawns(c, tracked)
      PROVE  /\ \E t \in Streams : /\ t[1] = c[1]
                                   /\ stream' = [stream EXCEPT ![t] = [of |-> c[2], at |-> "run", tracked |-> tracked]]
             /\ UNCHANGED <<setup, opened, main, token, serve, delay, errs, task, dead, forward>>
  BY <1>1, Zenon DEF Spawns
<1>2. /\ MuxAccepts(c) => Kind(c[1]) # "none" /\ Busy(c) /\ Spawns(c, TRUE)
      /\ QuicAccepts(c) => Kind(c[1]) # "none" /\ Busy(c) /\ Spawns(c, TRUE)
  BY Zenon DEF MuxAccepts, QuicAccepts, Busy, Muxed
<1>3. /\ H2Accepts(c) => Kind(c[1]) # "none" /\ Kind(c[1]) \notin Muxed \cup {"quic"} /\ Spawns(c, FALSE)
      /\ Http2Accepts(c) => Kind(c[1]) # "none" /\ Kind(c[1]) \notin Muxed \cup {"quic"} /\ Spawns(c, FALSE)
  BY Zenon DEF H2Accepts, Http2Accepts, Muxed
<1>4. /\ channel_open_direct_tcpip(c) => Kind(c[1]) # "none" /\ Kind(c[1]) \notin Muxed \cup {"quic"} /\ Spawns(c, FALSE)
      /\ ForwardAccepts(c) => Kind(c[1]) # "none" /\ Kind(c[1]) \notin Muxed \cup {"quic"} /\ Spawns(c, FALSE)
  BY Zenon DEF channel_open_direct_tcpip, ForwardAccepts, Muxed, ForwardsSsh
<1>5. CASE MuxAccepts(c) \/ QuicAccepts(c)
  BY <1>5, <1>2, <1>1, Zenon
<1>6. CASE H2Accepts(c) \/ Http2Accepts(c) \/ channel_open_direct_tcpip(c) \/ ForwardAccepts(c)
  BY <1>6, <1>3, <1>4, <1>1, Zenon
<1> QED
  BY <1>5, <1>6, Zenon DEF SpawnStep

-----------------------------------------------------------------------------
(* The shape of the state.                                                 *)

\* A delay stays one of the ten values it can have.
LEMMA DelayTyped == \A d \in Delays : temp_delay(d) \in Delays
  BY DEF Delays, temp_delay

\* The start leads to a state of the right shape.
LEMMA TypedInit == Init => Typed
<1> SUFFICES ASSUME Init PROVE Typed
  BY Zenon
<1>1. setup.errs \in Nat
  BY LifecycleConstants, Zenon DEF Init
<1>2. None \in [of : Nat, at : {"none", "run", "done"}, tracked : BOOLEAN]
  BY Zenon DEF None
<1>3. serve \in [Servers -> Loops] /\ delay \in [Servers -> Delays] /\ task \in [Conns -> Stages]
  BY DEF Init, Loops, Delays, Stages
<1>4. errs \in [Servers -> 0 .. setup.errs]
  BY <1>1 DEF Init
<1>5. stream \in [Streams -> [of : Nat, at : {"none", "run", "done"}, tracked : BOOLEAN]]
  BY <1>2, Zenon DEF Init
<1>6. forward \in [Conns -> {"none", "on", "stopping"}]
  BY Zenon DEF Init
<1>7. opened = [s \in Servers |-> opened[s]]
  BY Zenon DEF Init
<1> QED
  BY <1>3, <1>4, <1>5, <1>6, <1>7, Zenon DEF Typed, Init

\* A step of main keeps the shape.
LEMMA TypedMain == ASSUME Typed, MainStep, setup' = setup PROVE Typed'
<1>1. Servers' = Servers /\ Conns' = Conns /\ Streams' = Streams
  BY SetsKept, Zenon
<1>2. UNCHANGED <<setup, opened, token, delay, errs, task, stream, dead, forward>>
  BY Zenon DEF MainStep, BuildsChain, SpawnsServer, Started, ctrl_c, MainStops, Unstarted
<1>3. serve' \in [Servers -> Loops]
  <2>1. CASE SpawnsServer
    BY <2>1, Zenon DEF SpawnsServer, Typed, Loops
  <2> QED
    BY <2>1, Zenon DEF MainStep, BuildsChain, Started, ctrl_c, MainStops, Typed
<1>4. main' \in {"chain", "starting", "running", "waiting", "stopped", "failed"}
  BY Zenon DEF MainStep, BuildsChain, SpawnsServer, Started, ctrl_c, MainStops, Typed
<1> QED
  BY <1>1, <1>2, <1>3, <1>4, Zenon DEF Typed

\* A step of an accept loop keeps the shape.
LEMMA TypedServer == ASSUME Typed, NEW s \in Servers, ServerStep(s), setup' = setup PROVE Typed'
<1>1. Servers' = Servers /\ Conns' = Conns /\ Streams' = Streams
  BY SetsKept, Zenon
<1>2. setup.errs \in Nat
  BY LifecycleConstants, Zenon DEF Typed
<1>3. UNCHANGED <<setup, stream, forward>> /\ UNCHANGED main
  BY Zenon DEF ServerStep, run_server, Wake, CancelSeen, Drained, DrainTimeout, PassesOn, Accept, AcceptErr, EndpointDies
<1>4. serve' \in [Servers -> Loops]
  <2>1. "accepting" \in Loops /\ "refused" \in Loops /\ "sleeping" \in Loops /\ "draining" \in Loops
        /\ "returned" \in Loops /\ "timedout" \in Loops
    BY Zenon DEF Loops
  <2>2. serve' = serve \/ \E l \in Loops : serve' = [serve EXCEPT ![s] = l]
    BY <2>1, Zenon DEF ServerStep, run_server, Wake, CancelSeen, Drained, DrainTimeout, PassesOn, Accept, AcceptErr, EndpointDies
  <2> QED
    BY <2>2, Zenon DEF Typed
<1>5. token' \subseteq Servers /\ dead' \subseteq Servers
  BY Zenon DEF Typed, ServerStep, run_server, Wake, CancelSeen, Drained, DrainTimeout, PassesOn, Accept, AcceptErr, EndpointDies
<1>6. delay' \in [Servers -> Delays]
  <2>1. 0 \in Delays /\ delay \in [Servers -> Delays] /\ temp_delay(delay[s]) \in Delays
    BY DelayTyped DEF Typed, Delays
  <2> QED
    BY <2>1, Zenon DEF ServerStep, run_server, Wake, CancelSeen, Drained, DrainTimeout, PassesOn, Accept, AcceptErr, EndpointDies
<1>7. errs' \in [Servers -> 0 .. setup.errs]
  <2>1. errs' = errs \/ (errs[s] < setup.errs /\ errs' = [errs EXCEPT ![s] = @ + 1])
    BY Zenon DEF ServerStep, run_server, Wake, CancelSeen, Drained, DrainTimeout, PassesOn, Accept, AcceptErr, EndpointDies
  <2> QED
    BY <1>2, <2>1 DEF Typed
<1>8. task' \in [Conns -> Stages]
  <2>1. FirstStage(Kind(s)) \in Stages
    BY Zenon DEF FirstStage, Stages
  <2>2. task' = task \/ \E c \in Conns : task' = [task EXCEPT ![c] = FirstStage(Kind(s))]
    BY Zenon DEF ServerStep, run_server, Wake, CancelSeen, Drained, DrainTimeout, PassesOn, Accept, AcceptErr, EndpointDies
  <2> QED
    BY <2>1, <2>2, Zenon DEF Typed
<1>9. opened' = [r \in Servers |-> opened'[r]]
  <2>1. opened' = opened \/ \E l : opened' = [opened EXCEPT ![s] = l]
    BY Zenon DEF ServerStep, run_server, Wake, CancelSeen, Drained, DrainTimeout, PassesOn, Accept, AcceptErr, EndpointDies
  <2> QED
    BY <2>1, Zenon DEF Typed
<1> QED
  BY <1>1, <1>3, <1>4, <1>5, <1>6, <1>7, <1>8, <1>9, Zenon DEF Typed

\* A step of a connection's task, of its port or of its streams keeps the shape.
LEMMA TypedConn ==
    ASSUME Typed, ForwardsSsh, setup' = setup, NEW c \in Conns, TaskStep(c) \/ ForwardStep(c) \/ SpawnStep(c)
    PROVE  Typed'
<1>1. Servers' = Servers /\ Conns' = Conns /\ Streams' = Streams
  BY SetsKept, Zenon
<1>2. setup.errs \in Nat /\ setup.conns \in Nat
  BY LifecycleConstants, Zenon DEF Typed
<1>3. CASE TaskStep(c)
  <2>1. task' \in [Conns -> Stages]
    BY <1>3, TaskMoves, Zenon DEF Typed
  <2>2. forward' \in [Conns -> {"none", "on", "stopping"}]
    BY <1>3, TaskMoves, Zenon DEF Typed, SessionDrop, Stopped
  <2>3. UNCHANGED <<setup, opened, main, token, serve, delay, errs, stream, dead>>
    BY <1>3, TaskMoves, Zenon
  <2> QED
    BY <1>1, <2>1, <2>2, <2>3, Zenon DEF Typed
<1>4. CASE ForwardStep(c)
  <2>1. forward' \in [Conns -> {"none", "on", "stopping"}]
    BY <1>4, ForwardMoves, Zenon DEF Typed
  <2>2. errs' \in [Servers -> 0 .. setup.errs]
    BY <1>2, <1>4, ForwardMoves, Owners DEF Typed
  <2>3. UNCHANGED <<setup, opened, main, token, serve, delay, task, stream, dead>>
    BY <1>4, ForwardMoves, Zenon
  <2> QED
    BY <1>1, <2>1, <2>2, <2>3, Zenon DEF Typed
<1>5. CASE SpawnStep(c)
  <2>1. c[2] \in Nat
    BY <1>2 DEF Conns
  <2>2. PICK t \in Streams, tracked \in BOOLEAN :
           stream' = [stream EXCEPT ![t] = [of |-> c[2], at |-> "run", tracked |-> tracked]]
    BY <1>5, SpawnMoves, Zenon
  <2>3. stream' \in [Streams -> [of : Nat, at : {"none", "run", "done"}, tracked : BOOLEAN]]
    BY <2>1, <2>2, Zenon DEF Typed
  <2>4. UNCHANGED <<setup, opened, main, token, serve, delay, errs, task, dead, forward>>
    BY <1>5, SpawnMoves, Zenon
  <2> QED
    BY <1>1, <2>3, <2>4, Zenon DEF Typed
<1> QED
  BY <1>3, <1>4, <1>5, Zenon

\* Every step keeps the shape of the state.
LEMMA TypedNext == ASSUME Typed, ForwardsSsh, Next PROVE Typed'
<1>1. setup' = setup
  BY SetupKept, Zenon
<1>2. ASSUME NEW t \in Streams, StreamReturns(t) PROVE Typed'
  <2>1. stream' \in [Streams -> [of : Nat, at : {"none", "run", "done"}, tracked : BOOLEAN]]
    BY <1>2, Zenon DEF StreamReturns, Typed
  <2>2. UNCHANGED <<setup, opened, main, token, serve, delay, errs, task, dead, forward>>
    BY <1>2, Zenon DEF StreamReturns
  <2>3. Servers' = Servers /\ Conns' = Conns /\ Streams' = Streams
    BY <1>1, SetsKept, Zenon
  <2> QED
    BY <2>1, <2>2, <2>3, Zenon DEF Typed
<1> QED
  BY <1>1, <1>2, StepKinds, TypedMain, TypedServer, TypedConn, Zenon

-----------------------------------------------------------------------------
(* How the accept loops move.                                              *)

Early == {"none", "spawned", "refused"}

\* A set of natural numbers that is not empty has a least element: the next
\* node that start_from_cli looks at.
LEMMA LeastIn ==
    ASSUME NEW T, T \subseteq Nat, T # {}
    PROVE  (CHOOSE n \in T : \A o \in T : n <= o) \in T
<1> DEFINE R == {p \in Nat \X Nat : p[1] < p[2]}
<1>1. IsWellFoundedOn(R, Nat)
  BY NatLessThanWellFounded, Zenon DEF OpToRel
<1>2. \A m, n \in T : <<m, n>> \in R <=> m < n
  BY SMT
<1> HIDE DEF R
<1>3. PICK n \in T : \A m \in T : ~(<<m, n>> \in R)
  BY <1>1, WFMin, Zenon
<1>4. ASSUME NEW m \in T PROVE n <= m
  <2>1. ~(m < n)
    BY <1>2, <1>3, Zenon
  <2>2. m \in Nat /\ n \in Nat
    BY Zenon
  <2> QED
    BY <2>1, <2>2
<1> QED
  BY <1>4, Zenon

\* Only run_server opens a transport, and only for a server without one.
LEMMA OpenedMoves ==
    ASSUME Next
    PROVE  UNCHANGED opened \/ \E s \in Servers : run_server(s)
<1>1. CASE MainStep
  BY <1>1, Zenon DEF MainStep, BuildsChain, SpawnsServer, Started, ctrl_c, MainStops, Unstarted
<1>2. ASSUME NEW s \in Servers, ServerStep(s) PROVE UNCHANGED opened \/ run_server(s)
  BY <1>2, Zenon DEF ServerStep, Wake, CancelSeen, Drained, DrainTimeout, PassesOn, Accept, AcceptErr, EndpointDies
<1>3. ASSUME NEW c \in Conns, TaskStep(c) PROVE UNCHANGED opened
  BY <1>3, TaskMoves, Zenon
<1>4. ASSUME NEW c \in Conns, ForwardStep(c) PROVE UNCHANGED opened
  BY <1>4, ForwardMoves, Zenon
<1>5. ASSUME NEW c \in Conns, SpawnStep(c) PROVE UNCHANGED opened
  BY <1>5, Zenon DEF SpawnStep, MuxAccepts, QuicAccepts, H2Accepts, Http2Accepts, channel_open_direct_tcpip, ForwardAccepts, Spawns
<1>6. ASSUME NEW t \in Streams, StreamReturns(t) PROVE UNCHANGED opened
  BY <1>6, Zenon DEF StreamReturns
<1> QED
  BY StepKinds, <1>1, <1>2, <1>3, <1>4, <1>5, <1>6, Zenon

\* run_server works on a server that is spawned, which has no transport, and
\* leaves everything else alone.
LEMMA ServerOpens ==
    ASSUME Typed, Unopened, NEW s \in Servers, run_server(s)
    PROVE  /\ Kind(s) = "none"
           /\ serve[s] = "spawned"
           /\ (UNCHANGED opened /\ serve' = [serve EXCEPT ![s] = "refused"]) \/ serve' = [serve EXCEPT ![s] = "accepting"]
           /\ \A r \in Servers : r # s => opened'[r] = opened[r]
           /\ UNCHANGED main /\ UNCHANGED <<setup, token, delay, errs, task, stream, dead, forward>>
<1>1. serve[s] = "spawned" /\ UNCHANGED main /\ UNCHANGED <<setup, token, delay, errs, task, stream, dead, forward>>
  BY Zenon DEF run_server
<1>2. Kind(s) = "none"
  BY <1>1, Zenon DEF Unopened
<1>3. (UNCHANGED opened /\ serve' = [serve EXCEPT ![s] = "refused"]) \/ serve' = [serve EXCEPT ![s] = "accepting"]
  BY Zenon DEF run_server
<1>4. UNCHANGED opened \/ \E l : opened' = [opened EXCEPT ![s] = l]
  BY Zenon DEF run_server
<1>5. \A r \in Servers : r # s => opened'[r] = opened[r]
  BY <1>4, Zenon DEF Typed
<1> QED
  BY <1>1, <1>2, <1>3, <1>5, Zenon

\* A transport, once open, stays.
LEMMA KindKept ==
    ASSUME Typed, Unopened, Next, NEW r \in Servers, Kind(r) # "none"
    PROVE  Kind(r)' = Kind(r)
<1>1. CASE UNCHANGED opened
  BY <1>1, Zenon DEF Kind
<1>2. ASSUME NEW s \in Servers, run_server(s) PROVE Kind(r)' = Kind(r)
  <2>1. Kind(s) = "none" /\ \A q \in Servers : q # s => opened'[q] = opened[q]
    BY <1>2, ServerOpens, Zenon
  <2>2. opened'[r] = opened[r]
    BY <2>1, Zenon
  <2> QED
    BY <2>2, Zenon DEF Kind
<1> QED
  BY <1>1, <1>2, OpenedMoves, Zenon

\* A step that is not run_server leaves a server on the side of its accept loop
\* where it was; only a drained one returns, and what has returned stays.
LEMMA ServeMoves ==
    ASSUME Typed, Next, NEW r \in Servers
    PROVE  /\ serve'[r] \in Early => serve[r] \in Early
           /\ serve'[r] = "returned" => serve[r] = "returned" \/ Drained(r)
           /\ serve[r] = "returned" => serve'[r] = "returned"
<1> DEFINE Goal == /\ serve'[r] \in Early => serve[r] \in Early
                   /\ serve'[r] = "returned" => serve[r] = "returned" \/ Drained(r)
                   /\ serve[r] = "returned" => serve'[r] = "returned"
<1> USE DEF Early
<1>1. serve \in [Servers -> Loops]
  BY Zenon DEF Typed
<1>2. CASE UNCHANGED serve
  BY <1>2, Zenon
<1>3. CASE SpawnsServer
  <2>1. NotSpawned # {} /\ NotSpawned \subseteq Nat
    <3>1. Servers \subseteq Nat
      BY LifecycleConstants, Zenon DEF Servers, Typed
    <3> QED
      BY <1>3, <3>1, Zenon DEF SpawnsServer, NotSpawned
  <2> DEFINE s == CHOOSE n \in NotSpawned : \A o \in NotSpawned : n <= o
  <2>2. s \in NotSpawned
    BY <2>1, LeastIn, Zenon
  <2>3. UNCHANGED serve \/ serve' = [serve EXCEPT ![s] = "spawned"]
    BY <1>3, Zenon DEF SpawnsServer
  <2> HIDE DEF s
  <2>4. s \in Servers /\ serve[s] = "none"
    BY <2>2, Zenon DEF NotSpawned
  <2> QED
    BY <1>1, <1>2, <2>3, <2>4, Zenon
<1>4. ASSUME NEW s \in Servers, ServerStep(s) PROVE Goal
  <2>1. CASE run_server(s)
    BY <1>1, <2>1, Zenon DEF run_server
  <2>2. CASE Wake(s)
    BY <1>1, <2>2, Zenon DEF Wake
  <2>3. CASE CancelSeen(s)
    BY <1>1, <2>3, Zenon DEF CancelSeen
  <2>4. CASE Drained(s)
    <3>1. serve[s] = "draining" /\ serve' = [serve EXCEPT ![s] = "returned"]
      BY <2>4, Zenon DEF Drained
    <3>2. CASE r = s
      BY <1>1, <2>4, <3>1, <3>2, Zenon
    <3>3. CASE r # s
      BY <1>1, <3>1, <3>3, Zenon
    <3> QED
      BY <3>2, <3>3, Zenon
  <2>5. CASE DrainTimeout(s)
    BY <1>1, <2>5, Zenon DEF DrainTimeout
  <2>6. CASE AcceptErr(s)
    BY <1>1, <2>6, Zenon DEF AcceptErr
  <2>7. CASE EndpointDies(s)
    BY <1>1, <2>7, Zenon DEF EndpointDies
  <2>8. CASE PassesOn(s) \/ Accept(s)
    BY <2>8, <1>2, Zenon DEF PassesOn, Accept
  <2> QED
    BY <1>4, <2>1, <2>2, <2>3, <2>4, <2>5, <2>6, <2>7, <2>8, Zenon DEF ServerStep
<1>5. CASE MainStep
  BY <1>5, <1>2, <1>3, Zenon DEF MainStep, BuildsChain, Started, ctrl_c, MainStops
<1>6. ASSUME NEW c \in Conns, TaskStep(c) PROVE UNCHANGED serve
  BY <1>6, TaskMoves, Zenon
<1>7. ASSUME NEW c \in Conns, ForwardStep(c) PROVE UNCHANGED serve
  BY <1>7, ForwardMoves, Zenon
<1>8. ASSUME NEW c \in Conns, SpawnStep(c) PROVE UNCHANGED serve
  BY <1>8, Zenon DEF SpawnStep, MuxAccepts, QuicAccepts, H2Accepts, Http2Accepts, channel_open_direct_tcpip, ForwardAccepts, Spawns
<1>9. ASSUME NEW t \in Streams, StreamReturns(t) PROVE UNCHANGED serve
  BY <1>9, Zenon DEF StreamReturns
<1> QED
  BY StepKinds, <1>2, <1>4, <1>5, <1>6, <1>7, <1>8, <1>9, Zenon

-----------------------------------------------------------------------------
(* Draining.                                                               *)

\* A server without an accept loop has no transport, after every step.
LEMMA UnopenedNext == ASSUME Typed, Unopened, Next PROVE Unopened'
<1>1. Servers' = Servers
  BY SetupKept, SetsKept, Zenon
<1>2. SUFFICES ASSUME NEW r \in Servers, serve'[r] \in Early PROVE Kind(r)' = "none"
  BY <1>1, Zenon DEF Unopened, Early
<1>3. serve[r] \in Early /\ Kind(r) = "none"
  BY <1>2, ServeMoves, Zenon DEF Unopened, Early
<1>4. ASSUME NEW s \in Servers, run_server(s) PROVE UNCHANGED opened \/ r # s
  <2>1. UNCHANGED opened \/ serve' = [serve EXCEPT ![s] = "accepting"]
    BY <1>4, ServerOpens, Zenon
  <2> QED
    BY <1>2, <2>1, Zenon DEF Typed, Early
<1>5. opened'[r] = opened[r]
  BY <1>4, OpenedMoves, ServerOpens, Zenon
<1> QED
  BY <1>3, <1>5, Zenon DEF Kind

\* A bound port stays one of an SSH server.
LEMMA ForwardsNext == ASSUME Typed, Unopened, ForwardsSsh, Next PROVE ForwardsSsh'
<1>1. Conns' = Conns
  BY SetupKept, SetsKept, Zenon
<1>2. SUFFICES ASSUME NEW c \in Conns, forward'[c] # "none" PROVE Kind(c[1])' = "ssh"
  BY <1>1, Zenon DEF ForwardsSsh
<1>3. forward[c] # "none" \/ Kind(c[1]) = "ssh"
  <2>1. forward \in [Conns -> {"none", "on", "stopping"}]
    BY Zenon DEF Typed
  <2>2. CASE MainStep
    BY <1>2, <2>2, Zenon DEF MainStep, BuildsChain, SpawnsServer, Started, ctrl_c, MainStops, Unstarted
  <2>3. ASSUME NEW s \in Servers, ServerStep(s) PROVE UNCHANGED forward
    BY <2>3, Zenon DEF ServerStep, run_server, Wake, CancelSeen, Drained, DrainTimeout, PassesOn, Accept, AcceptErr, EndpointDies
  <2>4. ASSUME NEW b \in Conns, TaskStep(b) PROVE forward'[c] # "none" => forward[c] # "none"
    BY <2>1, <2>4, TaskMoves, Zenon DEF SessionDrop, Stopped
  <2>5. ASSUME NEW b \in Conns, ForwardStep(b)
        PROVE  forward'[c] # "none" => forward[c] # "none" \/ Kind(c[1]) = "ssh"
    BY <2>1, <2>5, ForwardMoves, Zenon
  <2>6. ASSUME NEW b \in Conns, SpawnStep(b) PROVE UNCHANGED forward
    BY <2>6, SpawnMoves, Zenon
  <2>7. ASSUME NEW t \in Streams, StreamReturns(t) PROVE UNCHANGED forward
    BY <2>7, Zenon DEF StreamReturns
  <2> QED
    BY <1>2, StepKinds, <2>2, <2>3, <2>4, <2>5, <2>6, <2>7, Zenon
<1>4. Kind(c[1]) = "ssh" /\ c[1] \in Servers
  BY <1>3, Owners, Zenon DEF ForwardsSsh
<1>5. Kind(c[1]) # "none"
  BY <1>4, Zenon
<1> QED
  BY <1>4, <1>5, KindKept, Zenon

\* A running stream is an old one or a new one of a server that has a transport,
\* counted and opened by a busy task where the server waits for its streams.
LEMMA StreamMoves ==
    ASSUME Typed, ForwardsSsh, Next, NEW t \in Streams, stream'[t].at = "run"
    PROVE  \/ stream[t].at = "run" /\ stream'[t].tracked = stream[t].tracked
           \/ /\ Kind(t[1]) # "none"
              /\ (Kind(t[1]) \in Muxed \cup {"quic"} =>
                    stream'[t].tracked /\ \E c \in Conns : c[1] = t[1] /\ Busy(c))
<1>1. stream \in [Streams -> [of : Nat, at : {"none", "run", "done"}, tracked : BOOLEAN]]
  BY Zenon DEF Typed
<1>2. CASE UNCHANGED stream
  BY <1>2, Zenon
<1>3. CASE MainStep
  BY <1>2, <1>3, Zenon DEF MainStep, BuildsChain, SpawnsServer, Started, ctrl_c, MainStops, Unstarted
<1>4. ASSUME NEW s \in Servers, ServerStep(s) PROVE UNCHANGED stream
  BY <1>4, Zenon DEF ServerStep, run_server, Wake, CancelSeen, Drained, DrainTimeout, PassesOn, Accept, AcceptErr, EndpointDies
<1>5. ASSUME NEW c \in Conns, TaskStep(c) PROVE UNCHANGED stream
  BY <1>5, TaskMoves, Zenon
<1>6. ASSUME NEW c \in Conns, ForwardStep(c) PROVE UNCHANGED stream
  BY <1>6, ForwardMoves, Zenon
<1>7. ASSUME NEW c \in Conns, SpawnStep(c)
      PROVE  \/ stream'[t] = stream[t]
             \/ /\ Kind(t[1]) # "none"
                /\ (Kind(t[1]) \in Muxed \cup {"quic"} => stream'[t].tracked /\ c[1] = t[1] /\ Busy(c))
  <2>1. PICK u \in Streams, tracked \in BOOLEAN :
           /\ u[1] = c[1]
           /\ stream' = [stream EXCEPT ![u] = [of |-> c[2], at |-> "run", tracked |-> tracked]]
           /\ (Kind(c[1]) \in Muxed \cup {"quic"} => tracked /\ Busy(c))
    BY <1>7, SpawnMoves, Zenon
  <2>2. Kind(c[1]) # "none"
    BY <1>7, SpawnMoves, Zenon
  <2>3. CASE u = t
    <3>1. stream'[t].tracked = tracked
      BY <1>1, <2>1, <2>3, Zenon
    <3> QED
      BY <2>1, <2>2, <2>3, <3>1, Zenon
  <2>4. CASE u # t
    BY <1>1, <2>1, <2>4, Zenon
  <2> QED
    BY <2>3, <2>4, Zenon
<1>8. ASSUME NEW u \in Streams, StreamReturns(u) PROVE stream'[t] = stream[t]
  BY <1>1, <1>8, Zenon DEF StreamReturns
<1> QED
  BY StepKinds, <1>2, <1>3, <1>4, <1>5, <1>6, <1>7, <1>8, Zenon

\* The streams a server waits for are counted, after every step.
LEMMA StreamsNext == ASSUME Typed, Unopened, ForwardsSsh, StreamsTracked, Next PROVE StreamsTracked'
<1>1. Streams' = Streams
  BY SetupKept, SetsKept, Zenon
<1>2. SUFFICES ASSUME NEW t \in Streams, stream'[t].at = "run"
               PROVE  /\ Kind(t[1])' # "none"
                      /\ (Kind(t[1])' \in Muxed \cup {"quic"} => stream'[t].tracked)
  BY <1>1, Zenon DEF StreamsTracked, Muxed
<1>3. /\ Kind(t[1]) # "none"
      /\ (Kind(t[1]) \in Muxed \cup {"quic"} => stream'[t].tracked)
  BY <1>2, StreamMoves, Zenon DEF StreamsTracked
<1>4. Kind(t[1])' = Kind(t[1])
  BY <1>3, Owners, KindKept, Zenon
<1> QED
  BY <1>3, <1>4, Zenon

\* An endpoint is closed as its server returns, or has died with an error.
LEMMA ClosedNext == ASSUME Typed, Unopened, ClosedLast, Next PROVE ClosedLast'
<1>1. Servers' = Servers
  BY SetupKept, SetsKept, Zenon
<1>2. SUFFICES ASSUME NEW r \in dead', errs'[r] = 0 PROVE serve'[r] = "returned" /\ Kind(r)' = "quic"
  BY Zenon DEF ClosedLast
<1>3. setup.errs \in Nat /\ errs \in [Servers -> 0 .. setup.errs] /\ dead \subseteq Servers
  BY LifecycleConstants, Zenon DEF Typed
<1> DEFINE Sound == \/ r \in dead /\ errs[r] = 0
                    \/ r \in Servers /\ Drained(r) /\ Kind(r) = "quic"
<1>4. ASSUME UNCHANGED <<errs, dead>> PROVE Sound
  BY <1>2, <1>4, Zenon
<1>5. ASSUME MainStep PROVE UNCHANGED <<errs, dead>>
  BY <1>5, Zenon DEF MainStep, BuildsChain, SpawnsServer, Started, ctrl_c, MainStops, Unstarted
<1>6. ASSUME NEW s \in Servers, ServerStep(s) PROVE Sound
  <2>1. CASE AcceptErr(s)
    BY <1>2, <1>3, <2>1 DEF AcceptErr
  <2>2. CASE EndpointDies(s)
    BY <1>2, <1>3, <2>2 DEF EndpointDies
  <2>3. CASE Drained(s)
    <3>1. errs' = errs /\ dead' = IF Kind(s) = "quic" THEN dead \cup {s} ELSE dead
      BY <2>3, Zenon DEF Drained
    <3>2. r \in dead \/ (r = s /\ Kind(s) = "quic")
      BY <1>2, <3>1, Zenon
    <3> QED
      BY <1>2, <2>3, <3>1, <3>2, Zenon
  <2> QED
    BY <1>4, <1>6, <2>1, <2>2, <2>3, Zenon DEF ServerStep, run_server, Wake, CancelSeen, DrainTimeout, PassesOn, Accept
<1>7. ASSUME NEW c \in Conns, TaskStep(c) PROVE UNCHANGED <<errs, dead>>
  BY <1>7, TaskMoves, Zenon
<1>8. ASSUME NEW c \in Conns, ForwardStep(c) PROVE Sound
  <2>1. dead' = dead
    BY <1>8, ForwardMoves, Zenon
  <2>2. errs' = errs \/ (errs[c[1]] < setup.errs /\ errs' = [errs EXCEPT ![c[1]] = @ + 1])
    BY <1>8, ForwardMoves, Zenon
  <2>3. c[1] \in Servers
    BY Owners, Zenon
  <2> QED
    BY <1>2, <1>3, <2>1, <2>2, <2>3
<1>9. ASSUME NEW c \in Conns, SpawnStep(c) PROVE UNCHANGED <<errs, dead>>
  BY <1>9, Zenon DEF SpawnStep, MuxAccepts, QuicAccepts, H2Accepts, Http2Accepts, channel_open_direct_tcpip, ForwardAccepts, Spawns
<1>10. ASSUME NEW t \in Streams, StreamReturns(t) PROVE UNCHANGED <<errs, dead>>
  BY <1>10, Zenon DEF StreamReturns
<1>11. Sound
  BY StepKinds, <1>4, <1>5, <1>6, <1>7, <1>8, <1>9, <1>10, Zenon
<1>12. r \in Servers /\ Kind(r) = "quic"
  BY <1>3, <1>11, Zenon DEF ClosedLast
<1>13. Kind(r)' = "quic"
  <2>1. Kind(r) # "none"
    BY <1>12, Zenon
  <2> QED
    BY <2>1, <1>12, KindKept, Zenon
<1>14. serve'[r] = "returned"
  <2>1. CASE Drained(r)
    BY <1>12, <2>1, Zenon DEF Drained, Typed
  <2>2. CASE r \in dead /\ errs[r] = 0
    BY <1>12, <2>2, ServeMoves, Zenon DEF ClosedLast
  <2> QED
    BY <1>11, <2>1, <2>2, Zenon
<1> QED
  BY <1>13, <1>14, Zenon

\* A task is busy after a step only if it was, or if its server accepts.
LEMMA BusyMoves ==
    ASSUME Typed, Next, NEW c \in Conns, Busy(c)'
    PROVE  Busy(c) \/ serve[c[1]] = "accepting"
<1>1. task \in [Conns -> Stages]
  BY Zenon DEF Typed
<1>2. CASE UNCHANGED task
  BY <1>2, Zenon DEF Busy
<1>3. CASE MainStep
  BY <1>2, <1>3, Zenon DEF MainStep, BuildsChain, SpawnsServer, Started, ctrl_c, MainStops, Unstarted
<1>4. ASSUME NEW s \in Servers, ServerStep(s) PROVE UNCHANGED task \/ Accept(s)
  BY <1>4, Zenon DEF ServerStep, run_server, Wake, CancelSeen, Drained, DrainTimeout, PassesOn, AcceptErr, EndpointDies
<1>5. ASSUME NEW s \in Servers, Accept(s) PROVE Busy(c) \/ serve[c[1]] = "accepting"
  <2>1. PICK b \in Conns : b[1] = s /\ task' = [task EXCEPT ![b] = FirstStage(Kind(s))]
    BY <1>5, Zenon DEF Accept
  <2>2. serve[s] = "accepting"
    BY <1>5, Zenon DEF Accept
  <2>3. b = c \/ task'[c] = task[c]
    BY <1>1, <2>1, Zenon
  <2> QED
    BY <2>1, <2>2, <2>3, Zenon DEF Busy
<1>6. ASSUME NEW b \in Conns, TaskStep(b) PROVE Busy(c)
  <2>1. PICK at \in Stages : /\ task' = [task EXCEPT ![b] = at]
                             /\ (at \in {"shake", "upgrade", "run"} => Busy(b))
    BY <1>6, TaskMoves, Zenon
  <2> QED
    BY <1>1, <2>1, Zenon DEF Busy
<1>7. ASSUME NEW b \in Conns, ForwardStep(b) PROVE UNCHANGED task
  BY <1>7, ForwardMoves, Zenon
<1>8. ASSUME NEW b \in Conns, SpawnStep(b) PROVE UNCHANGED task
  BY <1>8, Zenon DEF SpawnStep, MuxAccepts, QuicAccepts, H2Accepts, Http2Accepts, channel_open_direct_tcpip, ForwardAccepts, Spawns
<1>9. ASSUME NEW t \in Streams, StreamReturns(t) PROVE UNCHANGED task
  BY <1>9, Zenon DEF StreamReturns
<1> QED
  BY StepKinds, <1>2, <1>3, <1>4, <1>5, <1>6, <1>7, <1>8, <1>9, Zenon

\* A server that has returned stays without tasks, and one that returns has
\* none: tracker.wait was over.
LEMMA CompleteNext ==
    ASSUME Typed, Unopened, ForwardsSsh, StreamsTracked, DrainComplete, Next
    PROVE  DrainComplete'
<1>1. Servers' = Servers /\ Conns' = Conns /\ Streams' = Streams
  BY SetupKept, SetsKept, Zenon
<1>2. SUFFICES ASSUME NEW r \in Servers, serve'[r] = "returned"
               PROVE  /\ \A c \in Conns : c[1] = r => ~Busy(c)'
                      /\ Kind(r)' \in Muxed \cup {"quic"} =>
                            \A t \in Streams : t[1] = r => stream'[t].at # "run"
  BY <1>1, Zenon DEF DrainComplete, Muxed
<1>3. serve[r] = "returned" \/ Drained(r)
  BY <1>2, ServeMoves, Zenon
<1>4. serve[r] # "accepting" /\ serve[r] # "spawned"
  BY <1>3, Zenon DEF Drained
<1>5. \A c \in Conns : c[1] = r => ~Busy(c)
  <2>1. CASE Drained(r)
    BY <2>1, Zenon DEF Drained, Tracked
  <2> QED
    BY <1>3, <2>1, Zenon DEF DrainComplete
<1>6. opened'[r] = opened[r]
  <2>1. ASSUME NEW s \in Servers, run_server(s) PROVE opened'[r] = opened[r]
    BY <1>4, <2>1, ServerOpens, Zenon
  <2> QED
    BY <2>1, OpenedMoves, Zenon
<1>7. ASSUME Kind(r) \in Muxed \cup {"quic"}, NEW t \in Streams, t[1] = r PROVE stream[t].at # "run"
  <2>1. CASE Drained(r)
    BY <2>1, <1>7, Zenon DEF Drained, Tracked, StreamsTracked
  <2> QED
    BY <1>3, <1>7, <2>1, Zenon DEF DrainComplete
<1>8. \A c \in Conns : c[1] = r => ~Busy(c)'
  BY <1>4, <1>5, BusyMoves, Zenon
<1>9. ASSUME Kind(r)' \in Muxed \cup {"quic"}, NEW t \in Streams, t[1] = r PROVE stream'[t].at # "run"
  <2>1. Kind(r) \in Muxed \cup {"quic"}
    BY <1>6, <1>9, Zenon DEF Kind
  <2>2. stream[t].at # "run"
    BY <1>7, <1>9, <2>1, Zenon
  <2> QED
    BY <1>5, <1>9, <2>1, <2>2, StreamMoves, Zenon
<1> QED
  BY <1>8, <1>9, Zenon

\* The inductive invariant of draining holds at the start and after every step.
LEMMA DrainInduction ==
    /\ Init => DrainInv
    /\ DrainInv /\ [Next]_vars => DrainInv'
<1>1. Init => DrainInv
  <2> SUFFICES ASSUME Init PROVE DrainInv
    BY Zenon
  <2>1. Typed
    BY TypedInit, Zenon
  <2>2. Unopened
    BY Zenon DEF Init, Unopened, Kind
  <2>3. ForwardsSsh
    BY Zenon DEF Init, ForwardsSsh
  <2>4. \A t \in Streams : stream[t].at = "none"
    BY Zenon DEF Init, None
  <2>5. StreamsTracked
    BY <2>4, Zenon DEF StreamsTracked
  <2>6. ClosedLast
    BY Zenon DEF Init, ClosedLast
  <2>7. DrainComplete
    BY Zenon DEF Init, DrainComplete
  <2> QED
    BY <2>1, <2>2, <2>3, <2>5, <2>6, <2>7, Zenon DEF DrainInv
<1>2. ASSUME DrainInv, Next PROVE DrainInv'
  <2>1. Typed /\ Unopened /\ ForwardsSsh /\ StreamsTracked /\ ClosedLast /\ DrainComplete
    BY <1>2, Zenon DEF DrainInv
  <2> QED
    BY <1>2, <2>1, TypedNext, UnopenedNext, ForwardsNext, StreamsNext, ClosedNext, CompleteNext, Zenon DEF DrainInv
<1>3. ASSUME DrainInv, UNCHANGED vars PROVE DrainInv'
  <2>1. UNCHANGED <<setup, opened, main, token, serve, delay, errs, task, stream, dead, forward>>
    BY <1>3, Zenon DEF vars
  <2>2. Servers' = Servers /\ Conns' = Conns /\ Streams' = Streams
    BY <2>1, SetsKept, Zenon
  <2>3. (\A s : Kind(s)' = Kind(s)) /\ (\A c : Busy(c)' = Busy(c))
    BY <2>1, Zenon DEF Kind, Busy
  <2>4. Typed'
    BY <1>3, <2>1, <2>2, Zenon DEF DrainInv, Typed
  <2>5. Unopened' /\ ForwardsSsh' /\ ClosedLast'
    BY <1>3, <2>1, <2>2, <2>3, Zenon DEF DrainInv, Unopened, ForwardsSsh, ClosedLast
  <2>6. StreamsTracked' /\ DrainComplete'
    BY <1>3, <2>1, <2>2, <2>3, Zenon DEF DrainInv, StreamsTracked, DrainComplete, Muxed
  <2> QED
    BY <2>4, <2>5, <2>6, Zenon DEF DrainInv
<1> QED
  BY <1>1, <1>2, <1>3, Zenon

\* A server that has returned, other than by its drain timeout, has left no
\* handshake, no session loop and no tracked stream behind, and a QUIC server
\* closes its endpoint only when nothing runs on it (server.rs, mux_transport.rs,
\* quic_transport.rs: tracker.close, tracker.wait, endpoint.close), for every
\* command line and any number of connections, streams and errors.
THEOREM ServersDrain == Spec => []DrainSound
<1>1. DrainInv => DrainSound
  <2> SUFFICES ASSUME DrainInv PROVE DrainSound
    BY Zenon
  <2>1. Typed /\ ClosedLast /\ DrainComplete
    BY Zenon DEF DrainInv
  <2>2. TypeOK
    BY <2>1 DEF Typed, TypeOK, Loops, Delays, Stages
  <2>3. EndpointLast
    <3>1. SUFFICES ASSUME NEW s \in dead, errs[s] = 0
                   PROVE  /\ \A c \in Conns : c[1] = s => ~Busy(c)
                          /\ \A t \in Streams : t[1] = s => stream[t].at # "run"
      BY Zenon DEF EndpointLast
    <3>2. s \in Servers
      BY <2>1, Zenon DEF Typed
    <3>3. serve[s] = "returned" /\ Kind(s) = "quic"
      BY <2>1, <3>1, Zenon DEF ClosedLast
    <3>4. Kind(s) \in Muxed \cup {"quic"}
      BY <3>3, Zenon
    <3> QED
      BY <2>1, <3>2, <3>3, <3>4, Zenon DEF DrainComplete
  <2> QED
    BY <2>1, <2>2, <2>3, Zenon DEF DrainSound
<1> QED
  BY <1>1, DrainInduction, PTL DEF Spec

-----------------------------------------------------------------------------
(* Starting.                                                               *)

\* The transport that the words of a scheme name.
Named(w) == IF w[1] = "forward" /\ Carrier(w[Len(w)]) = "tcp" THEN "ssh" ELSE Carrier(w[Len(w)])

\* The listener that run_server picks behind a chain.
Picks(w, hops) == listener(parse(w), hops = <<>>)

\* What the gate and the dispatch of run_server make of a scheme: a listener
\* over the transport the scheme names, or none.
LEMMA ServedOver ==
    ASSUME NEW w, Len(w) \in {1, 2}, w[Len(w)] \in Transports, NEW hops,
           ensure_listener_transport_supported(parse(w)),
           Picks(w, hops).by # "none"
    PROVE  Picks(w, hops).over = Named(w)
<1> USE DEF Picks
<1> DEFINE t == w[Len(w)]
           n == parse(w)
<1>1. n.transport = t
  BY Zenon DEF parse, normalize_transport, Transports
<1>2. n.protocol = "forward" <=> w[1] = "forward"
  BY Zenon DEF parse, normalize_protocol, Protocols
<1>3. n.transport = "ssh" => n.protocol = "forward"
  BY Zenon DEF ensure_listener_transport_supported, ssh_listener_support
<1>4. n.transport = "ssh" \/ n.transport \in SupportedListeners
  BY Zenon DEF ensure_listener_transport_supported
<1>5. ASSUME NEW m, m.transport \in SupportedListeners \cup {"ssh"}, listener(m, hops = <<>>).by # "none"
      PROVE  listener(m, hops = <<>>).over = IF m.transport \in {"tcp", "ssh", "rtcp", "dns", "redu"}
                                   THEN IF m.protocol = "forward" THEN "ssh" ELSE "tcp"
                                   ELSE Carrier(m.transport)
  BY <1>5, Zenon DEF listener, Carrier, SupportedListeners
<1>6. listener(n, hops = <<>>).over = IF n.transport \in {"tcp", "ssh", "rtcp", "dns", "redu"}
                            THEN IF n.protocol = "forward" THEN "ssh" ELSE "tcp"
                            ELSE Carrier(n.transport)
  BY <1>4, <1>5, Zenon
<1> HIDE DEF n, t
<1>7. Carrier(t) = "tcp" <=> t \in {"tcp", "rtcp", "dns", "redu"}
  BY Zenon DEF Carrier
<1>8. Carrier("ssh") = "ssh"
  BY Zenon DEF Carrier
<1> QED
  <2>1. CASE t \in {"tcp", "rtcp", "dns", "redu"}
    BY <1>1, <1>2, <1>6, <1>7, <2>1, Zenon DEF n, t, Named
  <2>2. CASE t \notin {"tcp", "rtcp", "dns", "redu"}
    BY <1>1, <1>2, <1>3, <1>6, <1>7, <1>8, <2>2, Zenon DEF n, t, Named
  <2> QED
    BY <2>1, <2>2, Zenon

\* A served listener stays one that passed the gate and the dispatch.
LEMMA WiredNext == ASSUME Typed, Wired, Next PROVE Wired'
<1>1. setup' = setup /\ Servers' = Servers
  BY SetupKept, SetsKept, Zenon
<1>2. CASE UNCHANGED opened
  BY <1>1, <1>2, Zenon DEF Wired, Kind
<1>3. ASSUME NEW s \in Servers, run_server(s) PROVE Wired'
  <2> DEFINE n == parse(setup.listen[s].words)
             l == listener(n, setup.hops = <<>>)
  <2>1. CASE UNCHANGED opened
    BY <1>2, <2>1, Zenon
  <2>2. CASE ~UNCHANGED opened
    <3>1. /\ ensure_listener_transport_supported(n)
          /\ opened' = [opened EXCEPT ![s] = [by |-> l.by, over |-> l.over,
                                              runs |-> handler(n, setup.listen[s].remote)]]
      BY <1>3, <2>2, Zenon DEF run_server
    <3> HIDE DEF l
    <3>2. opened'[s].by = l.by /\ opened'[s].over = l.over
      BY <3>1, Zenon DEF Typed
    <3>3. \A r \in Servers : r # s => opened'[r] = opened[r]
      BY <3>1, Zenon DEF Typed
    <3>4. SUFFICES ASSUME NEW r \in Servers, opened'[r].by # "none"
                   PROVE  LET m == parse(setup.listen[r].words)
                          IN /\ ensure_listener_transport_supported(m)
                             /\ opened'[r].by = listener(m, setup.hops = <<>>).by
                             /\ opened'[r].over = listener(m, setup.hops = <<>>).over
      BY <1>1, Zenon DEF Wired, Kind
    <3>5. CASE r = s
      BY <3>1, <3>2, <3>5, Zenon DEF l
    <3>6. CASE r # s
      BY <3>3, <3>4, <3>6, Zenon DEF Wired, Kind
    <3> QED
      BY <3>5, <3>6, Zenon
  <2> QED
    BY <2>1, <2>2, Zenon
<1> QED
  BY <1>2, <1>3, OpenedMoves, Zenon

\* A chain stays one that passed its gate.
LEMMA ChainNext == ASSUME ChainChecked, Next PROVE ChainChecked'
<1>1. setup' = setup
  BY SetupKept, Zenon
<1>2. CASE UNCHANGED main
  BY <1>1, <1>2, Zenon DEF ChainChecked
<1>3. CASE MainStep
  <2>1. CASE BuildsChain
    BY <1>1, <2>1, Zenon DEF BuildsChain, ChainChecked
  <2>2. CASE SpawnsServer
    <3>1. UNCHANGED main \/ main' = "failed"
      BY <2>2, Zenon DEF SpawnsServer
    <3>2. main' = "failed" => ChainChecked'
      BY Zenon DEF ChainChecked
    <3> QED
      BY <1>2, <3>1, <3>2, Zenon
  <2>3. CASE Started \/ ctrl_c \/ MainStops
    <3>1. main' # "starting"
      BY <2>3, Zenon DEF Started, ctrl_c, MainStops
    <3> QED
      BY <3>1, Zenon DEF ChainChecked
  <2> QED
    BY <1>3, <2>1, <2>2, <2>3, Zenon DEF MainStep
<1>4. ASSUME NEW s \in Servers, ServerStep(s) PROVE UNCHANGED main
  BY <1>4, Zenon DEF ServerStep, run_server, Wake, CancelSeen, Drained, DrainTimeout, PassesOn, Accept, AcceptErr, EndpointDies
<1>5. ASSUME NEW c \in Conns, TaskStep(c) \/ ForwardStep(c) PROVE UNCHANGED main
  BY <1>5, TaskMoves, ForwardMoves, Zenon
<1>6. ASSUME NEW c \in Conns, SpawnStep(c) PROVE UNCHANGED main
  BY <1>6, Zenon DEF SpawnStep, MuxAccepts, QuicAccepts, H2Accepts, Http2Accepts, channel_open_direct_tcpip, ForwardAccepts, Spawns
<1>7. ASSUME NEW t \in Streams, StreamReturns(t) PROVE UNCHANGED main
  BY <1>7, Zenon DEF StreamReturns
<1> QED
  BY StepKinds, <1>2, <1>3, <1>4, <1>5, <1>6, <1>7, Zenon

\* The invariant of starting rests on the one of draining for the shape of the
\* state, and implies that nothing falls back.
LEMMA StartInduction ==
    /\ Init => DrainInv /\ Wired /\ ChainChecked
    /\ DrainInv /\ Wired /\ ChainChecked /\ [Next]_vars => (DrainInv /\ Wired /\ ChainChecked)'
    /\ DrainInv /\ Wired /\ ChainChecked => NoFallback
<1>1. Init => DrainInv /\ Wired /\ ChainChecked
  <2> SUFFICES ASSUME Init PROVE Wired /\ ChainChecked
    BY DrainInduction, Zenon
  <2>1. \A s \in Servers : opened[s].by = "none"
    BY Zenon DEF Init
  <2>2. ChainChecked
    BY Zenon DEF Init, ChainChecked
  <2> QED
    BY <2>1, <2>2, Zenon DEF Wired
<1>2. ASSUME DrainInv, Wired, ChainChecked, Next PROVE (DrainInv /\ Wired /\ ChainChecked)'
  BY <1>2, DrainInduction, WiredNext, ChainNext, Zenon DEF DrainInv
<1>3. ASSUME DrainInv, Wired, ChainChecked, UNCHANGED vars PROVE (DrainInv /\ Wired /\ ChainChecked)'
  <2>1. DrainInv'
    BY <1>3, DrainInduction, Zenon
  <2>2. setup' = setup /\ opened' = opened /\ main' = main
    BY <1>3, Zenon DEF vars
  <2>3. Wired' /\ ChainChecked'
    BY <1>3, <2>2, Zenon DEF Wired, ChainChecked, Kind, Servers
  <2> QED
    BY <2>1, <2>3, Zenon
<1>4. ASSUME DrainInv, Wired, ChainChecked PROVE NoFallback
  <2>1. setup \in Setups
    BY <1>4, Zenon DEF DrainInv, Typed
  <2>2. ASSUME NEW s \in Servers, opened[s].by # "none",
               setup.listen[s].words[Len(setup.listen[s].words)] \in Transports
        PROVE  LET w == setup.listen[s].words
                   t == w[Len(w)]
               IN Kind(s) = IF w[1] = "forward" /\ Carrier(t) = "tcp" THEN "ssh" ELSE Carrier(t)
    <3> DEFINE w == setup.listen[s].words
    <3>1. Len(w) \in {1, 2}
      BY <2>1, LifecycleConstants, Zenon DEF Servers
    <3>2. /\ ensure_listener_transport_supported(parse(w))
          /\ Picks(w, setup.hops).by # "none"
          /\ Kind(s) = Picks(w, setup.hops).over
      BY <1>4, <2>2, Zenon DEF Wired, Picks
    <3>3. w[Len(w)] \in Transports
      BY <2>2, Zenon
    <3> HIDE DEF w
    <3>4. Kind(s) = Named(w)
      BY <3>1, <3>2, <3>3, ServedOver
    <3> QED
      BY <3>4, Zenon DEF w, Named
  <2>3. ASSUME main = "starting", NEW i \in DOMAIN setup.hops
        PROVE  LET n == parse(setup.hops[i])
               IN n.transport \in SupportedHops \/ (n.transport = "ssh" /\ n.protocol \in {"direct", "remote", "forward"})
    BY <1>4, <2>3, Zenon DEF ChainChecked, ensure_chain_transport_supported, ssh_chain_support
  <2> QED
    BY <2>2, <2>3, Zenon DEF NoFallback
<1> QED
  BY <1>1, <1>2, <1>3, <1>4, Zenon

\* A listener is served over the transport its scheme names or not at all, and
\* a chain is built only of hops whose transport is implemented: for every
\* scheme, known or not, the way through Node::parse, the two gates and the
\* dispatch of run_server (node.rs, main.rs) never ends in plain TCP instead.
THEOREM SchemesHonoured == Spec => []NoFallback
  BY StartInduction, PTL DEF Spec

=============================================================================
