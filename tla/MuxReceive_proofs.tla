--------------------------- MODULE MuxReceive_proofs ---------------------------
(***************************************************************************)
(* The receive side of a session, for any set of streams and any limits:   *)
(* types, the floor of the credit bucket, what becomes of the streams and  *)
(* of those who read them, and the account of receive credit.              *)
(***************************************************************************)
EXTENDS MuxReceive, TLAPS, FiniteSetTheorems, WellFoundedInduction

\* A group of variables a step leaves alone keeps its type.
LEMMA UnchangedTyped ==
  ASSUME TypeOK
  PROVE  /\ UNCHANGED creditVars => CreditTyped'
         /\ UNCHANGED streamVars => StreamsTyped'
         /\ UNCHANGED readerVars => ReaderTyped'
         /\ UNCHANGED failVars => FailTyped'
         /\ UNCHANGED aliveVars => AliveTyped'
         /\ UNCHANGED acceptVars => AcceptTyped'
BY DEF TypeOK, CreditTyped, StreamsTyped, ReaderTyped, FailTyped, AliveTyped, AcceptTyped,
       creditVars, streamVars, readerVars, failVars, aliveVars, acceptVars

\* fail keeps the types of what it writes.
LEMMA FailKeepsType ==
  ASSUME FailTyped, NEW task \in {"reader", "keepalive", "app"},
         NEW err \in {"transport", "protocol", "timeout", "closed"}, Fail(task, err)
  PROVE  FailTyped'
<1>1. CASE closed
  BY <1>1, Zenon DEF Fail, FailTyped, failVars
<1>2. CASE ~closed
  <2>1. <<task, "queue">> \in {"nobody", "reader", "keepalive", "app"} \X
                              {"queue", "drain", "kill", "done"}
    BY Zenon
  <2> QED
    BY <1>2, <2>1, Zenon DEF Fail, FailTyped
<1> QED
  BY <1>1, <1>2, Zenon

\* The reader's own steps.
LEMMA ReaderStepTyped == TypeOK /\ ReaderStep => TypeOK'
<1> SUFFICES ASSUME TypeOK, ReaderStep PROVE TypeOK'
  BY Zenon
<1> USE UnchangedTyped
<1>1. CASE ReadGate
  <2>1. ReaderTyped'
    BY <1>1, Zenon DEF ReadGate, TypeOK, ReaderTyped, Goto
  <2> QED
    BY <1>1, <2>1, Zenon DEF ReadGate, TypeOK
<1>2. CASE CheckBeforeWait \/ CheckAfterWait \/ ReaderReturns
  <2>1. ReaderTyped'
    BY <1>2, Zenon DEF CheckBeforeWait, CheckAfterWait, ReaderReturns, TypeOK, ReaderTyped, Goto
  <2> QED
    BY <1>2, <2>1, Zenon DEF CheckBeforeWait, CheckAfterWait, ReaderReturns, TypeOK
<1>3. CASE Notified
  <2>1. ReaderTyped' /\ CreditTyped'
    BY <1>3, Zenon DEF Notified, TypeOK, ReaderTyped, CreditTyped, Goto
  <2> QED
    BY <1>3, <2>1, Zenon DEF Notified, TypeOK
<1>4. CASE spend_tokens
  <2>1. ReaderTyped' /\ CreditTyped'
    BY <1>4, ReceiveConstants DEF spend_tokens, TypeOK, ReaderTyped, CreditTyped, Goto
  <2> QED
    BY <1>4, <2>1, Zenon DEF spend_tokens, TypeOK
<1>5. CASE push_bytes
  <2>1. ReaderTyped'
    BY <1>5, Zenon DEF push_bytes, TypeOK, ReaderTyped, Goto, NextFrame
  <2>2. cur.sid \in Sids /\ cur.len \in Nat
    BY <1>5, ReceiveConstants DEF push_bytes, TypeOK, ReaderTyped
  <2>3. StreamsTyped'
    BY <1>5, <2>2 DEF push_bytes, TypeOK, StreamsTyped
  <2> QED
    BY <1>5, <2>1, <2>3, Zenon DEF push_bytes, TypeOK
<1>6. CASE deliver_accept \/ ReaderAborted
  <2>1. rpc \in {"deliver", "full", "sleep"} => cur.sid \in Sids
    BY Zenon DEF TypeOK, ReaderTyped
  <2>2. ReaderTyped'
    BY <1>6, Zenon DEF deliver_accept, ReaderAborted, GiveUp, TypeOK, ReaderTyped, Goto, NextFrame
  <2>3. handle' \in [Sids -> Handles]
    BY <1>6, <2>1, Zenon DEF deliver_accept, ReaderAborted, GiveUp, TypeOK, StreamsTyped, Handles
  <2>4. StreamsTyped'
    BY <1>6, <2>3, Zenon DEF deliver_accept, ReaderAborted, TypeOK, StreamsTyped
  <2>5. AcceptTyped'
    BY <1>6, <2>1 DEF deliver_accept, ReaderAborted, GiveUp, TypeOK, AcceptTyped
  <2> QED
    BY <1>6, <2>2, <2>4, <2>5, Zenon DEF deliver_accept, ReaderAborted, TypeOK
<1> QED
  BY <1>1, <1>2, <1>3, <1>4, <1>5, <1>6, Zenon DEF ReaderStep

\* A frame or the end of the transport arrives.
LEMMA ReceiveStepTyped == TypeOK /\ Receive => TypeOK'
<1> SUFFICES ASSUME TypeOK, Receive PROVE TypeOK'
  BY Zenon
<1> USE UnchangedTyped
<1>0. ASSUME HeaderRead PROVE AliveTyped' /\ CreditTyped' /\ AcceptTyped' /\ frames' \in Nat
  BY <1>0 DEF HeaderRead, TypeOK, AliveTyped, ReaderTyped
<1>1. CASE OnNop
  <2>1. ReaderTyped'
    BY <1>0, <1>1, Zenon DEF OnNop, HeaderRead, TypeOK, ReaderTyped, Goto
  <2> QED
    BY <1>0, <1>1, <2>1, Zenon DEF OnNop, HeaderRead, TypeOK, streamVars
<1>2. CASE OnInvalid
  <2>1. ReaderTyped'
    BY <1>0, <1>2, Zenon DEF OnInvalid, HeaderRead, TypeOK, ReaderTyped, Goto
  <2>2. FailTyped'
    BY <1>2, FailKeepsType, Zenon DEF OnInvalid, TypeOK
  <2> QED
    BY <1>0, <1>2, <2>1, <2>2, Zenon DEF OnInvalid, HeaderRead, TypeOK, streamVars
<1>3. CASE ReadError
  <2>1. ReaderTyped'
    BY <1>3, Zenon DEF ReadError, TypeOK, ReaderTyped, Goto
  <2>2. FailTyped'
    BY <1>3, FailKeepsType, Zenon DEF ReadError, TypeOK
  <2> QED
    BY <1>3, <2>1, <2>2, Zenon DEF ReadError, TypeOK
<1>4. CASE UpdRead \/ PayloadRead
  <2>1. ReaderTyped'
    BY <1>4, Zenon DEF UpdRead, PayloadRead, TypeOK, ReaderTyped, Goto, NextFrame
  <2> QED
    BY <1>4, <2>1, Zenon DEF UpdRead, PayloadRead, TypeOK
<1>5. ASSUME NEW s \in PeerSids, OnSyn(s) PROVE TypeOK'
  <2>1. s \in Sids /\ cur'.sid = s /\ cur'.len = 0
    BY <1>5, Zenon DEF OnSyn, Sids
  <2>2. ReaderTyped'
    BY <1>0, <1>5, <2>1, ReceiveConstants DEF OnSyn, HeaderRead, TypeOK, ReaderTyped, Goto
  <2>3. StreamsTyped'
    BY <1>5, <2>1, Zenon DEF OnSyn, HeaderRead, TypeOK, StreamsTyped, Handles
  <2> QED
    BY <1>0, <1>5, <2>2, <2>3, Zenon DEF OnSyn, HeaderRead, TypeOK
<1>6. ASSUME NEW s \in Sids, set_fin(s) PROVE TypeOK'
  <2>1. ReaderTyped'
    BY <1>0, <1>6, Zenon DEF set_fin, HeaderRead, TypeOK, ReaderTyped, Goto
  <2>2. fin' \in [Sids -> BOOLEAN]
    BY <1>6, Zenon DEF set_fin, TypeOK, StreamsTyped
  <2>3. StreamsTyped'
    BY <1>6, <2>2, Zenon DEF set_fin, HeaderRead, TypeOK, StreamsTyped
  <2> QED
    BY <1>0, <1>6, <2>1, <2>3, Zenon DEF set_fin, HeaderRead, TypeOK
<1>7. ASSUME NEW s \in Sids, OnPsh(s) PROVE TypeOK'
  <2>1. PICK n \in 0..MaxLen :
             IF n = 0 THEN Goto("gate") /\ UNCHANGED cur
             ELSE Goto("payload") /\ cur' = [cmd |-> "PSH", sid |-> s, len |-> n]
    BY <1>7, Zenon DEF OnPsh
  <2>2. ReaderTyped'
    BY <1>0, <1>7, <2>1 DEF OnPsh, HeaderRead, TypeOK, ReaderTyped, Goto
  <2> QED
    BY <1>0, <1>7, <2>2, Zenon DEF OnPsh, HeaderRead, TypeOK, streamVars
<1> QED
  BY <1>1, <1>2, <1>3, <1>4, <1>5, <1>6, <1>7, Zenon DEF Receive

\* The steps of fail.
LEMMA FailStepTyped == TypeOK /\ FailStep => TypeOK'
<1> SUFFICES ASSUME TypeOK, FailStep PROVE TypeOK'
  BY Zenon
<1> USE UnchangedTyped
<1>0. ASSUME NEW st \in {"drain", "kill", "done"}
      PROVE  <<failing[1], st>> \in {"nobody", "reader", "keepalive", "app"} \X
                                    {"queue", "drain", "kill", "done"}
  BY Zenon DEF TypeOK, FailTyped
<1>1. CASE CloseQueue
  <2>1. FailTyped'
    BY <1>0, <1>1, Zenon DEF CloseQueue, TypeOK, FailTyped
  <2> QED
    BY <1>1, <2>1, Zenon DEF CloseQueue, TypeOK
<1>2. CASE DrainStreams
  <2>1. FailTyped'
    BY <1>0, <1>2, Zenon DEF DrainStreams, TypeOK, FailTyped, StreamsTyped
  <2>2. StreamsTyped'
    BY <1>2, Zenon DEF DrainStreams, TypeOK, StreamsTyped
  <2> QED
    BY <1>2, <2>1, <2>2, Zenon DEF DrainStreams, TypeOK
<1>3. ASSUME NEW s \in Sids, set_dead(s) PROVE TypeOK'
  <2>1. FailTyped'
    BY <1>3, Zenon DEF set_dead, TypeOK, FailTyped
  <2>2. dead' \in [Sids -> BOOLEAN]
    BY <1>3, Zenon DEF set_dead, TypeOK, StreamsTyped
  <2>3. StreamsTyped'
    BY <1>3, <2>2, Zenon DEF set_dead, TypeOK, StreamsTyped
  <2> QED
    BY <1>3, <2>1, <2>3, Zenon DEF set_dead, TypeOK
<1>4. CASE NotifyReader
  <2>1. aborted' \in BOOLEAN
    BY <1>4, Zenon DEF NotifyReader
  <2>2. FailTyped'
    BY <1>0, <1>4, <2>1, Zenon DEF NotifyReader, TypeOK, FailTyped
  <2>3. CreditTyped'
    BY <1>4, Zenon DEF NotifyReader, TypeOK, CreditTyped
  <2> QED
    BY <1>4, <2>2, <2>3, Zenon DEF NotifyReader, TypeOK
<1> QED
  BY <1>1, <1>2, <1>3, <1>4, Zenon DEF FailStep

\* The keepalive task.
LEMMA KeepaliveTyped == TypeOK /\ Keepalive => TypeOK'
<1> SUFFICES ASSUME TypeOK, Keepalive PROVE TypeOK'
  BY Zenon
<1> USE UnchangedTyped
<1>1. CASE Ping \/ KeepaliveLoops
  <2>1. AliveTyped' /\ CreditTyped'
    BY <1>1, Zenon DEF Ping, KeepaliveLoops, TypeOK, AliveTyped, CreditTyped, creditVars
  <2> QED
    BY <1>1, <2>1, Zenon DEF Ping, KeepaliveLoops, TypeOK
<1>2. CASE Deadline
  <2>1. AliveTyped'
    BY <1>2, Zenon DEF Deadline, TypeOK, AliveTyped
  <2> QED
    BY <1>2, <2>1, Zenon DEF Deadline, TypeOK
<1>3. CASE Expired
  <2>1. AliveTyped'
    BY <1>3, Zenon DEF Expired, TypeOK, AliveTyped
  <2>2. FailTyped'
    BY <1>3, FailKeepsType, Zenon DEF Expired, TypeOK
  <2> QED
    BY <1>3, <2>1, <2>2, Zenon DEF Expired, TypeOK
<1> QED
  BY <1>1, <1>2, <1>3, Zenon DEF Keepalive

\* The application's calls.
LEMMA ApplicationTyped == TypeOK /\ Application => TypeOK'
<1> SUFFICES ASSUME TypeOK, Application PROVE TypeOK'
  BY Zenon
<1> USE UnchangedTyped
<1>1. ASSUME NEW s \in Sids, OpenCheck(s) \/ OpenInsert(s) \/ OpenPush(s) PROVE TypeOK'
  <2>1. StreamsTyped'
    BY <1>1, Zenon DEF OpenCheck, OpenInsert, OpenPush, Holds, TypeOK, StreamsTyped, Handles
  <2> QED
    BY <1>1, <2>1, Zenon DEF OpenCheck, OpenInsert, OpenPush, TypeOK
<1>2. ASSUME NEW s \in Sids, poll_read(s) PROVE TypeOK'
  <2>1. CASE TakeBytes(s)
    <3>1. buffered' \in [Sids -> Nat] /\ owed' \in [Sids -> Nat]
      BY <2>1 DEF TakeBytes, TypeOK, StreamsTyped
    <3> QED
      BY <1>2, <2>1, <3>1, Zenon DEF poll_read, TakeBytes, TypeOK, StreamsTyped
  <2>2. CASE parked' = parked \cup {s} /\ UNCHANGED <<buffered, owed>>
    BY <1>2, <2>2, Zenon DEF poll_read, TypeOK, StreamsTyped
  <2> QED
    BY <1>2, <2>1, <2>2, Zenon DEF poll_read
<1>3. ASSUME NEW s \in Sids, Refund(s) PROVE TypeOK'
  <2>1. bucket' \in Int
    BY <1>3 DEF Refund, return_tokens, TypeOK, StreamsTyped, CreditTyped
  <2>2. bucket_notify' \in BOOLEAN
    BY <1>3, Zenon DEF Refund, return_tokens
  <2>3. StreamsTyped'
    BY <1>3, Zenon DEF Refund, Holds, TypeOK, StreamsTyped, Handles
  <2> QED
    BY <1>3, <2>1, <2>2, <2>3, Zenon DEF Refund, TypeOK, CreditTyped
<1>4. ASSUME NEW s \in Sids, DropStream(s) \/ remove_stream(s) \/ recycle(s) PROVE TypeOK'
  <2>1. StreamsTyped'
    BY <1>4 DEF DropStream, remove_stream, recycle, Holds, TypeOK, StreamsTyped, Handles
  <2> QED
    BY <1>4, <2>1, Zenon DEF DropStream, remove_stream, recycle, TypeOK
<1>5. CASE accept_stream
  <2>1. Head(accept) \in Sids /\ Tail(accept) \in Seq(Sids)
    BY <1>5 DEF accept_stream, TypeOK, AcceptTyped
  <2>2. StreamsTyped' /\ AcceptTyped'
    BY <1>5, <2>1, Zenon DEF accept_stream, Holds, TypeOK, StreamsTyped, AcceptTyped, Handles
  <2> QED
    BY <1>5, <2>2, Zenon DEF accept_stream, TypeOK
<1>6. CASE CloseSession
  <2>1. FailTyped'
    <3>1. CASE Fail("app", "closed")
      BY <3>1, FailKeepsType, Zenon DEF TypeOK
    <3>2. CASE aborted' = TRUE /\ UNCHANGED <<closed, error, queue_closed, failing, dying>>
      BY <3>2, Zenon DEF TypeOK, FailTyped
    <3> QED
      BY <1>6, <3>1, <3>2, Zenon DEF CloseSession
  <2> QED
    BY <1>6, <2>1, Zenon DEF CloseSession, TypeOK
<1>7. CASE DropSession
  <2>1. <<>> \in Seq(Sids)
    OBVIOUS
  <2>2. AcceptTyped' /\ StreamsTyped'
    BY <1>7, <2>1, Zenon DEF DropSession, TypeOK, StreamsTyped, AcceptTyped, Handles
  <2> QED
    BY <1>7, <2>2, Zenon DEF DropSession, TypeOK
<1> QED
  BY <1>1, <1>2, <1>3, <1>4, <1>5, <1>6, <1>7, Zenon DEF Application, Finish, Sids

\* Every variable keeps its type: in particular buffered and owed stay natural
\* numbers, so the subtraction from buffered in poll_read never underflows.
THEOREM ReceiveTyped == Spec => []TypeOK
<1>1. Init => TypeOK
  <2> SUFFICES ASSUME Init PROVE TypeOK
    BY Zenon
  <2>0. bucket = MaxBuf /\ bucket_notify = FALSE /\ rpc = "gate" /\ frames = 0 /\ lost = {}
    BY Zenon DEF Init
  <2>1. CreditTyped /\ ReaderTyped
    <3>1. MaxBuf \in Int
      BY ReceiveConstants
    <3> QED
      BY <2>0, <3>1, Zenon DEF CreditTyped, ReaderTyped
  <2>2. fin \in [Sids -> BOOLEAN] /\ dead \in [Sids -> BOOLEAN]
    BY Zenon DEF Init
  <2>3. StreamsTyped
    BY <2>2, Zenon DEF Init, StreamsTyped, Handles
  <2>4. <<"nobody", "done">> \in {"nobody", "reader", "keepalive", "app"} \X
                                 {"queue", "drain", "kill", "done"}
    BY Zenon
  <2>5. FailTyped
    BY <2>4, Zenon DEF Init, FailTyped
  <2>6. <<>> \in Seq(Sids)
    OBVIOUS
  <2>7. AliveTyped /\ AcceptTyped
    BY <2>6, Zenon DEF Init, AliveTyped, AcceptTyped
  <2> QED
    BY <2>1, <2>3, <2>5, <2>7, Zenon DEF TypeOK
<1>2. TypeOK /\ UNCHANGED vars => TypeOK'
  BY UnchangedTyped, Zenon DEF vars, TypeOK
<1> QED
  BY <1>1, <1>2, ReaderStepTyped, ReceiveStepTyped, FailStepTyped, KeepaliveTyped,
     ApplicationTyped, PTL DEF Spec, Next

\* The credit never falls a whole payload below zero, and is positive whenever
\* the reader is on its way to spending it: nobody but the reader spends.
THEOREM CreditFloor == Spec => []BucketFloor
<1>1. Init => BucketFloor
  BY ReceiveConstants DEF Init, BucketFloor
<1>2. TypeOK /\ BucketFloor /\ [Next]_vars => BucketFloor'
  <2> SUFFICES ASSUME TypeOK, BucketFloor, [Next]_vars PROVE BucketFloor'
    BY Zenon
  <2>0. bucket \in Int /\ MaxLen \in Nat
    BY ReceiveConstants, Zenon DEF TypeOK, CreditTyped
  <2>1. CASE UNCHANGED <<bucket, rpc>>
    BY <2>1, Zenon DEF BucketFloor
  <2>2. CASE ReaderStep
    <3>1. CASE spend_tokens
      <4>1. cur.len \in 0..MaxLen
        BY <3>1, Zenon DEF spend_tokens, TypeOK, ReaderTyped
      <4> QED
        BY <2>0, <3>1, <4>1 DEF spend_tokens, BucketFloor, Goto
    <3>2. CASE ReadGate
      BY <3>2, Zenon DEF ReadGate, BucketFloor, Goto, creditVars
    <3>3. CASE ~spend_tokens /\ ~ReadGate
      BY <2>2, <3>3, Zenon DEF ReaderStep, CheckBeforeWait, Notified, CheckAfterWait, push_bytes,
         deliver_accept, GiveUp, ReaderReturns, ReaderAborted, NextFrame, Goto, BucketFloor,
         creditVars
    <3> QED
      BY <3>1, <3>2, <3>3, Zenon
  <2>3. CASE Receive
    BY <2>3, Zenon DEF Receive, OnNop, OnInvalid, ReadError, UpdRead, PayloadRead, OnSyn, set_fin, OnPsh,
       HeaderRead, NextFrame, Goto, BucketFloor, creditVars
  <2>4. CASE FailStep \/ Keepalive
    BY <2>1, <2>4, Zenon DEF FailStep, CloseQueue, DrainStreams, set_dead, NotifyReader, Keepalive, Ping,
       Deadline, Expired, KeepaliveLoops, creditVars, readerVars
  <2>5. CASE Application
    <3>1. ASSUME NEW s \in Sids, Refund(s) PROVE BucketFloor'
      <4>1. bucket' \in Int /\ bucket' >= bucket /\ rpc' = rpc
        BY <2>0, <3>1, SMTT(20) DEF Refund, return_tokens, TypeOK, StreamsTyped, readerVars
      <4> QED
        BY <2>0, <4>1 DEF BucketFloor
    <3>2. CASE ~\E s \in Sids : Refund(s)
      BY <2>1, <2>5, <3>2, Zenon DEF Application, Finish, OpenCheck, OpenInsert, OpenPush, poll_read,
         DropStream, remove_stream, recycle, accept_stream, CloseSession, DropSession, Sids,
         creditVars, readerVars
    <3> QED
      BY <3>1, <3>2, Zenon
  <2>6. CASE UNCHANGED vars
    BY <2>1, <2>6, Zenon DEF vars, creditVars, readerVars
  <2> QED
    BY <2>2, <2>3, <2>4, <2>5, <2>6, Zenon DEF Next
<1> QED
  BY <1>1, <1>2, ReceiveTyped, PTL DEF Spec

-------------------------------------------------------------------------------
(* What becomes of the streams: nobody is stranded, nothing is lost and    *)
(* the receive gate opens.  Registered is inductive.                       *)

\* What a step that leaves the state of the streams and of fail alone keeps.
LEMMA UnchangedRegistered ==
  ASSUME Registered
  PROVE  /\ UNCHANGED failVars => FailOrder'
         /\ UNCHANGED <<failVars, handle, streams>> => InTable'
         /\ UNCHANGED <<failVars, handle, parked>> => ParkedInTable'
         /\ UNCHANGED <<rpc, cur, handle>> => ReaderHolds'
         /\ UNCHANGED <<accept, handle>> => BacklogHolds'
BY DEF Registered, FailOrder, InTable, ParkedInTable, ReaderHolds, BacklogHolds, failVars, FailDone,
       Drained, Offered

\* fail up to the swap leaves the table alone, so what was registered still is.
LEMMA FailRegistered ==
  ASSUME TypeOK, Registered, NEW task, NEW err, Fail(task, err)
  PROVE  /\ FailOrder'
         /\ UNCHANGED <<handle, streams>> => InTable'
         /\ UNCHANGED <<handle, parked>> => ParkedInTable'
<1>1. CASE closed
  BY <1>1, UnchangedRegistered, Zenon DEF Fail, failVars
<1>2. CASE ~closed
  <2>1. closed' = TRUE /\ failing' = <<task, "queue">> /\ dying' = dying
    BY <1>2, Zenon DEF Fail
  <2>2. ~FailDone' /\ ~Drained' /\ ~Drained
    BY <1>2, <2>1, Zenon DEF FailDone, Drained
  <2> QED
    BY <2>1, <2>2, Zenon DEF Registered, FailOrder, InTable, ParkedInTable
<1> QED
  BY <1>1, <1>2, Zenon

\* The reader's own steps.
LEMMA ReaderStepRegistered == TypeOK /\ Registered /\ ReaderStep => Registered'
<1> SUFFICES ASSUME TypeOK, Registered, ReaderStep PROVE Registered'
  BY Zenon
<1> USE UnchangedRegistered DEF Goto
<1>1. CASE ReadGate \/ CheckBeforeWait \/ CheckAfterWait \/ ReaderReturns \/ Notified
           \/ spend_tokens
  <2>1. ReaderHolds'
    BY <1>1, Zenon DEF ReadGate, CheckBeforeWait, CheckAfterWait, ReaderReturns, Notified, spend_tokens,
       ReaderHolds
  <2> QED
    BY <1>1, <2>1, SMTT(20) DEF ReadGate, CheckBeforeWait, CheckAfterWait, ReaderReturns, Notified,
       spend_tokens, Registered, streamVars, acceptVars
<1>2. CASE push_bytes
  <2>1. ReaderHolds' /\ ParkedInTable'
    BY <1>2, Zenon DEF push_bytes, NextFrame, ReaderHolds, Registered, ParkedInTable, failVars, Drained
  <2> QED
    BY <1>2, <2>1, Zenon DEF push_bytes, Registered, acceptVars
<1>3. CASE deliver_accept \/ ReaderAborted
  <2>0. /\ handle \in [Sids -> Handles] /\ accept \in Seq(Sids)
        /\ rpc \in {"deliver", "full", "sleep"} => cur.sid \in Sids /\ handle[cur.sid] = "delivering"
    BY Zenon DEF TypeOK, StreamsTyped, AcceptTyped, ReaderTyped, Registered, ReaderHolds
  <2>1. CASE UNCHANGED <<handle, accept>>
    <3>1. ReaderHolds'
      BY <1>3, <2>0, <2>1, Zenon DEF deliver_accept, ReaderAborted, GiveUp, NextFrame, ReaderHolds
    <3> QED
      BY <1>3, <2>1, <3>1, Zenon DEF deliver_accept, ReaderAborted, Registered
  <2>2. ASSUME rpc \in {"deliver", "full", "sleep"}, GiveUp PROVE Registered'
    <3>1. ReaderHolds'
      BY <2>2, Zenon DEF GiveUp, ReaderHolds
    <3>2. BacklogHolds'
      BY <2>0, <2>2 DEF GiveUp, Registered, BacklogHolds
    <3>3. InTable' /\ ParkedInTable' /\ FailOrder'
      BY <1>3, <2>0, <2>2 DEF deliver_accept, ReaderAborted, GiveUp, Registered, InTable,
         ParkedInTable, failVars, Drained
    <3> QED
      BY <3>1, <3>2, <3>3, Zenon DEF Registered
  <2>3. ASSUME rpc = "deliver", accept' = Append(accept, cur.sid), NextFrame,
               handle' = [handle EXCEPT ![cur.sid] = "backlog"]
        PROVE  Registered'
    <3>1. ReaderHolds'
      BY <2>3, SMTT(20) DEF NextFrame, ReaderHolds
    <3>2. BacklogHolds'
      <4>1. \A i \in DOMAIN accept : accept[i] # cur.sid /\ accept[i] \in Sids
        BY <2>0, <2>3 DEF Registered, BacklogHolds
      <4>2. /\ DOMAIN accept' = DOMAIN accept \cup {Len(accept) + 1}
            /\ \A i \in DOMAIN accept : accept'[i] = accept[i]
            /\ accept'[Len(accept) + 1] = cur.sid
        BY <2>0, <2>3
      <4> QED
        BY <2>0, <2>3, <4>1, <4>2 DEF Registered, BacklogHolds
    <3>3. InTable' /\ ParkedInTable' /\ FailOrder'
      BY <1>3, <2>0, <2>3 DEF deliver_accept, ReaderAborted, Registered, InTable, ParkedInTable,
         failVars, Drained
    <3> QED
      BY <3>1, <3>2, <3>3, Zenon DEF Registered
  <2> QED
    BY <1>3, <2>1, <2>2, <2>3, Zenon DEF deliver_accept, ReaderAborted
<1> QED
  BY <1>1, <1>2, <1>3, Zenon DEF ReaderStep

\* A frame or the end of the transport arrives.
LEMMA ReceiveRegistered == TypeOK /\ Registered /\ Receive => Registered'
<1> SUFFICES ASSUME TypeOK, Registered, Receive PROVE Registered'
  BY Zenon
<1> USE UnchangedRegistered DEF Goto
<1>0. handle \in [Sids -> Handles]
  BY Zenon DEF TypeOK, StreamsTyped
<1>1. CASE OnNop \/ UpdRead \/ PayloadRead
  <2>1. ReaderHolds'
    BY <1>1, Zenon DEF OnNop, UpdRead, PayloadRead, NextFrame, ReaderHolds
  <2> QED
    BY <1>1, <2>1, SMTT(20) DEF OnNop, UpdRead, PayloadRead, HeaderRead, Registered, streamVars, acceptVars
<1>2. CASE OnInvalid \/ ReadError
  <2>1. ReaderHolds'
    BY <1>2, Zenon DEF OnInvalid, ReadError, ReaderHolds
  <2> QED
    BY <1>2, <2>1, FailRegistered, SMTT(20) DEF OnInvalid, ReadError, HeaderRead, Registered, streamVars,
       acceptVars
<1>3. ASSUME NEW s \in PeerSids, OnSyn(s) PROVE Registered'
  <2>1. s \in Sids /\ handle[s] = "none" /\ handle' = [handle EXCEPT ![s] = "delivering"]
    BY <1>3, Zenon DEF OnSyn, Sids
  <2>2. ReaderHolds'
    BY <1>0, <1>3, <2>1, Zenon DEF OnSyn, ReaderHolds
  <2>3. BacklogHolds'
    BY <1>0, <1>3, <2>1 DEF OnSyn, HeaderRead, acceptVars, Registered, BacklogHolds
  <2>4. InTable' /\ ParkedInTable' /\ FailOrder'
    BY <1>0, <1>3, <2>1 DEF OnSyn, HeaderRead, failVars, Registered, InTable, ParkedInTable, Drained
  <2> QED
    BY <2>2, <2>3, <2>4, Zenon DEF Registered
<1>4. ASSUME NEW s \in Sids, set_fin(s) PROVE Registered'
  <2>1. ReaderHolds' /\ ParkedInTable'
    BY <1>4, Zenon DEF set_fin, ReaderHolds, Registered, ParkedInTable, failVars, Drained
  <2> QED
    BY <1>4, <2>1, SMTT(20) DEF set_fin, HeaderRead, Registered, acceptVars
<1>5. ASSUME NEW s \in Sids, OnPsh(s) PROVE Registered'
  <2>1. Offered(s) /\ handle' = handle
    BY <1>5, Zenon DEF OnPsh
  <2>2. ReaderHolds'
    BY <1>5, <2>1 DEF OnPsh, ReaderHolds, Offered
  <2> QED
    BY <1>5, <2>2, Zenon DEF OnPsh, HeaderRead, Registered, acceptVars
<1> QED
  BY <1>1, <1>2, <1>3, <1>4, <1>5, Zenon DEF Receive

\* The steps of fail: draining hands every registered stream to set_dead.
LEMMA FailStepRegistered == TypeOK /\ Registered /\ FailStep => Registered'
<1> SUFFICES ASSUME TypeOK, Registered, FailStep PROVE Registered'
  BY Zenon
<1> USE UnchangedRegistered
<1>1. CASE CloseQueue
  <2>1. closed /\ ~Drained /\ ~Drained' /\ ~FailDone' /\ closed'
    BY <1>1, Zenon DEF CloseQueue, Registered, FailOrder, FailDone, Drained
  <2> QED
    BY <1>1, <2>1, Zenon DEF CloseQueue, Registered, FailOrder, InTable, ParkedInTable, readerVars,
       streamVars, acceptVars
<1>2. CASE DrainStreams
  <2>1. closed /\ ~Drained /\ Drained' /\ ~FailDone' /\ closed' /\ dying' = streams
    BY <1>2, Zenon DEF DrainStreams, Registered, FailOrder, FailDone, Drained
  <2>2. ParkedInTable'
    BY <1>2, <2>1, Zenon DEF DrainStreams, TypeOK, StreamsTyped, Registered, InTable, ParkedInTable
  <2> QED
    BY <1>2, <2>1, <2>2, Zenon DEF DrainStreams, Registered, FailOrder, InTable, readerVars, acceptVars
<1>3. ASSUME NEW s \in Sids, set_dead(s) PROVE Registered'
  <2>1. closed /\ Drained /\ Drained' /\ ~FailDone' /\ closed'
    BY <1>3, Zenon DEF set_dead, Registered, FailOrder, FailDone, Drained
  <2>2. ParkedInTable'
    BY <1>3, <2>1, Zenon DEF set_dead, Registered, ParkedInTable
  <2> QED
    BY <1>3, <2>1, <2>2, Zenon DEF set_dead, Registered, FailOrder, InTable, readerVars, acceptVars
<1>4. CASE NotifyReader
  <2>1. closed /\ Drained /\ Drained' /\ closed' /\ dying' = dying /\ dying = {}
    BY <1>4, Zenon DEF NotifyReader, Registered, FailOrder, FailDone, Drained
  <2>2. ParkedInTable'
    BY <1>4, <2>1, Zenon DEF NotifyReader, streamVars, Registered, ParkedInTable
  <2> QED
    BY <1>4, <2>1, <2>2, Zenon DEF NotifyReader, Registered, FailOrder, InTable, readerVars, streamVars,
       acceptVars
<1> QED
  BY <1>1, <1>2, <1>3, <1>4, Zenon DEF FailStep

\* The keepalive task.
LEMMA KeepaliveRegistered == TypeOK /\ Registered /\ Keepalive => Registered'
BY UnchangedRegistered, FailRegistered, Zenon DEF Keepalive, Ping, Deadline, Expired, KeepaliveLoops,
   Registered, readerVars, streamVars, acceptVars

\* The application's calls.
LEMMA ApplicationRegistered == TypeOK /\ Registered /\ Application => Registered'
<1> SUFFICES ASSUME TypeOK, Registered, Application PROVE Registered'
  BY Zenon
<1> USE UnchangedRegistered
<1>0. handle \in [Sids -> Handles] /\ accept \in Seq(Sids) /\ parked \subseteq Sids
      /\ (rpc \in {"payload", "deliver", "full", "sleep"} => cur.sid \in Sids)
  BY Zenon DEF TypeOK, StreamsTyped, AcceptTyped, ReaderTyped
<1>a. \A i \in DOMAIN accept : accept[i] \in Sids
  BY <1>0
\* A stream changes hands: what the reader and the backlog hold is not touched.
<1>b. ASSUME NEW s \in Sids, NEW h, handle' = [handle EXCEPT ![s] = h],
             handle[s] \notin {"delivering", "backlog"},
             handle[s] \in {"none", "opening", "inserted"}
               \/ h \in {"open", "drop", "recycle", "refund", "dropped"},
             UNCHANGED <<rpc, cur, accept>>
      PROVE  ReaderHolds' /\ BacklogHolds'
  <2>1. BacklogHolds'
    BY <1>0, <1>a, <1>b, Zenon DEF Registered, BacklogHolds
  <2>2. ReaderHolds'
    BY <1>0, <1>b, Zenon DEF Registered, ReaderHolds, Offered
  <2> QED
    BY <2>1, <2>2, Zenon
<1>1. ASSUME NEW s \in Sids, OpenCheck(s) \/ OpenInsert(s) \/ OpenPush(s) PROVE Registered'
  <2>1. ReaderHolds' /\ BacklogHolds'
    BY <1>b, <1>1, Zenon DEF OpenCheck, OpenInsert, OpenPush, Holds, readerVars, acceptVars
  <2>2. UNCHANGED failVars /\ (Drained' <=> Drained) /\ parked' = parked
    BY <1>1, SMTT(20) DEF OpenCheck, OpenInsert, OpenPush, failVars, Drained
  <2>3. InTable'
    BY <1>0, <1>1, <2>2, Zenon DEF OpenCheck, OpenInsert, OpenPush, Holds, Registered, InTable
  <2>4. ParkedInTable'
    BY <1>0, <1>1, <2>2, SMTT(20) DEF OpenCheck, OpenInsert, OpenPush, Holds, Registered, ParkedInTable,
       failVars
  <2> QED
    BY <1>1, <2>1, <2>2, <2>3, <2>4, SMTT(20) DEF OpenCheck, OpenInsert, OpenPush, Registered
<1>2. ASSUME NEW s \in Sids, poll_read(s) PROVE Registered'
  <2>1. parked' = parked \/ (parked' = parked \cup {s} /\ ~closed)
    BY <1>2, ZenonT(30) DEF poll_read, TakeBytes
  <2>2. ParkedInTable'
    BY <1>2, <2>1, Zenon DEF poll_read, Polled, failVars, Registered, ParkedInTable, Drained
  <2> QED
    BY <1>2, <2>2, ZenonT(30) DEF poll_read, Registered, readerVars, acceptVars
<1>3. ASSUME NEW s \in Sids, Refund(s) PROVE Registered'
  <2>1. CASE UNCHANGED handle
    BY <1>3, <2>1, Zenon DEF Refund, Registered, readerVars, acceptVars
  <2>2. CASE handle[s] = "refund" /\ Holds(s, "dropped")
    <3>1. ReaderHolds' /\ BacklogHolds'
      BY <1>b, <1>3, <2>2, ZenonT(30) DEF Refund, Holds, readerVars, acceptVars
    <3>2. InTable' /\ ParkedInTable'
      BY <1>0, <1>3, <2>2, Zenon DEF Refund, Holds, failVars, Registered, InTable, ParkedInTable, Drained
    <3> QED
      BY <1>3, <3>1, <3>2, Zenon DEF Refund, Registered
  <2> QED
    BY <1>3, <2>1, <2>2, Zenon DEF Refund
<1>4. ASSUME NEW s \in Sids, DropStream(s) \/ remove_stream(s) \/ recycle(s) PROVE Registered'
  <2>1. ReaderHolds' /\ BacklogHolds'
    BY <1>b, <1>4, Zenon DEF DropStream, remove_stream, recycle, Holds, readerVars, acceptVars
  <2>2. UNCHANGED failVars /\ (Drained' <=> Drained)
    BY <1>4, SMTT(20) DEF DropStream, remove_stream, recycle, failVars, Drained
  <2>3. InTable'
    BY <1>0, <1>4, <2>2, SMTT(20) DEF DropStream, remove_stream, recycle, Holds, Registered, InTable
  <2>4. ParkedInTable'
    BY <1>0, <1>4, <2>2, Zenon DEF DropStream, remove_stream, recycle, Holds, Registered, ParkedInTable,
       failVars
  <2> QED
    BY <1>4, <2>1, <2>2, <2>3, <2>4, Zenon DEF DropStream, remove_stream, recycle, Registered
<1>5. CASE accept_stream
  <2>0. 1 \in DOMAIN accept /\ Head(accept) = accept[1] /\ Len(accept) > 0
    BY <1>0, <1>5 DEF accept_stream
  <2>1. PICK h \in Sids : h = accept[1] /\ handle[h] = "backlog" /\ Len(accept) > 0
                          /\ handle' = [handle EXCEPT ![h] = "open"]
    BY <1>5, <1>a, <2>0, Zenon DEF accept_stream, Holds, Registered, BacklogHolds
  <2>2. /\ DOMAIN accept' = 1..(Len(accept) - 1)
        /\ \A i \in DOMAIN accept' : i + 1 \in DOMAIN accept /\ accept'[i] = accept[i + 1] /\ i \in Int
    BY <1>0, <1>5, <2>1 DEF accept_stream
  <2>3. \A i \in DOMAIN accept' : accept'[i] # h /\ accept'[i] \in Sids
    BY <1>a, <2>1, <2>2 DEF Registered, BacklogHolds
  <2>4. BacklogHolds'
    BY <1>0, <2>1, <2>2, <2>3 DEF Registered, BacklogHolds
  <2>5. ReaderHolds'
    BY <1>0, <1>5, <2>1, SMTT(20) DEF accept_stream, readerVars, Registered, ReaderHolds, Offered
  <2>6. InTable' /\ ParkedInTable'
    BY <1>0, <1>5, <2>1, Zenon DEF accept_stream, failVars, Registered, InTable, ParkedInTable, Drained
  <2> QED
    BY <1>5, <2>4, <2>5, <2>6, Zenon DEF accept_stream, Registered
<1>6. CASE CloseSession
  <2>1. CASE Fail("app", "closed")
    BY <1>6, <2>1, FailRegistered, SMTT(20) DEF CloseSession, Registered, streamVars, readerVars, acceptVars
  <2>2. CASE UNCHANGED <<closed, error, queue_closed, failing, dying>>
    BY <1>6, <2>2, Zenon DEF CloseSession, Registered, FailOrder, InTable, ParkedInTable, FailDone, Drained,
       streamVars, readerVars, acceptVars
  <2> QED
    BY <1>6, <2>1, <2>2, Zenon DEF CloseSession
<1>7. CASE DropSession
  <2>1. \A s \in Sids : handle'[s] = IF handle[s] = "backlog" THEN "drop" ELSE handle[s]
    BY <1>7, Zenon DEF DropSession
  <2>2. BacklogHolds'
    BY <1>7 DEF DropSession, BacklogHolds
  <2>3. ReaderHolds'
    BY <1>0, <1>7, <2>1, SMTT(20) DEF DropSession, readerVars, Registered, ReaderHolds, Offered
  <2>4. InTable' /\ ParkedInTable'
    BY <1>0, <1>7, <2>1, Zenon DEF DropSession, failVars, TypeOK, StreamsTyped, Registered, InTable,
       ParkedInTable, Drained
  <2> QED
    BY <1>7, <2>2, <2>3, <2>4, Zenon DEF DropSession, Registered
<1> QED
  BY <1>1, <1>2, <1>3, <1>4, <1>5, <1>6, <1>7, Zenon DEF Application, Finish, Sids

\* Until fail drains the stream table every held stream is in it, and whoever
\* parks in poll_read is reached by the drain.
THEOREM StreamsRegistered == Spec => []Registered
<1>1. Init => Registered
  BY DEF Init, Registered, FailOrder, InTable, ParkedInTable, ReaderHolds, BacklogHolds, FailDone,
     Drained, Sids
<1>2. TypeOK /\ Registered /\ UNCHANGED vars => Registered'
  BY UnchangedRegistered, Zenon DEF vars, Registered, streamVars, readerVars, acceptVars
<1> QED
  BY <1>1, <1>2, ReceiveTyped, ReaderStepRegistered, ReceiveRegistered, FailStepRegistered,
     KeepaliveRegistered, ApplicationRegistered, PTL DEF Spec, Next

\* When fail has run no task is left parked in poll_read, whatever the timing of
\* open_stream, of an incoming SYN and of poll_read against it.
THEOREM NoReaderStranded == Spec => []NobodyStranded
<1>1. Registered => NobodyStranded
  BY Zenon DEF Registered, FailOrder, ParkedInTable, NobodyStranded, Drained, FailDone
<1> QED
  BY <1>1, StreamsRegistered, PTL

\* A handle that has been let go stays let go, whatever happens.
LEMMA GoneForGood ==
  ASSUME TypeOK, Registered, Next, NEW s \in Sids,
         handle[s] \in {"drop", "recycle", "refund", "dropped"}
  PROVE  handle'[s] \in {"drop", "recycle", "refund", "dropped"}
<1>0. handle \in [Sids -> Handles]
      /\ (rpc \in {"deliver", "full", "sleep"} => cur.sid \in Sids /\ handle[cur.sid] = "delivering")
  BY Zenon DEF TypeOK, StreamsTyped, ReaderTyped, Registered, ReaderHolds
<1>1. CASE UNCHANGED handle
  BY <1>1, Zenon
<1>2. CASE deliver_accept \/ ReaderAborted
  BY <1>0, <1>2, SMTT(20) DEF deliver_accept, ReaderAborted, GiveUp
<1>3. ASSUME NEW t \in PeerSids, OnSyn(t) PROVE handle'[s] \in {"drop", "recycle", "refund", "dropped"}
  BY <1>0, <1>3, SMTT(20) DEF OnSyn, Sids
<1>4. ASSUME NEW t \in Sids,
             OpenCheck(t) \/ OpenInsert(t) \/ OpenPush(t) \/ Refund(t) \/ DropStream(t)
               \/ remove_stream(t) \/ recycle(t)
      PROVE  handle'[s] \in {"drop", "recycle", "refund", "dropped"}
  BY <1>0, <1>4, Zenon DEF OpenCheck, OpenInsert, OpenPush, Refund, DropStream, remove_stream, recycle, Holds
<1>5. CASE accept_stream
  <2>1. Head(accept) \in Sids /\ handle[Head(accept)] = "backlog"
    <3>1. 1 \in DOMAIN accept /\ Head(accept) = accept[1] /\ accept[1] \in Sids
      BY <1>5 DEF accept_stream, TypeOK, AcceptTyped
    <3> QED
      BY <3>1, Zenon DEF Registered, BacklogHolds
  <2> QED
    BY <1>0, <1>5, <2>1, SMTT(20) DEF accept_stream, Holds
<1>6. CASE DropSession
  BY <1>0, <1>6, SMTT(20) DEF DropSession
<1>7. ASSUME ReaderStep, ~deliver_accept, ~ReaderAborted PROVE UNCHANGED handle
  BY <1>7, SMTT(20) DEF ReaderStep, ReadGate, CheckBeforeWait, Notified, CheckAfterWait, spend_tokens,
     push_bytes, ReaderReturns, streamVars
<1>8. ASSUME Receive, ~\E t \in PeerSids : OnSyn(t) PROVE UNCHANGED handle
  BY <1>8, SMTT(20) DEF Receive, OnNop, OnInvalid, ReadError, UpdRead, PayloadRead, set_fin, OnPsh, streamVars
<1>9. ASSUME FailStep \/ Keepalive \/ CloseSession \/ (\E t \in Sids : poll_read(t))
      PROVE  UNCHANGED handle
  BY <1>9, Zenon DEF FailStep, CloseQueue, DrainStreams, set_dead, NotifyReader, Keepalive, Ping, Deadline,
     Expired, KeepaliveLoops, CloseSession, poll_read, streamVars
<1> QED
  BY <1>1, <1>2, <1>3, <1>4, <1>5, <1>6, <1>7, <1>8, <1>9, Zenon DEF Next, Application, Finish, Sids

\* The reader discards a payload only for a stream the application let go of,
\* or when the session has already failed.
THEOREM NothingLost == Spec => []NoPayloadLost
<1>1. Init => NoPayloadLost
  BY Zenon DEF Init, NoPayloadLost
<1>2. TypeOK /\ Registered /\ NoPayloadLost /\ [Next]_vars => NoPayloadLost'
  <2> SUFFICES ASSUME TypeOK, Registered, NoPayloadLost, [Next]_vars, ~closed'
               PROVE  NoPayloadLost'
    BY Zenon DEF NoPayloadLost
  <2>1. CASE UNCHANGED vars
    BY <2>1, Zenon DEF vars, readerVars, failVars, streamVars, NoPayloadLost
  <2>2. CASE Next
    <3>1. lost \subseteq Sids
      BY SMTT(20) DEF TypeOK, ReaderTyped
    <3>2. ~closed
      BY <2>2, Zenon DEF Next, ReaderStep, ReadGate, CheckBeforeWait, Notified, CheckAfterWait, spend_tokens,
         push_bytes, deliver_accept, ReaderReturns, ReaderAborted, Receive, OnNop, OnInvalid,
         ReadError, UpdRead, PayloadRead, OnSyn, set_fin, OnPsh, FailStep, CloseQueue, DrainStreams,
         set_dead, NotifyReader, Keepalive, Ping, Deadline, Expired, KeepaliveLoops, Application,
         Finish, OpenCheck, OpenInsert, OpenPush, Refund, remove_stream, recycle, poll_read,
         DropStream, accept_stream, CloseSession, DropSession, Fail, failVars
    <3>3. \A s \in lost : handle'[s] \in {"drop", "recycle", "refund", "dropped"}
      BY <2>2, <3>1, <3>2, GoneForGood, SMTT(20) DEF NoPayloadLost
    <3>4. CASE PayloadRead
      <4>1. cur.sid \in Sids /\ Offered(cur.sid)
        BY <3>4, Zenon DEF PayloadRead, TypeOK, ReaderTyped, Registered, ReaderHolds
      <4>2. ~Drained
        BY <3>2, Zenon DEF Drained
      <4>3. cur.sid \notin streams => handle[cur.sid] \in {"drop", "recycle", "refund", "dropped"}
        BY <4>1, <4>2, Zenon DEF Registered, InTable, TypeOK, StreamsTyped, Handles, Offered
      <4> QED
        BY <3>3, <3>4, <4>3, ZenonT(30) DEF PayloadRead, NoPayloadLost, streamVars
    <3>5. CASE ~PayloadRead
      <4>1. lost' = lost
        BY <2>2, <3>5, Zenon DEF Next, ReaderStep, ReadGate, CheckBeforeWait, Notified, CheckAfterWait,
           spend_tokens, push_bytes, deliver_accept, ReaderReturns, ReaderAborted, Receive, OnNop,
           OnInvalid, ReadError, UpdRead, OnSyn, set_fin, OnPsh, HeaderRead, FailStep, CloseQueue,
           DrainStreams, set_dead, NotifyReader, Keepalive, Ping, Deadline, Expired, KeepaliveLoops,
           Application, Finish, OpenCheck, OpenInsert, OpenPush, Refund, remove_stream, recycle,
           poll_read, DropStream, accept_stream, CloseSession, DropSession, readerVars
      <4> QED
        BY <3>3, <4>1, SMTT(20) DEF NoPayloadLost
    <3> QED
      BY <3>4, <3>5, Zenon
  <2> QED
    BY <2>1, <2>2, Zenon
<1> QED
  BY <1>1, <1>2, ReceiveTyped, StreamsRegistered, PTL DEF Spec

\* A step that leaves the credit alone, and neither starts the reader waiting
\* nor finishes fail, keeps a waiting reader's permit.
LEMMA GateUndisturbed ==
  ASSUME GateWakes, UNCHANGED bucket, bucket_notify => bucket_notify',
         rpc' \in {"parking", "wait"} => rpc' = rpc,
         closed' /\ FailDone' => closed /\ FailDone
  PROVE  GateWakes'
BY Zenon DEF GateWakes

\* fail has not run to its end when it has just begun.
LEMMA FailBegins ==
  ASSUME NEW task, NEW err, Fail(task, err)
  PROVE  closed' /\ FailDone' => closed /\ FailDone
<1>1. CASE closed
  BY <1>1, Zenon DEF Fail, FailDone, failVars
<1>2. CASE ~closed
  <2>1. failing' = <<task, "queue">>
    BY <1>2, Zenon DEF Fail
  <2>2. failing'[2] # "done"
    BY <2>1, Zenon
  <2> QED
    BY <2>2, Zenon DEF FailDone
<1> QED
  BY <1>1, <1>2, Zenon

\* A reader at the gate never sleeps through the return of its credit or the
\* end of the session.
THEOREM GateNeverStuck == Spec => []GateWakes
<1>1. Init => GateWakes
  BY Zenon DEF Init, GateWakes
<1>2. TypeOK /\ GateWakes /\ [Next]_vars => GateWakes'
  <2> SUFFICES ASSUME TypeOK, GateWakes, [Next]_vars PROVE GateWakes'
    BY Zenon
  <2>1. CASE ReaderStep
    <3>1. CASE ReadGate
      <4>1. /\ UNCHANGED <<bucket, bucket_notify>>
            /\ rpc' = IF bucket > 0 THEN "header" ELSE "parking"
        BY <3>1, Zenon DEF ReadGate, Goto, creditVars
      <4> QED
        BY <4>1, Zenon DEF GateWakes, TypeOK, CreditTyped
    <3>2. CASE CheckBeforeWait
      <4>1. /\ UNCHANGED <<bucket, bucket_notify, closed>>
            /\ rpc = "parking" /\ rpc' = IF closed THEN "done" ELSE "wait"
        BY <3>2, Zenon DEF CheckBeforeWait, Goto, creditVars, failVars
      <4> QED
        BY <4>1, Zenon DEF GateWakes
    <3>3. CASE Notified \/ CheckAfterWait \/ spend_tokens \/ push_bytes \/ deliver_accept
               \/ ReaderReturns \/ ReaderAborted
      <4>1. rpc' \notin {"parking", "wait"}
        BY <3>3, SMTT(20) DEF Notified, CheckAfterWait, spend_tokens, push_bytes, deliver_accept, GiveUp,
           NextFrame, ReaderReturns, ReaderAborted, Goto
      <4> QED
        BY <4>1, SMTT(20) DEF GateWakes
    <3> QED
      BY <2>1, <3>1, <3>2, <3>3, Zenon DEF ReaderStep
  <2>2. CASE Receive
    <3>1. rpc' \notin {"parking", "wait"}
      BY <2>2, Zenon DEF Receive, OnNop, OnInvalid, ReadError, UpdRead, PayloadRead, NextFrame, OnSyn, set_fin,
         OnPsh, Goto
    <3> QED
      BY <3>1, Zenon DEF GateWakes
  <2>3. CASE FailStep
    <3>1. CASE NotifyReader
      BY <3>1, Zenon DEF NotifyReader, GateWakes
    <3>2. CASE CloseQueue \/ DrainStreams \/ \E s \in Sids : set_dead(s)
      <4>1. UNCHANGED <<bucket, bucket_notify, rpc, closed>> /\ ~FailDone'
        BY <3>2 DEF CloseQueue, DrainStreams, set_dead, FailDone, creditVars, readerVars, TypeOK, FailTyped
      <4> QED
        BY <4>1, GateUndisturbed, Zenon
    <3> QED
      BY <2>3, <3>1, <3>2, Zenon DEF FailStep
  <2>4. CASE Keepalive
    <3>1. UNCHANGED <<bucket, rpc>> /\ (bucket_notify => bucket_notify')
      BY <2>4 DEF Keepalive, Ping, Deadline, Expired, KeepaliveLoops, creditVars, readerVars
    <3>2. closed' /\ FailDone' => closed /\ FailDone
      <4>1. CASE Expired
        BY <4>1, FailBegins, Zenon DEF Expired, failVars, FailDone
      <4> QED
        BY <2>4, <4>1, Zenon DEF Keepalive, Ping, Deadline, KeepaliveLoops, failVars, FailDone
    <3> QED
      BY <3>1, <3>2, GateUndisturbed, Zenon
  <2>5. CASE Application
    <3>1. ASSUME NEW s \in Sids, Refund(s) PROVE GateWakes'
      <4>1. /\ UNCHANGED <<rpc, closed, failing>> /\ owed[s] \in Nat /\ bucket \in Int
            /\ bucket' = bucket + owed[s]
            /\ bucket_notify' = (bucket_notify \/ (bucket <= 0 /\ bucket' > 0))
        BY <3>1, Zenon DEF Refund, return_tokens, readerVars, failVars, TypeOK, StreamsTyped, CreditTyped
      <4>2. bucket_notify => bucket_notify'
        BY <4>1, Zenon
      <4>3. bucket <= 0 /\ bucket' > 0 => bucket_notify'
        BY <4>1, Zenon
      <4>4. bucket' > 0 => bucket > 0 \/ bucket <= 0
        BY <4>1
      <4> QED
        BY <4>1, <4>2, <4>3, <4>4, Zenon DEF GateWakes, FailDone
    <3>2. CASE CloseSession
      <4>1. UNCHANGED <<bucket, bucket_notify, rpc>>
        BY <3>2, Zenon DEF CloseSession, creditVars, readerVars
      <4>2. closed' /\ FailDone' => closed /\ FailDone
        BY <3>2, FailBegins, Zenon DEF CloseSession, FailDone
      <4> QED
        BY <4>1, <4>2, GateUndisturbed, Zenon
    <3>3. CASE \/ \E s \in OwnSids : OpenCheck(s)
               \/ \E s \in Sids : OpenInsert(s) \/ OpenPush(s) \/ remove_stream(s) \/ recycle(s)
               \/ \E s \in Sids : poll_read(s) \/ DropStream(s)
               \/ accept_stream \/ DropSession
      <4>1. UNCHANGED <<bucket, bucket_notify, rpc, closed, failing>>
        BY <3>3, Zenon DEF OpenCheck, OpenInsert, OpenPush, remove_stream, recycle, poll_read, DropStream,
           accept_stream, DropSession, creditVars, readerVars, failVars
      <4> QED
        BY <4>1, GateUndisturbed, Zenon DEF FailDone
    <3> QED
      BY <2>5, <3>1, <3>2, <3>3, Zenon DEF Application, Finish
  <2>6. CASE UNCHANGED vars
    BY <2>6, GateUndisturbed, Zenon DEF vars, creditVars, readerVars, failVars, FailDone
  <2> QED
    BY <2>1, <2>2, <2>3, <2>4, <2>5, <2>6, Zenon DEF Next
<1> QED
  BY <1>1, <1>2, ReceiveTyped, PTL DEF Spec

\* Whoever reads is found when the session fails and woken when there is credit
\* again: fail, poll_read and return_tokens together lose no wakeup.
THEOREM ReadersNeverStuck == Spec => []ReadersWake
<1>1. Registered /\ NobodyStranded /\ GateWakes => ReadersWake
  BY Zenon DEF ReadersWake
<1> QED
  BY <1>1, StreamsRegistered, NoReaderStranded, GateNeverStuck, PTL

-------------------------------------------------------------------------------
(* The account of credit.  It is a sum over the streams, so first what is  *)
(* needed of sums; the induction is over the size of a finite set, and     *)
(* rests on the least element of a set of natural numbers.                 *)

\* Every set of natural numbers that is not empty has a least element: the form
\* in which induction is used here.
LEMMA NatLeast ==
  ASSUME NEW T, T \subseteq Nat, T # {}
  PROVE  \E n \in T : \A m \in T : n <= m
<1> DEFINE R == {p \in Nat \X Nat : p[1] < p[2]}
<1>1. IsWellFoundedOn(R, Nat)
  BY NatLessThanWellFounded, Zenon DEF OpToRel
<1>2. \A m, n \in T : <<m, n>> \in R <=> m < n
  BY SMT
<1> HIDE DEF R
<1>3. PICK n \in T : \A m \in T : ~(<<m, n>> \in R)
  BY <1>1, WFMin, Zenon
<1>4. ASSUME NEW m \in T PROVE n <= m
  <2>1. ~(m < n)
    BY <1>2, <1>3, Zenon
  <2>2. m \in Nat /\ n \in Nat
    BY Zenon
  <2> QED
    BY <2>1, <2>2
<1> QED
  BY <1>4, Zenon

\* Induction over the natural numbers, for a set G of them.
LEMMA NatInduct ==
  ASSUME NEW G, 0 \in G, \A n \in Nat : n \in G => n + 1 \in G
  PROVE  Nat \subseteq G
<1> DEFINE Bad == Nat \ G
<1> SUFFICES ASSUME Bad # {} PROVE FALSE
  BY Zenon
<1>1. PICK n \in Bad : \A m \in Bad : n <= m
  BY NatLeast, Zenon
<1>2. n \in Nat /\ n # 0
  BY Zenon
<1>3. n - 1 \in Nat /\ n - 1 \in G /\ (n - 1) + 1 = n
  BY <1>1, <1>2
<1> QED
  BY <1>3, Zenon

Pick(s) == CHOOSE x \in s : TRUE

\* Picking and removing an element of a subset of a finite set.
LEMMA PickRemoves ==
  ASSUME NEW S, IsFiniteSet(S), NEW s \in SUBSET S, s # {}
  PROVE  /\ Pick(s) \in s
         /\ \A x \in s : /\ IsFiniteSet(s) /\ Cardinality(s) \in Nat
                         /\ Cardinality(s \ {x}) \in Nat
                         /\ Cardinality(s) = Cardinality(s \ {x}) + 1
<1>1. Pick(s) \in s
  BY Zenon DEF Pick
<1>2. IsFiniteSet(s) /\ Cardinality(s) \in Nat
  BY FS_Subset, FS_CardinalityType, Zenon
<1>3. ASSUME NEW x \in s
      PROVE  Cardinality(s \ {x}) \in Nat /\ Cardinality(s) = Cardinality(s \ {x}) + 1
  <2>1. IsFiniteSet(s \ {x}) /\ Cardinality(s \ {x}) = Cardinality(s) - 1
    BY <1>2, FS_RemoveElement, Zenon
  <2>2. Cardinality(s \ {x}) \in Nat
    BY <2>1, FS_CardinalityType, Zenon
  <2> QED
    BY <1>2, <2>1, <2>2
<1> QED
  BY <1>1, <1>2, <1>3, Zenon

\* Induction over the subsets of a finite set, for a set G of them.
LEMMA SubsetInduct ==
  ASSUME NEW S, IsFiniteSet(S), NEW G, {} \in G,
         \A s \in SUBSET S : s # {} /\ (\A x \in s : s \ {x} \in G) => s \in G
  PROVE  SUBSET S \subseteq G
<1> DEFINE Of(n) == {s \in SUBSET S : Cardinality(s) = n}
           N == {n \in Nat : Of(n) \subseteq G}
<1>0. \A s \in SUBSET S : Cardinality(s) \in Nat /\ (Cardinality(s) = 0 <=> s = {})
  BY FS_Subset, FS_CardinalityType, FS_EmptySet, Zenon
<1>1. 0 \in N
  BY <1>0, Zenon
<1>2. ASSUME NEW n \in Nat, n \in N PROVE n + 1 \in N
  <2>1. ASSUME NEW s \in Of(n + 1) PROVE s \in G
    <3>1. s # {}
      BY <1>0
    <3>2. \A x \in s : s \ {x} \in Of(n)
      <4> TAKE x \in s
      <4>1. Cardinality(s) = Cardinality(s \ {x}) + 1 /\ Cardinality(s \ {x}) \in Nat
        BY <3>1, PickRemoves, Zenon
      <4> QED
        BY <4>1
    <3> QED
      BY <1>2, <3>1, <3>2, Zenon
  <2> QED
    BY <2>1
<1>3. Nat \subseteq N
  <2> HIDE DEF N
  <2> QED BY <1>1, <1>2, NatInduct, Zenon
<1> QED
  BY <1>0, <1>3, Zenon

\* iter is the running sum of f over the subsets of S, as MapThenSumSet computes it.
Sums(f, S, iter) ==
  iter = [s \in SUBSET S |-> IF s = {} THEN 0 ELSE f[Pick(s)] + iter[s \ {Pick(s)}]]

SumFun(f, S) == CHOOSE iter : Sums(f, S, iter)

\* The total as a recursive function over the streams.
LEMMA TotalIsSum == ASSUME NEW f PROVE Total(f) = SumFun(f, Sids)[Sids]
BY Zenon DEF Total, SumFun, Sums, MapThenSumSet, MapThenFoldSet, Pick

\* The recursion of MapThenSumSet has a solution.
LEMMA SumExists ==
  ASSUME NEW S, IsFiniteSet(S), NEW f
  PROVE  Sums(f, S, SumFun(f, S))
<1> DEFINE Small(n) == {s \in SUBSET S : Cardinality(s) <= n}
           Step(g, s) == IF s = {} THEN 0 ELSE f[Pick(s)] + g[s \ {Pick(s)}]
           Good(n) == \E g : g = [s \in Small(n) |-> Step(g, s)]
           Well == {n \in Nat : Good(n)}
<1>0. /\ \A s \in SUBSET S : Cardinality(s) \in Nat
      /\ \A s \in SUBSET S : Cardinality(s) = 0 <=> s = {}
  BY FS_Subset, FS_CardinalityType, FS_EmptySet, Zenon
<1>1. Good(0)
  <2> DEFINE g == [s \in Small(0) |-> 0]
  <2>1. \A s \in Small(0) : s = {}
    BY <1>0
  <2>2. g = [s \in Small(0) |-> Step(g, s)]
    BY <2>1, Zenon
  <2> QED
    BY <2>2, Zenon
<1>2. ASSUME NEW n \in Nat, Good(n) PROVE Good(n + 1)
  <2>1. PICK g : g = [s \in Small(n) |-> Step(g, s)]
    BY <1>2, Zenon
  <2> DEFINE h == [s \in Small(n + 1) |-> Step(g, s)]
  <2>2. ASSUME NEW s \in Small(n + 1) PROVE Step(h, s) = Step(g, s)
    <3>1. CASE s = {}
      BY <3>1, Zenon
    <3>2. CASE s # {}
      <4>1. s \ {Pick(s)} \in Small(n) /\ s \ {Pick(s)} \in Small(n + 1)
        <5>1. Cardinality(s) <= n + 1 /\ Cardinality(s) = Cardinality(s \ {Pick(s)}) + 1
              /\ Cardinality(s \ {Pick(s)}) \in Nat
          BY <3>2, PickRemoves, Zenon
        <5> QED
          BY <5>1
      <4>2. h[s \ {Pick(s)}] = g[s \ {Pick(s)}]
        <5>1. h[s \ {Pick(s)}] = Step(g, s \ {Pick(s)})
          BY <4>1, Zenon
        <5>2. g[s \ {Pick(s)}] = Step(g, s \ {Pick(s)})
          <6> HIDE DEF Step
          <6> QED BY <2>1, <4>1, Zenon
        <5> QED
          BY <5>1, <5>2, Zenon
      <4> QED
        BY <3>2, <4>2
    <3> QED
      BY <3>1, <3>2, Zenon
  <2>3. h = [s \in Small(n + 1) |-> Step(h, s)]
    <3> HIDE DEF Step
    <3> QED BY <2>2, Zenon
  <2> QED
    BY <2>3, Zenon
<1>3. Nat \subseteq Well
  <2> HIDE DEF Good
  <2>1. 0 \in Well
    BY <1>1, Zenon
  <2>2. \A n \in Nat : n \in Well => n + 1 \in Well
    BY <1>2
  <2> HIDE DEF Well
  <2> QED BY <2>1, <2>2, NatInduct, Zenon
<1>4. Good(Cardinality(S))
  <2> HIDE DEF Good
  <2> QED BY <1>0, <1>3, Zenon
<1>5. Small(Cardinality(S)) = SUBSET S
  BY FS_Subset, Zenon
<1>6. \E g : Sums(f, S, g)
  BY <1>4, <1>5, Zenon DEF Sums
<1> QED
  BY <1>6, Zenon DEF SumFun

\* The unfolding of a sum.
LEMMA SumUnfolds ==
  ASSUME NEW S, IsFiniteSet(S), NEW f, NEW s \in SUBSET S
  PROVE  SumFun(f, S)[s] = IF s = {} THEN 0
                                     ELSE f[Pick(s)] + SumFun(f, S)[s \ {Pick(s)}]
<1> DEFINE iter == SumFun(f, S)
<1>1. Sums(f, S, iter)
  BY SumExists, Zenon
<1> HIDE DEF iter
<1>2. iter[s] = IF s = {} THEN 0 ELSE f[Pick(s)] + iter[s \ {Pick(s)}]
  BY <1>1, Zenon DEF Sums
<1> QED
  BY <1>2, Zenon DEF iter

\* A sum of integers is an integer, a sum of natural numbers a natural number.
LEMMA SumTyped ==
  ASSUME NEW S, IsFiniteSet(S), NEW f, NEW t \in SUBSET S
  PROVE  /\ f \in [S -> Int] => SumFun(f, S)[t] \in Int
         /\ f \in [S -> Nat] => SumFun(f, S)[t] \in Nat
<1> DEFINE sum(s) == SumFun(f, S)[s]
           G == {s \in SUBSET S : /\ f \in [S -> Int] => sum(s) \in Int
                                  /\ f \in [S -> Nat] => sum(s) \in Nat}
<1>1. \A s \in SUBSET S : sum(s) = IF s = {} THEN 0 ELSE f[Pick(s)] + sum(s \ {Pick(s)})
  BY SumUnfolds, Zenon
<1> HIDE DEF sum
<1>2. {} \in G
  <2>1. sum({}) = 0
    BY <1>1, Zenon
  <2> QED
    BY <2>1
<1>3. ASSUME NEW s \in SUBSET S, s # {}, \A x \in s : s \ {x} \in G
      PROVE  s \in G
  <2>1. Pick(s) \in s
    BY <1>3, Zenon DEF Pick
  <2>2. sum(s) = f[Pick(s)] + sum(s \ {Pick(s)})
    BY <1>1, <1>3, Zenon
  <2>3. s \ {Pick(s)} \in G
    BY <1>3, <2>1, Zenon
  <2> QED
    BY <2>1, <2>2, <2>3
<1>4. SUBSET S \subseteq G
  <2> HIDE DEF G
  <2> QED BY <1>2, <1>3, SubsetInduct, Zenon
<1> QED
  BY <1>4, Zenon DEF sum

\* A sum of integers is an integer, and any element can be taken out of it.
LEMMA SumRemoves ==
  ASSUME NEW S, IsFiniteSet(S), NEW f \in [S -> Int], NEW t \in SUBSET S
  PROVE  /\ SumFun(f, S)[t] \in Int
         /\ \A x \in t : SumFun(f, S)[t] = f[x] + SumFun(f, S)[t \ {x}]
<1> DEFINE sum(s) == SumFun(f, S)[s]
           G == {s \in SUBSET S : sum(s) \in Int /\ \A x \in s : sum(s) = f[x] + sum(s \ {x})}
<1>1. \A s \in SUBSET S : sum(s) = IF s = {} THEN 0 ELSE f[Pick(s)] + sum(s \ {Pick(s)})
  BY SumUnfolds, Zenon
<1> HIDE DEF sum
<1>2. {} \in G
  BY <1>1
<1>3. ASSUME NEW s \in SUBSET S, s # {}, \A x \in s : s \ {x} \in G
      PROVE  s \in G
  <2>1. Pick(s) \in s
    BY <1>3, Zenon DEF Pick
  <2>2. sum(s) = f[Pick(s)] + sum(s \ {Pick(s)})
    BY <1>1, <1>3, Zenon
  <2>3. \A x \in s : sum(s \ {x}) \in Int /\ f[x] \in Int
    BY <1>3, Zenon
  <2>4. sum(s) \in Int
    BY <2>1, <2>2, <2>3
  <2>5. ASSUME NEW x \in s PROVE sum(s) = f[x] + sum(s \ {x})
    <3>1. CASE x = Pick(s)
      BY <2>2, <3>1, Zenon
    <3>2. CASE x # Pick(s)
      <4> DEFINE p == Pick(s)
                 u == (s \ {p}) \ {x}
      <4>1. u = (s \ {x}) \ {p}
        BY Zenon
      <4>2. sum(s \ {p}) = f[x] + sum(u)
        <5>1. x \in s \ {p}
          BY <3>2, Zenon
        <5>2. s \ {p} \in G
          BY <1>3, <2>1, Zenon
        <5> QED
          BY <5>1, <5>2, Zenon
      <4>3. sum(s \ {x}) = f[p] + sum(u)
        <5>1. p \in s \ {x}
          BY <2>1, <3>2, Zenon
        <5>2. s \ {x} \in G
          BY <1>3, Zenon
        <5>3. sum(s \ {x}) = f[p] + sum((s \ {x}) \ {p})
          BY <5>1, <5>2, Zenon
        <5> QED
          BY <4>1, <5>3, Zenon
      <4>4. sum(u) \in Int
        BY SumTyped, Zenon DEF sum
      <4> QED
        BY <2>1, <2>2, <2>3, <4>2, <4>3, <4>4
    <3> QED
      BY <3>1, <3>2, Zenon
  <2> QED
    BY <2>4, <2>5, Zenon
<1>4. SUBSET S \subseteq G
  <2> HIDE DEF G
  <2> QED BY <1>2, <1>3, SubsetInduct, Zenon
<1> QED
  BY <1>4, Zenon DEF sum

\* Two functions that differ at x only have sums that differ by what x has.
LEMMA SumChanges ==
  ASSUME NEW S, IsFiniteSet(S), NEW f \in [S -> Int], NEW g \in [S -> Int],
         NEW x \in S, \A y \in S : y # x => f[y] = g[y]
  PROVE  SumFun(g, S)[S] = SumFun(f, S)[S] + (g[x] - f[x])
<1> DEFINE sf(s) == SumFun(f, S)[s]
           sg(s) == SumFun(g, S)[s]
           G == {s \in SUBSET S : x \notin s => sf(s) = sg(s)}
<1>1. /\ \A s \in SUBSET S : sf(s) = IF s = {} THEN 0 ELSE f[Pick(s)] + sf(s \ {Pick(s)})
      /\ \A s \in SUBSET S : sg(s) = IF s = {} THEN 0 ELSE g[Pick(s)] + sg(s \ {Pick(s)})
  BY SumUnfolds, Zenon
<1>2. /\ sf(S) = f[x] + sf(S \ {x})
      /\ sg(S) = g[x] + sg(S \ {x})
      /\ sf(S \ {x}) \in Int
  <2>1. \A t \in SUBSET S : sf(t) \in Int /\ \A y \in t : sf(t) = f[y] + sf(t \ {y})
    BY SumRemoves, Zenon
  <2>2. \A t \in SUBSET S : sg(t) \in Int /\ \A y \in t : sg(t) = g[y] + sg(t \ {y})
    BY SumRemoves, Zenon
  <2> HIDE DEF sf, sg
  <2> QED
    BY <2>1, <2>2, Zenon
<1> HIDE DEF sf, sg
<1>3. {} \in G
  BY <1>1, Zenon
<1>4. ASSUME NEW s \in SUBSET S, s # {}, \A y \in s : s \ {y} \in G
      PROVE  s \in G
  <2> SUFFICES ASSUME x \notin s PROVE sf(s) = sg(s)
    BY Zenon
  <2>1. Pick(s) \in s
    BY <1>4, Zenon DEF Pick
  <2>2. f[Pick(s)] = g[Pick(s)]
    BY <2>1, Zenon
  <2>3. sf(s \ {Pick(s)}) = sg(s \ {Pick(s)})
    BY <1>4, <2>1, Zenon
  <2> QED
    BY <1>1, <1>4, <2>2, <2>3, Zenon
<1>5. SUBSET S \subseteq G
  <2> HIDE DEF G
  <2> QED BY <1>3, <1>4, SubsetInduct, Zenon
<1>6. sf(S \ {x}) = sg(S \ {x})
  BY <1>5, Zenon
<1> QED
  BY <1>2, <1>6 DEF sf, sg

\* The sum of zeros is zero.
LEMMA SumOfZeros ==
  ASSUME NEW S, IsFiniteSet(S), NEW f, \A x \in S : f[x] = 0
  PROVE  SumFun(f, S)[S] = 0
<1> DEFINE sum(s) == SumFun(f, S)[s]
           G == {s \in SUBSET S : sum(s) = 0}
<1>1. \A s \in SUBSET S : sum(s) = IF s = {} THEN 0 ELSE f[Pick(s)] + sum(s \ {Pick(s)})
  BY SumUnfolds, Zenon
<1> HIDE DEF sum
<1>2. {} \in G
  BY <1>1, Zenon
<1>3. ASSUME NEW s \in SUBSET S, s # {}, \A x \in s : s \ {x} \in G
      PROVE  s \in G
  <2>1. Pick(s) \in s
    BY <1>3, Zenon DEF Pick
  <2>2. f[Pick(s)] = 0 /\ sum(s \ {Pick(s)}) = 0
    BY <1>3, <2>1, Zenon
  <2> QED
    BY <1>1, <1>3, <2>2
<1>4. SUBSET S \subseteq G
  <2> HIDE DEF G
  <2> QED BY <1>2, <1>3, SubsetInduct, Zenon
<1> QED
  BY <1>4, Zenon DEF sum

\* A total of natural numbers, and how it follows a change of one stream.
LEMMA TotalTyped ==
  ASSUME NEW f \in [Sids -> Nat]
  PROVE  Total(f) \in Nat
<1>1. IsFiniteSet(Sids)
  BY ReceiveConstants, FS_Union, Zenon DEF Sids
<1>2. \A t \in SUBSET Sids : SumFun(f, Sids)[t] \in Nat
  BY <1>1, SumTyped, Zenon
<1> QED
  BY <1>2, TotalIsSum, Zenon

\* A total changes by what one stream changes.
LEMMA TotalChanges ==
  ASSUME NEW f \in [Sids -> Nat], NEW x \in Sids, NEW n \in Nat
  PROVE  Total([f EXCEPT ![x] = n]) = Total(f) + (n - f[x])
<1>1. IsFiniteSet(Sids)
  BY ReceiveConstants, FS_Union, Zenon DEF Sids
<1> DEFINE g == [f EXCEPT ![x] = n]
<1>2. f \in [Sids -> Int] /\ g \in [Sids -> Int] /\ g[x] = n /\ \A y \in Sids : y # x => f[y] = g[y]
  OBVIOUS
<1> HIDE DEF g
<1>3. SumFun(g, Sids)[Sids] = SumFun(f, Sids)[Sids] + (g[x] - f[x])
  BY <1>1, <1>2, SumChanges, Zenon
<1>4. Total(g) = Total(f) + (g[x] - f[x])
  BY <1>3, TotalIsSum, Zenon
<1> QED
  BY <1>2, <1>4, Zenon DEF g

\* Bytes are owed only by a call that is between taking them and returning their
\* credit: poll_read on an open stream, or Drop after recycle.
OwedHeld == \A s \in Sids : owed[s] # 0 => handle[s] \in {"open", "refund"}

\* What the reader holds between spend_tokens and push_bytes.
InHand == IF rpc = "push" THEN cur.len ELSE 0

\* A step that moves no credit and leaves the handles that may owe it alone.
LEMMA CreditStays ==
  ASSUME TypeOK, CreditConserved, OwedHeld,
         UNCHANGED <<bucket, buffered, owed>>, InHand' = InHand,
         \A s \in Sids : handle[s] \in {"open", "refund"} => handle'[s] \in {"open", "refund"}
  PROVE  CreditConserved' /\ OwedHeld'
<1>1. CreditConserved'
  BY Zenon DEF CreditConserved, InHand
<1>2. OwedHeld'
  BY Zenon DEF OwedHeld
<1> QED
  BY <1>1, <1>2, Zenon

\* The steps of the reader keep the credit.
LEMMA CreditReader ==
  TypeOK /\ Registered /\ CreditConserved /\ OwedHeld /\ ReaderStep
    => CreditConserved' /\ OwedHeld'
<1> SUFFICES ASSUME TypeOK, Registered, CreditConserved, OwedHeld, ReaderStep
             PROVE  CreditConserved' /\ OwedHeld'
  BY Zenon
<1>0. /\ bucket \in Int /\ buffered \in [Sids -> Nat] /\ owed \in [Sids -> Nat]
      /\ Total(buffered) \in Nat /\ Total(owed) \in Nat /\ MaxBuf \in Nat
  BY TotalTyped, ReceiveConstants, Zenon DEF TypeOK, CreditTyped, StreamsTyped
<1>1. CASE ReadGate \/ CheckBeforeWait \/ CheckAfterWait \/ ReaderReturns \/ Notified
  <2>1. UNCHANGED <<bucket, buffered, owed, handle>> /\ InHand' = InHand
    BY <1>1, Zenon DEF ReadGate, CheckBeforeWait, CheckAfterWait, ReaderReturns, Notified, Goto,
       InHand, creditVars, streamVars
  <2> QED
    BY <2>1, CreditStays, Zenon
<1>2. CASE spend_tokens
  <2>1. UNCHANGED <<buffered, owed, handle>> /\ bucket' = bucket - cur.len
    BY <1>2, Zenon DEF spend_tokens, streamVars
  <2>2. cur.len \in Nat /\ InHand = 0 /\ InHand' = cur.len
    BY <1>2, ReceiveConstants DEF spend_tokens, Goto, InHand, TypeOK, ReaderTyped
  <2>3. CreditConserved'
    <3>1. bucket + Total(buffered) + Total(owed) + InHand = MaxBuf
      BY Zenon DEF CreditConserved, InHand
    <3>2. bucket' + Total(buffered) + Total(owed) + InHand' = MaxBuf
      BY <1>0, <2>1, <2>2, <3>1
    <3> QED
      BY <2>1, <3>2, Zenon DEF CreditConserved, InHand
  <2>4. OwedHeld'
    BY <2>1, Zenon DEF OwedHeld
  <2> QED
    BY <2>3, <2>4, Zenon
<1>3. CASE push_bytes
  <2>1. UNCHANGED <<bucket, owed, handle>>
    BY <1>3, Zenon DEF push_bytes, creditVars
  <2>2. cur.sid \in Sids /\ cur.len \in Nat /\ InHand = cur.len /\ InHand' = 0
    BY <1>3, ReceiveConstants DEF push_bytes, NextFrame, Goto, InHand, TypeOK, ReaderTyped
  <2>3. PICK s \in Sids : s = cur.sid
    BY <2>2, Zenon
  <2>4. PICK n \in Nat : n = buffered[s] + cur.len
    BY <1>0, <2>2
  <2>5. buffered' = [buffered EXCEPT ![s] = n]
    BY <1>3, <2>3, <2>4, Zenon DEF push_bytes
  <2>6. Total(buffered') = Total(buffered) + (n - buffered[s])
    BY <1>0, <2>5, TotalChanges, Zenon
  <2>7. CreditConserved'
    <3>1. bucket + Total(buffered) + Total(owed) + InHand = MaxBuf
      BY Zenon DEF CreditConserved, InHand
    <3>2. buffered[s] \in Nat
      BY <1>0, Zenon
    <3>3. bucket + Total(buffered') + Total(owed) + InHand' = MaxBuf
      BY <1>0, <2>2, <2>4, <2>6, <3>1, <3>2
    <3> QED
      BY <2>1, <3>3, Zenon DEF CreditConserved, InHand
  <2>8. OwedHeld'
    BY <2>1, Zenon DEF OwedHeld
  <2> QED
    BY <2>7, <2>8, Zenon
<1>4. CASE deliver_accept \/ ReaderAborted
  <2>1. UNCHANGED <<bucket, buffered, owed>>
    BY <1>4, Zenon DEF deliver_accept, ReaderAborted, creditVars
  <2>2. InHand' = InHand
    BY <1>4, Zenon DEF deliver_accept, ReaderAborted, GiveUp, NextFrame, Goto, InHand
  <2>3. \A s \in Sids : handle[s] \in {"open", "refund"} => handle'[s] \in {"open", "refund"}
    BY <1>4, Zenon DEF deliver_accept, ReaderAborted, GiveUp, Registered, ReaderHolds, TypeOK,
       StreamsTyped
  <2> QED
    BY <2>1, <2>2, <2>3, CreditStays, Zenon
<1> QED
  BY <1>1, <1>2, <1>3, <1>4, Zenon DEF ReaderStep

\* The steps of the application keep the credit.
LEMMA CreditApplication ==
  TypeOK /\ CreditConserved /\ OwedHeld /\ Application => CreditConserved' /\ OwedHeld'
<1> SUFFICES ASSUME TypeOK, CreditConserved, OwedHeld, Application
             PROVE  CreditConserved' /\ OwedHeld'
  BY Zenon
<1>0. /\ bucket \in Int /\ buffered \in [Sids -> Nat] /\ owed \in [Sids -> Nat]
      /\ Total(buffered) \in Nat /\ Total(owed) \in Nat /\ MaxBuf \in Nat
      /\ handle \in [Sids -> Handles]
  BY TotalTyped, ReceiveConstants, Zenon DEF TypeOK, CreditTyped, StreamsTyped
<1>h. bucket + Total(buffered) + Total(owed) + InHand = MaxBuf
  BY Zenon DEF CreditConserved, InHand
<1>i. InHand \in Nat
  BY ReceiveConstants DEF InHand, TypeOK, ReaderTyped
<1>m. ASSUME NEW s \in Sids, NEW m \in Nat, NEW n \in Nat,
             UNCHANGED <<rpc, cur>>, bucket' + m + n = bucket + buffered[s] + owed[s], bucket' \in Int,
             buffered' = [buffered EXCEPT ![s] = m], owed' = [owed EXCEPT ![s] = n]
      PROVE  CreditConserved'
  <2>1. Total(buffered') = Total(buffered) + (m - buffered[s])
    BY <1>0, <1>m, TotalChanges, Zenon
  <2>2. Total(owed') = Total(owed) + (n - owed[s])
    BY <1>0, <1>m, TotalChanges, Zenon
  <2>3. buffered[s] \in Nat /\ owed[s] \in Nat
    BY <1>0, Zenon
  <2>4. bucket' + Total(buffered') + Total(owed') + InHand = MaxBuf
    BY <1>0, <1>h, <1>i, <1>m, <2>1, <2>2, <2>3
  <2> QED
    BY <1>m, <2>4, Zenon DEF CreditConserved, InHand
<1>1. ASSUME NEW s \in Sids,
             OpenCheck(s) \/ OpenInsert(s) \/ OpenPush(s) \/ DropStream(s) \/ remove_stream(s)
      PROVE  CreditConserved' /\ OwedHeld'
  <2>1. UNCHANGED <<bucket, buffered, owed, rpc, cur>>
    BY <1>1, Zenon DEF OpenCheck, OpenInsert, OpenPush, DropStream, remove_stream, creditVars, readerVars
  <2>2. handle[s] # "refund" /\ owed[s] = 0
    BY <1>0, <1>1, Zenon DEF OpenCheck, OpenInsert, OpenPush, DropStream, remove_stream, OwedHeld
  <2>3. CreditConserved'
    BY <2>1, Zenon DEF CreditConserved
  <2>4. \A t \in Sids : t # s => handle'[t] = handle[t]
    BY <1>0, <1>1, Zenon DEF OpenCheck, OpenInsert, OpenPush, DropStream, remove_stream, Holds
  <2>5. OwedHeld'
    BY <2>1, <2>2, <2>4, Zenon DEF OwedHeld
  <2> QED
    BY <2>3, <2>5, Zenon
<1>2. ASSUME NEW s \in Sids, poll_read(s) PROVE CreditConserved' /\ OwedHeld'
  <2>0. UNCHANGED <<bucket, rpc, cur, handle>> /\ owed[s] = 0 /\ handle[s] = "open"
    BY <1>2, Zenon DEF poll_read, Polled, creditVars, readerVars
  <2>1. CASE TakeBytes(s)
    <3>1. PICK n \in 1..buffered[s] : /\ buffered' = [buffered EXCEPT ![s] = @ - n]
                                      /\ owed' = [owed EXCEPT ![s] = n]
      BY <2>1, Zenon DEF TakeBytes
    <3>2. buffered[s] \in Nat /\ n \in Nat
      BY <1>0
    <3>3. PICK m \in Nat : m = buffered[s] - n
      BY <3>2
    <3>4. buffered' = [buffered EXCEPT ![s] = m]
      BY <3>1, <3>3, Zenon
    <3>5. bucket' + m + n = bucket + buffered[s] + owed[s] /\ bucket' \in Int
      BY <1>0, <2>0, <3>2, <3>3
    <3>6. CreditConserved'
      BY <1>m, <2>0, <3>1, <3>2, <3>4, <3>5, Zenon
    <3>7. OwedHeld'
      BY <1>0, <2>0, <3>1, Zenon DEF OwedHeld
    <3> QED
      BY <3>6, <3>7, Zenon
  <2>2. CASE UNCHANGED <<buffered, owed>>
    BY <2>0, <2>2, Zenon DEF CreditConserved, OwedHeld
  <2> QED
    BY <1>2, <2>1, <2>2, Zenon DEF poll_read
<1>3. ASSUME NEW s \in Sids, Refund(s) PROVE CreditConserved' /\ OwedHeld'
  <2>1. /\ UNCHANGED <<rpc, cur, buffered>>
        /\ bucket' = bucket + owed[s] /\ owed' = [owed EXCEPT ![s] = 0]
    BY <1>3, Zenon DEF Refund, return_tokens, readerVars
  <2>2. PICK m \in Nat : m = buffered[s]
    BY <1>0, Zenon
  <2>3. buffered' = [buffered EXCEPT ![s] = m]
    BY <1>0, <2>1, <2>2, Zenon
  <2>4. bucket' + m + 0 = bucket + buffered[s] + owed[s] /\ bucket' \in Int
    BY <1>0, <2>1, <2>2
  <2>5. CreditConserved'
    BY <1>m, <2>1, <2>3, <2>4, Zenon
  <2>6. \A t \in Sids : t # s => handle'[t] = handle[t]
    BY <1>0, <1>3, Zenon DEF Refund, Holds
  <2>7. OwedHeld'
    BY <1>0, <2>1, <2>6, Zenon DEF OwedHeld
  <2> QED
    BY <2>5, <2>7, Zenon
<1>4. ASSUME NEW s \in Sids, recycle(s) PROVE CreditConserved' /\ OwedHeld'
  <2>1. /\ UNCHANGED <<rpc, cur, bucket>> /\ handle[s] = "recycle"
        /\ owed' = [owed EXCEPT ![s] = buffered[s]] /\ buffered' = [buffered EXCEPT ![s] = 0]
        /\ handle' = [handle EXCEPT ![s] = "refund"]
    BY <1>4, Zenon DEF recycle, Holds, readerVars, creditVars
  <2>2. PICK n \in Nat : n = buffered[s]
    BY <1>0, Zenon
  <2>3. owed[s] = 0
    BY <1>0, <2>1, Zenon DEF OwedHeld
  <2>4. bucket' + 0 + n = bucket + buffered[s] + owed[s] /\ bucket' \in Int
    BY <1>0, <2>1, <2>2, <2>3
  <2>5. CreditConserved'
    BY <1>m, <2>1, <2>2, <2>4, Zenon
  <2>6. OwedHeld'
    BY <1>0, <2>1, Zenon DEF OwedHeld
  <2> QED
    BY <2>5, <2>6, Zenon
<1>5. CASE accept_stream \/ CloseSession \/ DropSession
  <2>1. UNCHANGED <<bucket, buffered, owed, rpc, cur>>
    BY <1>5, Zenon DEF accept_stream, CloseSession, DropSession, creditVars, readerVars, streamVars
  <2>2. \A t \in Sids : handle[t] \in {"open", "refund"} => handle'[t] \in {"open", "refund"}
    BY <1>0, <1>5, Zenon DEF accept_stream, CloseSession, DropSession, Holds, streamVars
  <2>3. InHand' = InHand
    BY <2>1, Zenon DEF InHand
  <2> QED
    BY <2>1, <2>2, <2>3, CreditStays, Zenon
<1> QED
  BY <1>1, <1>2, <1>3, <1>4, <1>5, Zenon DEF Application, Finish, Sids

\* Every byte of receive credit is in one place, for any number of streams: in the
\* bucket, on a stream, owed by a poll_read or a Drop, or in the reader's hand.
\* spend_tokens, push_bytes, poll_read, return_tokens and recycle only move it.
THEOREM CreditAccounted == Spec => [](CreditConserved /\ OwedHeld)
<1>1. Init => CreditConserved /\ OwedHeld
  <2> SUFFICES ASSUME Init PROVE CreditConserved /\ OwedHeld
    BY Zenon
  <2>1. /\ bucket = MaxBuf /\ rpc = "gate"
        /\ buffered = [s \in Sids |-> 0] /\ owed = [s \in Sids |-> 0]
    BY Zenon DEF Init
  <2>2. IsFiniteSet(Sids)
    BY ReceiveConstants, FS_Union, Zenon DEF Sids
  <2>3. Total(buffered) = 0 /\ Total(owed) = 0
    BY <2>1, <2>2, SumOfZeros, TotalIsSum, Zenon
  <2>4. CreditConserved
    BY <2>1, <2>3, ReceiveConstants DEF CreditConserved
  <2>5. OwedHeld
    BY <2>1, Zenon DEF OwedHeld
  <2> QED
    BY <2>4, <2>5, Zenon
<1>2. /\ TypeOK /\ Registered /\ CreditConserved /\ OwedHeld
      /\ [Next]_vars
      => CreditConserved' /\ OwedHeld'
  <2> SUFFICES ASSUME TypeOK, Registered, CreditConserved, OwedHeld, [Next]_vars
               PROVE  CreditConserved' /\ OwedHeld'
    BY Zenon
  <2>1. CASE Receive
    <3>1. UNCHANGED <<bucket, buffered, owed>>
      BY <2>1, Zenon DEF Receive, OnNop, OnInvalid, ReadError, UpdRead, PayloadRead, OnSyn, set_fin,
         OnPsh, HeaderRead, creditVars, streamVars
    <3>2. rpc # "push" /\ rpc' # "push"
      BY <2>1, Zenon DEF Receive, OnNop, OnInvalid, ReadError, UpdRead, PayloadRead, OnSyn, set_fin,
         OnPsh, HeaderRead, NextFrame, Goto
    <3>3. \A t \in Sids : handle[t] \in {"open", "refund"} => handle'[t] \in {"open", "refund"}
      BY <2>1, Zenon DEF Receive, OnNop, OnInvalid, ReadError, UpdRead, PayloadRead, OnSyn, set_fin,
         OnPsh, streamVars, TypeOK, StreamsTyped
    <3>4. InHand' = InHand
      BY <3>2, Zenon DEF InHand
    <3> QED
      BY <3>1, <3>3, <3>4, CreditStays, Zenon
  <2>2. CASE FailStep \/ Keepalive \/ UNCHANGED vars
    <3>1. UNCHANGED <<bucket, buffered, owed, handle, rpc, cur>>
      BY <2>2, Zenon DEF FailStep, CloseQueue, DrainStreams, set_dead, NotifyReader, Keepalive, Ping,
         Deadline, Expired, KeepaliveLoops, vars, creditVars, streamVars, readerVars
    <3>2. InHand' = InHand
      BY <3>1, Zenon DEF InHand
    <3> QED
      BY <3>1, <3>2, CreditStays, Zenon
  <2> QED
    BY <2>1, <2>2, CreditReader, CreditApplication, Zenon DEF Next
<1> QED
  BY <1>1, <1>2, ReceiveTyped, StreamsRegistered, PTL DEF Spec

\* The account of receive credit is right for any number of streams and any
\* limits, and with the floor of the bucket it bounds the memory a session's
\* streams can take: less than one payload above max_receive_buffer, however many
\* streams there are and whether or not they are read.
THEOREM ReceiveMemoryBounded == Spec => []CreditKept
<1>1. TypeOK /\ BucketFloor /\ CreditConserved => CreditKept
  <2> SUFFICES ASSUME TypeOK, BucketFloor, CreditConserved PROVE MemoryBounded
    BY Zenon DEF CreditKept
  <2>1. /\ bucket \in Int /\ Total(buffered) \in Nat /\ Total(owed) \in Nat
        /\ MaxBuf \in Nat /\ MaxLen \in Nat
    BY TotalTyped, ReceiveConstants, Zenon DEF TypeOK, CreditTyped, StreamsTyped
  <2>2. InHand \in Nat
    BY ReceiveConstants DEF InHand, TypeOK, ReaderTyped
  <2>3. bucket + Total(buffered) + Total(owed) + InHand = MaxBuf
    BY Zenon DEF CreditConserved, InHand
  <2>4. bucket > -MaxLen
    BY Zenon DEF BucketFloor
  <2> QED
    BY <2>1, <2>2, <2>3, <2>4 DEF MemoryBounded
<1> QED
  BY <1>1, ReceiveTyped, CreditFloor, CreditAccounted, PTL

===============================================================================
