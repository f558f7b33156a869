---------------------------- MODULE EventBusProofs ----------------------------
(***************************************************************************)
(* Theorems of EventBus, for any topics and any bounds: the inductive      *)
(* invariant, the order of dispatch, and what stop leaves behind.          *)
(***************************************************************************)
EXTENDS EventBus, SequenceTheorems, TLAPS

USE DEF Messages, Events

LEMMA InitIInv == Init => IInv
<1>. SUFFICES ASSUME Init PROVE IInv
  OBVIOUS
<1>. USE BoundAssumption DEF Init
<1>1. TypeOK
  <2>1. ASSUME NEW S PROVE <<>> \in Seq(S)
    BY EmptySeq
  <2>2. log \in [Topics -> Seq(0 .. MaxEvents - 1)]
    BY <2>1
  <2>3. 0 \in 0 .. MaxEvents /\ 0 \in 0 .. MaxLog
    OBVIOUS
  <2>. QED  BY <2>2, <2>3 DEF TypeOK
<1>2. Control
  BY DEF Control
<1>3. ASSUME NEW t \in Topics PROVE Offsets(t) /\ Handled(t) /\ Settled(t)
  BY DEF Offsets, Handled, Settled
<1>. QED  BY <1>1, <1>2, <1>3 DEF IInv

(* The offsets a commit stores are offsets that were dispatched. *)
LEMMA StoredOK ==
  ASSUME IInv
  PROVE  /\ Stored \in [Topics -> 0 .. MaxLog]
         /\ \A t \in Topics : Stored[t] <= begun[t]
         /\ \A t \in Topics : committed[t] <= Stored[t]
         /\ ~lapsed => \A t \in Topics : Stored[t] = begun[t]
  BY BoundAssumption DEF IInv, TypeOK, Control, Offsets, Handled, Settled, Stored

(* The next process starts with nothing but what Kafka keeps. *)
LEMMA FreshIInv ==
  ASSUME IInv, Fresh, UNCHANGED <<begun, ended, next, kafkaVars>>,
         lapsed' \in BOOLEAN, ~lapsed' => ~lapsed /\ Stored = committed
  PROVE  IInv'
<1>. USE DEF Fresh, kafkaVars
<1>1. TypeOK'
  <2>1. position' \in [Topics -> 0 .. MaxLog]
    BY BoundAssumption
  <2>2. outbox' \subseteq Events /\ owed' \subseteq outbox'
    OBVIOUS
  <2>. QED  BY <2>1, <2>2 DEF IInv, TypeOK
<1>2. Control'
  BY DEF Control
<1>3. ASSUME NEW t \in Topics PROVE Offsets(t)' /\ Handled(t)'
  BY BoundAssumption DEF IInv, TypeOK, Offsets, Handled
<1>4. ASSUME NEW t \in Topics, ~lapsed' PROVE Settled(t)'
  BY <1>4, StoredOK DEF Settled
<1>. QED  BY <1>1, <1>2, <1>3, <1>4 DEF IInv

(* Registration, publishing and the steps of start and stop. *)
LEMMA LifeIInv ==
  ASSUME IInv, NEW t \in Topics,
         Subscribe(t) \/ Publish(t)
  PROVE  IInv'
<1>. USE BoundAssumption DEF IInv, TypeOK, Control, Offsets, Handled, Settled, vars,
     lifeVars, loopVars, sendVars, kafkaVars
<1>1. CASE Subscribe(t)
  BY <1>1 DEF Subscribe
<1>2. CASE Publish(t)
  <2>. USE <1>2 DEF Publish
  <2>1. <<t, next>> \in Events /\ next + 1 \in 0 .. MaxEvents
    OBVIOUS
  <2>2. owed' \subseteq outbox' /\ outbox' \subseteq Events
    BY <2>1
  <2>3. TypeOK'
    BY <2>1, <2>2
  <2>4. Control'
    OBVIOUS
  <2>5. \A u \in Topics : Offsets(u)' /\ Handled(u)' /\ (~lapsed => Settled(u)')
    OBVIOUS
  <2>6. main = "stopped" => owed' = {}
    OBVIOUS
  <2>. QED  BY <2>3, <2>4, <2>5, <2>6
<1>. QED  BY <1>1, <1>2

(* The steps of start and stop that touch no offset. *)
LEMMA QuietIInv ==
  ASSUME IInv, Start \/ StopSignal \/ StopJoin \/ StopFlush
  PROVE  IInv'
<1>. USE BoundAssumption DEF IInv, TypeOK, Control, Offsets, Handled, Settled, vars,
     lifeVars, loopVars, sendVars, kafkaVars
<1>1. CASE Start
  BY <1>1 DEF Start
<1>2. CASE StopSignal
  BY <1>2 DEF StopSignal
<1>3. CASE StopJoin
  BY <1>3 DEF StopJoin, Join
<1>4. CASE StopFlush
  BY <1>4 DEF StopFlush, Flushed
<1>. QED  BY <1>1, <1>2, <1>3, <1>4

(* Committing, in the background or when the consumer is closed. *)
LEMMA CommitIInv ==
  ASSUME IInv, StopClose \/ AutoCommit
  PROVE  IInv'
<1>. USE DEF IInv, vars, lifeVars, loopVars, sendVars, kafkaVars
<1>1. /\ UNCHANGED <<stop, handlers, thread, topics, current, position, begun,
                      ended, outbox, next, owed, log>>
      /\ \/ open' = open /\ main' = main
         \/ main = "joined" /\ main' = "closed" /\ open' = FALSE
  BY DEF StopClose, AutoCommit
<1>2. /\ committed' \in {committed, Stored}
      /\ lapsed' \in BOOLEAN
      /\ ~lapsed' => ~lapsed /\ committed' = Stored
  BY DEF StopClose, AutoCommit, Lapse, TypeOK
<1>3. TypeOK'
  BY <1>1, <1>2, StoredOK DEF TypeOK
<1>4. Control'
  BY <1>1 DEF Control
<1>5. ASSUME NEW t \in Topics PROVE Offsets(t)'
  BY <1>1, <1>2, StoredOK DEF Offsets
<1>6. ASSUME NEW t \in Topics PROVE Handled(t)'
  <2>1. CASE committed' = committed
    BY <1>1, <2>1 DEF Handled
  <2>2. CASE committed' = Stored /\ t \in topics
    <3>1. committed'[t] = position[t] /\ position[t] \in Nat
      BY <2>2, BoundAssumption DEF Stored, TypeOK
    <3>. QED  BY <1>1, <3>1 DEF Handled
  <2>. QED  BY <1>1, <1>2, <2>1, <2>2 DEF Handled
<1>7. ASSUME ~lapsed', NEW t \in Topics PROVE Settled(t)'
  <2>1. ~lapsed /\ committed' = Stored
    BY <1>2, <1>7
  <2>2. committed'[t] = begun[t] /\ Settled(t)
    BY <2>1, StoredOK
  <2>. QED  BY <1>1, <2>2 DEF Settled
<1>8. main' = "stopped" => owed' = {}
  BY <1>1
<1>. QED  BY <1>3, <1>4, <1>5, <1>6, <1>7, <1>8

(* The consumer thread. *)
LEMMA LoopIInv ==
  ASSUME IInv, LoopSubscribe \/ LoopTest \/ PollNothing \/ Return
  PROVE  IInv'
<1>. USE BoundAssumption, NameAssumption DEF IInv, TypeOK, Control, Offsets, Handled,
     Settled, vars, lifeVars, loopVars, sendVars, kafkaVars
<1>1. CASE LoopSubscribe
  BY <1>1 DEF LoopSubscribe
<1>2. CASE LoopTest
  BY <1>2 DEF LoopTest
<1>3. CASE PollNothing
  BY <1>3 DEF PollNothing
<1>4. CASE Return
  BY <1>4 DEF Return
<1>. QED  BY <1>1, <1>2, <1>3, <1>4

(* A consumer that was expelled goes back to what is committed. *)
LEMMA RejoinIInv ==
  ASSUME IInv, Rejoin
  PROVE  IInv'
<1>. USE BoundAssumption DEF IInv, vars, lifeVars, loopVars, sendVars, kafkaVars
<1>. USE DEF Rejoin, Lapse
<1>1. TypeOK'
  BY DEF TypeOK
<1>2. Control'
  BY DEF Control
<1>3. ASSUME NEW t \in Topics PROVE Offsets(t)'
  BY DEF TypeOK, Offsets
<1>4. ASSUME NEW t \in Topics PROVE Handled(t)'
  <2>1. committed[t] \in Nat
    BY DEF TypeOK
  <2>. QED  BY <2>1 DEF Handled
<1>5. ASSUME ~lapsed', NEW t \in Topics PROVE Settled(t)'
  BY <1>5, StoredOK DEF Settled
<1>. QED  BY <1>1, <1>2, <1>3, <1>4, <1>5

LEMMA PollIInv ==
  ASSUME IInv, NEW t \in Topics, Poll(t)
  PROVE  IInv'
<1>. USE BoundAssumption, NameAssumption DEF IInv, TypeOK, Control, Offsets, Handled,
     Settled, vars, lifeVars, loopVars, sendVars, kafkaVars
<1>. USE DEF Poll
<1>1. position[t] + 1 \in 1 .. MaxLog
  OBVIOUS
<1>2. position' \in [Topics -> 0 .. MaxLog] /\ begun' \in [Topics -> 0 .. MaxLog]
  BY <1>1
<1>3. current' \in Messages /\ current' # NoMessage
  BY <1>1
<1>4. TypeOK'
  BY <1>2, <1>3
<1>5. Control'
  BY <1>3
<1>6. ASSUME NEW u \in Topics PROVE Offsets(u)'
  OBVIOUS
<1>7. ASSUME NEW u \in Topics PROVE Handled(u)'
  <2>1. committed[u] \in 0 .. MaxLog /\ position[u] \in 0 .. MaxLog
    OBVIOUS
  <2>2. ASSUME NEW n \in committed[u] + 1 .. position[u], u \in topics
        PROVE  <<u, n>> \in ended
    <3>1. n \in 1 .. MaxLog
      BY <2>1
    <3>2. <<u, n>> \in Topics \X (1 .. MaxLog)
      BY <3>1
    <3>3. <<u, n>> # current
      BY <3>2
    <3>. QED  BY <2>2, <3>3
  <2>3. CASE u = t
    <3>1. position'[u] = position[u] + 1 /\ current' = <<u, position[u] + 1>>
      BY <2>3
    <3>2. \A n \in committed[u] + 1 .. position'[u] :
            n \in committed[u] + 1 .. position[u] \/ n = position[u] + 1
      BY <2>1, <3>1
    <3>. QED  BY <2>1, <2>2, <2>3, <3>1, <3>2
  <2>4. CASE u # t
    BY <2>2, <2>4
  <2>. QED  BY <2>3, <2>4
<1>8. ASSUME NEW u \in Topics, ~lapsed PROVE Settled(u)'
  BY <1>8
<1>. QED  BY <1>4, <1>5, <1>6, <1>7, <1>8

(* librdkafka delivers an event or gives it up. *)
LEMMA SentIInv ==
  ASSUME IInv, NEW t, NEW e, Deliver(t, e) \/ Expire(t, e)
  PROVE  IInv'
<1>. USE BoundAssumption DEF IInv, TypeOK, Control, Offsets, Handled, Settled, vars,
     lifeVars, loopVars, sendVars, kafkaVars
<1>1. t \in Topics /\ e \in 0 .. MaxEvents - 1
  BY DEF Deliver, Expire
<1>2. CASE Deliver(t, e)
  <2>1. Append(log[t], e) \in Seq(0 .. MaxEvents - 1)
    BY <1>1
  <2>2. Len(Append(log[t], e)) = Len(log[t]) + 1
    BY <1>1
  <2>. QED  BY <1>1, <1>2, <2>1, <2>2 DEF Deliver
<1>3. CASE Expire(t, e)
  BY <1>3 DEF Expire
<1>. QED  BY <1>2, <1>3

LEMMA NextIInv == IInv /\ [Next]_vars => IInv'
<1>. SUFFICES ASSUME IInv, [Next]_vars PROVE IInv'
  OBVIOUS
<1>1. CASE \E t \in Topics : Subscribe(t) \/ Publish(t)
  BY <1>1, LifeIInv
<1>2. CASE Start \/ StopSignal \/ StopJoin \/ StopFlush
  BY <1>2, QuietIInv
<1>3. CASE StopClose \/ AutoCommit
  BY <1>3, CommitIInv
<1>4. CASE Exit
  <2>1. ~lapsed => Stored = committed
    BY <1>4, StoredOK DEF Exit, IInv, TypeOK, Control, Settled, Stored
  <2>. QED  BY <1>4, <2>1, FreshIInv DEF Exit, IInv, TypeOK
<1>5. CASE Crash
  BY <1>5, FreshIInv DEF Crash, Lapse, IInv, TypeOK
<1>6. CASE Loop \/ Rejoin \/ Return
  BY <1>6, LoopIInv, PollIInv, RejoinIInv DEF Loop
<1>7. CASE Sent
  BY <1>7, SentIInv DEF Sent
<1>8. CASE UNCHANGED vars
  BY <1>8 DEF IInv, TypeOK, Control, Offsets, Handled, Settled, vars, lifeVars, loopVars,
             sendVars, kafkaVars
<1>. QED
  BY <1>1, <1>2, <1>3, <1>4, <1>5, <1>6, <1>7, <1>8 DEF Next, Stop

(* The invariant, for any topics and bounds. *)
THEOREM Inductive == Spec => []IInv
  BY InitIInv, NextIInv, PTL DEF Spec

(* Type correctness. *)
THEOREM TypeCorrect == Spec => []TypeOK
<1>1. IInv => TypeOK
  BY DEF IInv
<1>. QED  BY <1>1, Inductive, PTL

(* Once stop has returned, the process keeps no event a request published. *)
THEOREM NothingLeftBehind == Spec => []StopDelivers
<1>1. IInv => StopDelivers
  BY DEF IInv, StopDelivers
<1>. QED  BY <1>1, Inductive, PTL

(* Only poll gives the thread a message, the next one of a topic. *)
LEMMA OnlyPollGives ==
  ASSUME IInv, [Next]_vars, NEW t \in Topics, NEW n \in 1 .. MaxLog,
         current # <<t, n>>, current' = <<t, n>>
  PROVE  Poll(t) /\ n = position[t] + 1
<1>1. current' # NoMessage
  BY NameAssumption
<1>2. \E u \in Topics : Poll(u)
  BY <1>1 DEF Next, Fresh, Subscribe, Publish, Start, Stop, StopSignal, StopJoin, StopClose,
     StopFlush, Exit, Crash, Loop, LoopSubscribe, LoopTest, PollNothing, Rejoin, Return,
     Sent, Deliver, Expire, AutoCommit, vars, lifeVars, loopVars
<1>. QED  BY <1>2 DEF Poll, IInv, TypeOK

(* Messages are dispatched one after the other, none again once its offset is
   committed, and each once unless a consumer went away without committing:
   by a crash, a close that could not commit, or an expulsion. *)
THEOREM DispatchIsInOrder == Spec => DispatchedInOrder
<1>1. ASSUME IInv, [Next]_vars, NEW t \in Topics, NEW n \in 1 .. MaxLog,
             current # <<t, n>>, current' = <<t, n>>
      PROVE  /\ committed[t] < n /\ n <= begun[t] + 1
             /\ lapsed \/ n = begun[t] + 1
  <2>1. Poll(t) /\ n = position[t] + 1
    BY <1>1, OnlyPollGives
  <2>2. committed[t] <= position[t]
    BY <1>1, <2>1 DEF Poll, IInv, Handled
  <2>. QED  BY <1>1, <2>1, <2>2, BoundAssumption DEF Poll, IInv, TypeOK, Offsets, Settled
<1>2. IInv /\ [Next]_vars =>
        [\A t \in Topics, n \in 1 .. MaxLog :
           current # <<t, n>> /\ current' = <<t, n>> =>
             /\ committed[t] < n /\ n <= begun[t] + 1
             /\ lapsed \/ n = begun[t] + 1]_vars
  BY <1>1
<1>. QED  BY <1>2, Inductive, PTL DEF Spec, DispatchedInOrder

(* Offsets are committed of what poll has returned, and nothing else. *)
LEMMA OnlyReadIsCommitted ==
  ASSUME IInv, [Next]_vars, NEW t \in Topics, committed'[t] # committed[t]
  PROVE  t \in topics /\ committed'[t] = position[t]
<1>1. committed' = Stored
  BY DEF Next, Fresh, Subscribe, Publish, Start, Stop, StopSignal, StopJoin, StopClose,
     StopFlush, Exit, Crash, Loop, LoopSubscribe, LoopTest, PollNothing, Poll, Rejoin,
     Return, Sent, Deliver, Expire, AutoCommit, vars, kafkaVars
<1>. QED  BY <1>1 DEF Stored

(* The offset of a message is committed at the earliest while its handler runs,
   also by the close of a consumer under a running handler. *)
THEOREM CommittedIsHandled == Spec => CommittedWasHandled
<1>1. ASSUME IInv, [Next]_vars, NEW t \in Topics, NEW n \in 1 .. MaxLog,
             committed[t] < n, n <= committed'[t]
      PROVE  <<t, n>> \in ended \/ current = <<t, n>>
  <2>1. committed[t] \in Nat /\ position[t] \in Nat
    BY <1>1, BoundAssumption DEF IInv, TypeOK
  <2>2. committed'[t] # committed[t]
    BY <1>1, <2>1
  <2>3. t \in topics /\ n \in committed[t] + 1 .. position[t]
    BY <1>1, <2>1, <2>2, OnlyReadIsCommitted
  <2>. QED  BY <1>1, <2>3 DEF IInv, Handled
<1>2. IInv /\ [Next]_vars =>
        [\A t \in Topics, n \in 1 .. MaxLog :
           committed[t] < n /\ n <= committed'[t] =>
             <<t, n>> \in ended \/ current = <<t, n>>]_vars
  BY <1>1
<1>. QED  BY <1>2, Inductive, PTL DEF Spec, CommittedWasHandled
=============================================================================
