------------------------------- MODULE EventBus -------------------------------
(***************************************************************************)
(* KafkaMessageBroker: the life cycle of one application process, its      *)
(* consumer thread, and what librdkafka and Kafka do behind produce, poll, *)
(* close and flush (external, with the defaults the code leaves in place). *)
(*                                                                         *)
(* The lifespan of the application runs start, serves requests and runs    *)
(* stop; requests and handlers publish at any time.  Events are numbered   *)
(* in the order in which they are published.                               *)
(***************************************************************************)
EXTENDS Integers, Sequences, FiniteSets

CONSTANTS Topics,
          MaxEvents,     \* events that are published
          MaxLog,        \* messages a topic holds
          NoMessage      \* what the consumer thread works on between messages

ASSUME BoundAssumption == MaxEvents \in Nat /\ MaxLog \in Nat
ASSUME NameAssumption == NoMessage \notin Topics \X (1 .. MaxLog)

VARIABLES
  main,       \* how far the lifespan got
  thread,     \* how far the consumer thread got
  stop,       \* _stop_event is set
  open,       \* the consumer is there and was not closed
  handlers,   \* topics with a registered handler
  topics,     \* topics the consumer thread subscribed to
  current,    \* the message whose handler runs: topic and offset
  outbox,     \* events in the producer's queue
  next,       \* events published so far
  log,        \* Kafka: the messages of a topic
  position,   \* next offset the consumer reads, less one
  committed,  \* Kafka: the offset the group has committed
  begun,      \* messages given to a handler so far
  ended,      \* messages whose handler has returned or raised
  owed,       \* events requests of this process published and Kafka owes
  lapsed      \* a consumer went away with offsets it had not committed

kafkaVars == <<log, committed>>
loopVars == <<thread, topics, current, position, begun, ended>>
lifeVars == <<main, stop, open, handlers>>
sendVars == <<outbox, next, owed>>
vars == <<lifeVars, loopVars, sendVars, kafkaVars, lapsed>>

(* What a commit stores: the offsets of the messages poll has returned. *)
StoredNext ==                                         \* mutant: one too far
  [t \in Topics |-> IF t \in topics THEN position[t] + 1 ELSE committed[t]]

Stored == [t \in Topics |-> IF t \in topics THEN position[t] ELSE committed[t]]

(* The consumer goes away, and what it read since its last commit is read
   again. *)
Lapse == lapsed' = (lapsed \/ Stored # committed)

Fresh ==
  /\ main' = "new" /\ thread' = "none"
  /\ stop' = FALSE /\ open' = FALSE
  /\ handlers' = {} /\ topics' = {} /\ current' = NoMessage
  /\ outbox' = {} /\ owed' = {}
  /\ position' = [t \in Topics |-> 0]

Init ==
  /\ main = "new" /\ thread = "none"
  /\ stop = FALSE /\ open = FALSE
  /\ handlers = {} /\ topics = {} /\ current = NoMessage
  /\ outbox = {} /\ owed = {} /\ next = 0
  /\ log = [t \in Topics |-> <<>>]
  /\ position = [t \in Topics |-> 0]
  /\ committed = [t \in Topics |-> 0]
  /\ begun = [t \in Topics |-> 0]
  /\ ended = {}
  /\ lapsed = FALSE

-----------------------------------------------------------------------------
Subscribe(t) ==
  /\ main \in {"new", "started"}
  /\ handlers' = handlers \cup {t}
  /\ UNCHANGED <<main, stop, open, loopVars, sendVars, kafkaVars, lapsed>>

(* Before start there is no producer and publish raises; afterwards it hands
   the event to the producer, also while and after stop runs. *)
Publish(t) ==
  /\ main = "started" \/ thread = "handling"
  /\ next < MaxEvents
  /\ next' = next + 1
  /\ outbox' = outbox \cup {<<t, next>>}
  /\ owed' = IF main = "started" THEN owed \cup {<<t, next>>} ELSE owed
  /\ UNCHANGED <<lifeVars, loopVars, kafkaVars, lapsed>>

Start ==
  /\ main = "new"
  /\ main' = "started"
  /\ stop' = FALSE
  /\ open' = TRUE
  /\ thread' = "subscribe"
  /\ UNCHANGED <<handlers, topics, current, position, begun, ended, sendVars,
                 kafkaVars, lapsed>>

StopSignal ==
  /\ main = "started"
  /\ main' = "signalled"
  /\ stop' = TRUE
  /\ UNCHANGED <<open, handlers, loopVars, sendVars, kafkaVars, lapsed>>

(* A poll takes 0.1 s and a handler any time: the join gives up after 5 s. *)
JoinForever == thread = "ended"                       \* mutant: no timeout
Join == thread \in {"ended", "handling"}

StopJoin ==
  /\ main = "signalled"
  /\ Join
  /\ main' = "joined"
  /\ UNCHANGED <<stop, open, handlers, loopVars, sendVars, kafkaVars, lapsed>>

(* Closing commits; it returns as well when Kafka does not answer or the group
   has expelled the consumer. *)
StopClose ==
  /\ main = "joined"
  /\ main' = "closed"
  /\ open' = FALSE
  /\ \/ committed' = Stored /\ UNCHANGED lapsed
     \/ UNCHANGED committed /\ Lapse
  /\ UNCHANGED <<stop, handlers, loopVars, sendVars, log>>

FlushedAtOnce == TRUE                                 \* mutant: no flush
Flushed == outbox = {}

StopFlush ==
  /\ main = "closed"
  /\ Flushed
  /\ main' = "stopped"
  /\ UNCHANGED <<stop, open, handlers, loopVars, sendVars, kafkaVars, lapsed>>

(* The process ends, and its daemon threads with it; another one starts. *)
Exit ==
  /\ main = "stopped"
  /\ Fresh
  /\ UNCHANGED <<begun, ended, next, kafkaVars, lapsed>>

Crash ==
  /\ main # "new"
  /\ Fresh
  /\ Lapse
  /\ UNCHANGED <<begun, ended, next, kafkaVars>>

-----------------------------------------------------------------------------
(* _consumer_loop: what is registered by now is subscribed to; a consumer that
   was closed meanwhile raises, and the thread dies of it. *)
LoopSubscribeReset ==                                 \* mutant: from the start
  /\ thread = "subscribe"
  /\ thread' = IF open THEN "loop" ELSE "ended"
  /\ topics' = IF open THEN handlers ELSE topics
  /\ position' = IF open THEN [t \in Topics |-> 0] ELSE position
  /\ UNCHANGED <<lifeVars, current, begun, ended, sendVars, kafkaVars, lapsed>>

LoopSubscribeLatest ==                                \* mutant: from the end
  /\ thread = "subscribe"
  /\ thread' = IF open THEN "loop" ELSE "ended"
  /\ topics' = IF open THEN handlers ELSE topics
  /\ position' = IF open THEN [t \in Topics |-> Len(log[t])] ELSE position
  /\ UNCHANGED <<lifeVars, current, begun, ended, sendVars, kafkaVars, lapsed>>

LoopSubscribe ==
  /\ thread = "subscribe"
  /\ thread' = IF open THEN "loop" ELSE "ended"
  /\ topics' = IF open THEN handlers ELSE topics
  /\ position' = IF open THEN committed ELSE position
  /\ UNCHANGED <<lifeVars, current, begun, ended, sendVars, kafkaVars, lapsed>>

LoopTest ==
  /\ thread = "loop"
  /\ thread' = IF stop THEN "ended" ELSE "poll"
  /\ UNCHANGED <<lifeVars, topics, current, position, begun, ended, sendVars,
                 kafkaVars, lapsed>>

(* Nothing came, an error came, or the consumer was closed. *)
PollNothing ==
  /\ thread = "poll"
  /\ thread' = IF open THEN "loop" ELSE "ended"
  /\ UNCHANGED <<lifeVars, topics, current, position, begun, ended, sendVars,
                 kafkaVars, lapsed>>

Poll(t) ==
  /\ thread = "poll"
  /\ open
  /\ t \in topics
  /\ position[t] < Len(log[t])
  /\ position' = [position EXCEPT ![t] = @ + 1]
  /\ current' = <<t, position'[t]>>
  /\ begun' = [begun EXCEPT ![t] = IF position'[t] > @ THEN position'[t] ELSE @]
  /\ thread' = "handling"
  /\ UNCHANGED <<lifeVars, topics, ended, sendVars, kafkaVars, lapsed>>

(* The handler returns, or it raises or the value is no envelope, which is
   logged.  Either way the loop goes on. *)
ReturnOrDie ==                                        \* mutant: not caught
  /\ thread = "handling"
  /\ thread' \in {"loop", "ended"}
  /\ ended' = ended \cup {current}
  /\ current' = NoMessage
  /\ UNCHANGED <<lifeVars, topics, position, begun, sendVars, kafkaVars, lapsed>>

Return ==
  /\ thread = "handling"
  /\ thread' = "loop"
  /\ ended' = ended \cup {current}
  /\ current' = NoMessage
  /\ UNCHANGED <<lifeVars, topics, position, begun, sendVars, kafkaVars, lapsed>>

(* The group has expelled a consumer that did not poll or was cut off for too
   long: it joins again, and reads on from what is committed. *)
Rejoin ==
  /\ thread = "poll"
  /\ open
  /\ position' = committed
  /\ thread' = "loop"
  /\ Lapse
  /\ UNCHANGED <<lifeVars, topics, current, begun, ended, sendVars, kafkaVars>>

-----------------------------------------------------------------------------
(* librdkafka: an event is written to its topic, in any order as several are
   in flight, and again when the acknowledgement was lost; or it is given up,
   which only a delivery report would tell.  Offsets are committed from time
   to time, of messages poll has returned, handled or not. *)
Deliver(t, e) ==
  /\ <<t, e>> \in outbox
  /\ Len(log[t]) < MaxLog
  /\ log' = [log EXCEPT ![t] = Append(@, e)]
  /\ \/ /\ outbox' = outbox \ {<<t, e>>}
        /\ owed' = owed \ {<<t, e>>}
     \/ UNCHANGED <<outbox, owed>>
  /\ UNCHANGED <<lifeVars, loopVars, next, committed, lapsed>>

Expire(t, e) ==
  /\ <<t, e>> \in outbox
  /\ outbox' = outbox \ {<<t, e>>}
  /\ owed' = owed \ {<<t, e>>}
  /\ UNCHANGED <<lifeVars, loopVars, next, kafkaVars, lapsed>>

AutoCommit ==
  /\ open
  /\ committed' = Stored
  /\ UNCHANGED <<lifeVars, loopVars, sendVars, log, lapsed>>

Stop == StopSignal \/ StopJoin \/ StopClose \/ StopFlush
Loop == LoopSubscribe \/ LoopTest \/ PollNothing \/ \E t \in Topics : Poll(t)
Sent == \E x \in outbox : Deliver(x[1], x[2]) \/ Expire(x[1], x[2])

Next ==
  \/ \E t \in Topics : Subscribe(t) \/ Publish(t)
  \/ Start \/ Stop \/ Exit \/ Crash
  \/ Loop \/ Rejoin \/ Return
  \/ Sent \/ AutoCommit

Spec == Init /\ [][Next]_vars

(***************************************************************************)
(* A stop that began and the consumer thread keep running; librdkafka      *)
(* gives an event up that Kafka never acknowledges; poll does not for ever *)
(* miss a message that is there.  A handler may run for ever.              *)
(***************************************************************************)
FairSpec ==
  /\ Spec
  /\ WF_vars(StopJoin \/ StopClose \/ StopFlush) /\ WF_vars(Loop)
  /\ WF_vars(\E x \in outbox : Expire(x[1], x[2]))
  /\ \A t \in Topics : SF_vars(Poll(t))

-----------------------------------------------------------------------------
Events == Topics \X (0 .. MaxEvents - 1)
Messages == Topics \X (1 .. MaxLog)

TypeOK ==
  /\ main \in {"new", "started", "signalled", "joined", "closed", "stopped"}
  /\ thread \in {"none", "subscribe", "loop", "poll", "handling", "ended"}
  /\ stop \in BOOLEAN /\ open \in BOOLEAN /\ lapsed \in BOOLEAN
  /\ handlers \subseteq Topics /\ topics \subseteq Topics
  /\ current \in Messages \cup {NoMessage}
  /\ outbox \subseteq Events /\ owed \subseteq outbox
  /\ next \in 0 .. MaxEvents
  /\ log \in [Topics -> Seq(0 .. MaxEvents - 1)]
  /\ position \in [Topics -> 0 .. MaxLog]
  /\ committed \in [Topics -> 0 .. MaxLog]
  /\ begun \in [Topics -> 0 .. MaxLog]
  /\ ended \subseteq Messages

(***************************************************************************)
(* The inductive invariant behind the theorems of EventBusProofs.          *)
(***************************************************************************)
(* The lifespan and the consumer thread agree on how far each of them is. *)
Control ==
  /\ open <=> main \in {"started", "signalled", "joined"}
  /\ thread = "none" <=> main = "new"
  /\ thread \in {"none", "subscribe"} => topics = {}
  /\ thread = "subscribe" => main \in {"started", "signalled"}
  /\ main \in {"joined", "closed", "stopped"} /\ thread # "handling" =>
       thread \in {"loop", "poll", "ended"}
  /\ thread = "handling" <=> current # NoMessage

(* What was read, committed and dispatched of a topic. *)
Offsets(t) ==
  /\ position[t] <= begun[t]
  /\ committed[t] <= begun[t]
  /\ begun[t] <= Len(log[t])
  /\ Len(log[t]) <= MaxLog

(* What was read since the last commit was handled, or is being handled. *)
Handled(t) ==
  t \in topics =>
    /\ committed[t] <= position[t]
    /\ \A n \in committed[t] + 1 .. position[t] :
         <<t, n>> \in ended \/ current = <<t, n>>

(* Without a lapse, a topic is read up to where it was dispatched, and that is
   committed unless the consumer still has to. *)
Settled(t) ==
  /\ t \in topics => position[t] = begun[t]
  /\ t \notin topics \/ ~open => committed[t] = begun[t]

IInv ==
  /\ TypeOK
  /\ Control
  /\ \A t \in Topics : Offsets(t) /\ Handled(t)
  /\ ~lapsed => \A t \in Topics : Settled(t)
  /\ main = "stopped" => owed = {}

(***************************************************************************)
(* Across restarts, each message of a topic is given to a handler after    *)
(* the one before it, and never again once its offset is committed.  It is *)
(* given to a handler only once unless a consumer went away with offsets   *)
(* it had not committed: its process crashed, closing it could not commit, *)
(* or the group expelled it.  A join that gave up on a running handler is  *)
(* none of these.                                                          *)
(***************************************************************************)
DispatchedInOrder ==
  [][\A t \in Topics, n \in 1 .. MaxLog :
       current # <<t, n>> /\ current' = <<t, n>> =>
         /\ committed[t] < n /\ n <= begun[t] + 1
         /\ lapsed \/ n = begun[t] + 1]_vars

(***************************************************************************)
(* The offset of a message is committed when its handler has returned or   *)
(* raised, or while it runs: of the messages a process leaves committed,   *)
(* in whatever way it ends, at most the one in the handler is lost.        *)
(***************************************************************************)
CommittedWasHandled ==
  [][\A t \in Topics, n \in 1 .. MaxLog :
       committed[t] < n /\ n <= committed'[t] =>
         <<t, n>> \in ended \/ current = <<t, n>>]_vars

(* When stop has returned, no event a request published is still waiting in
   this process: Kafka has it, or it was given up. *)
StopDelivers == main = "stopped" => owed = {}

(* stop returns, even if a handler never does and Kafka is not reachable. *)
StopReturns == main = "signalled" ~> main \in {"stopped", "new"}

(***************************************************************************)
(* A message on a topic the consumer subscribed to is handled as long as   *)
(* the application serves, handlers come to an end and a consumer that is  *)
(* expelled again and again commits in between: a handler that raises does *)
(* not end the consumer thread.                                            *)
(***************************************************************************)
HandlersEnd == []<>(thread # "handling")

MessagesAreHandled ==
  HandlersEnd /\ SF_vars(AutoCommit) => \A t \in Topics, n \in 1 .. MaxLog :
    (main = "started" /\ t \in topics /\ n <= Len(log[t]))
      ~> (main # "started" \/ (n <= begun[t] /\ current # <<t, n>>))
=============================================================================
