------------------------------ MODULE Inventory ------------------------------
(***************************************************************************)
(* The inventory domain: stock rows, reservations and the request handlers *)
(* of InventoryService, at the granularity of their SQL statements.        *)
(*                                                                         *)
(* Route functions are plain `def`s, so requests run concurrently in a     *)
(* thread pool, each with a session of its own on PostgreSQL at READ       *)
(* COMMITTED.  A worker is such a thread; what it wrote and has not        *)
(* committed is in its draft, visible to nobody else.  The stock row is    *)
(* taken with SELECT ... FOR UPDATE SKIP LOCKED: a row locked by another   *)
(* transaction looks absent.  Events and audit records are sent before the *)
(* route commits, best effort.                                             *)
(***************************************************************************)
EXTENDS Integers, FiniteSetsExt

CONSTANTS Workers,      \* concurrent requests the application serves
          Items,        \* product variants, each with at most one stock row
          Orders,
          Quantities,   \* quantities a reservation may ask for
          Deltas,       \* adjustments a caller may send
          MaxInt,       \* largest value of an INTEGER column
          OneSettler,   \* callers never settle one reservation twice at a time
          Crashes,      \* a process or connection may fail inside a request
          Lossy,        \* the broker and the audit store may drop a write
          NoOrder,      \* the order of a request that is about none
          NoJob,        \* what an idle worker works on
          Nobody        \* the owner of a free lock

ASSUME QuantityAssumption == Quantities \subseteq Nat \ {0}
ASSUME DeltaAssumption == Deltas \subseteq Int
ASSUME BoundAssumption == MaxInt \in Nat
ASSUME FlagAssumption == /\ OneSettler \in BOOLEAN
                         /\ Crashes \in BOOLEAN
                         /\ Lossy \in BOOLEAN

VARIABLES
  stored,    \* items whose inventory_items row is committed
  onHand,    \* quantity_on_hand of the committed row
  reserved,  \* quantity_reserved of the committed row
  status,    \* status column of a reservation, "none" when it has no row
  held,      \* quantity column of a reservation
  lock,      \* the transaction that locked, or inserts, the row of an item
  job,       \* the request a worker serves
  pc,        \* how far its handler got
  draft,     \* its uncommitted image of the row
  result,    \* the answer to its last request
  events,    \* what consumers can read from the broker
  audits     \* what the audit store recorded

rowVars == <<stored, onHand, reserved, status, held>>
sinkVars == <<events, audits>>
vars == <<stored, onHand, reserved, status, held, lock, job, pc, draft,
          result, events, audits>>

Reservations == Items \X Orders
SettleOps == {"release", "confirm"}
Holding == {"locked", "clear", "written"}
Answers == {"none", "ok", "unchanged", "refused", "not_found", "error"}

Job(ops, orders, amounts) ==
  [op : ops, item : Items, order : orders, amount : amounts]

(* The request bodies the schemas admit; a settlement names the reservation
   by its identifier, which is unique per item and order. *)
Requests ==
  Job({"create"}, {NoOrder}, 0..MaxInt)
    \cup Job({"adjust"}, {NoOrder}, Deltas)
    \cup Job({"reserve"}, Orders, Quantities)
    \cup Job(SettleOps, Orders, {0})

ASSUME NameAssumption == NoJob \notin Requests /\ Nobody \notin Workers

NoDraft == [onHand |-> 0, reserved |-> 0]
Res(w) == <<job[w].item, job[w].order>>
Settled(op) == IF op = "confirm" THEN "confirmed" ELSE "released"
Settling(w) == job[w] # NoJob /\ job[w].op \in SettleOps

(***************************************************************************)
(* What a consumer reads: InventoryReserved carries the variant, the two   *)
(* settlement events carry reservation.inventory_item_id in the field of   *)
(* the same name.                                                          *)
(***************************************************************************)
VariantId(i) == <<"variant", i>>
ItemId(i) == <<"inventory_item", i>>

Event(op, i, o) ==
  [type |-> op, order |-> o,
   variant_id |-> IF op = "reserve" THEN VariantId(i) ELSE ItemId(i)]

EventsOfForgettingRelease(j) ==                \* mutant: release is silent
  IF j.op \in {"create", "adjust", "release"} THEN {}
  ELSE {Event(j.op, j.item, j.order)}

EventsOf(j) ==
  IF j.op \in {"create", "adjust"} THEN {} ELSE {Event(j.op, j.item, j.order)}

AuditsOf(j) == {[action |-> j.op, item |-> j.item, order |-> j.order]}

Kept(sent) == IF Lossy THEN {{}, sent} ELSE {sent}

(* _publish and record_audit: a failing broker or store is only logged. *)
Announce(w) ==
  /\ \E sent \in Kept(EventsOf(job[w])) : events' = events \cup sent
  /\ \E sent \in Kept(AuditsOf(job[w])) : audits' = audits \cup sent

-----------------------------------------------------------------------------
Init ==
  /\ stored = {}
  /\ onHand = [i \in Items |-> 0]
  /\ reserved = [i \in Items |-> 0]
  /\ status = [r \in Reservations |-> "none"]
  /\ held = [r \in Reservations |-> 0]
  /\ lock = [i \in Items |-> Nobody]
  /\ job = [w \in Workers |-> NoJob]
  /\ pc = [w \in Workers |-> "idle"]
  /\ draft = [w \in Workers |-> NoDraft]
  /\ result = [w \in Workers |-> "none"]
  /\ events = {}
  /\ audits = {}

(* A request arrives.  OneSettler is an assumption about callers: the one
   that settles a reservation waits for the answer before trying again. *)
Start(w) ==
  /\ job[w] = NoJob
  /\ \E j \in Requests :
       /\ OneSettler /\ j.op \in SettleOps =>
            \A v \in Workers : ~(Settling(v) /\ Res(v) = <<j.item, j.order>>)
       /\ job' = [job EXCEPT ![w] = j]
  /\ pc' = [pc EXCEPT ![w] = "start"]
  /\ result' = [result EXCEPT ![w] = "none"]
  /\ UNCHANGED <<rowVars, lock, draft, sinkVars>>

(* The request ends: the session closes, its transaction with it, and the
   row locks it held are free. *)
Unlocked(w) == [i \in Items |-> IF lock[i] = w THEN Nobody ELSE lock[i]]

Finish(w, answer) ==
  /\ job' = [job EXCEPT ![w] = NoJob]
  /\ pc' = [pc EXCEPT ![w] = "idle"]
  /\ draft' = [draft EXCEPT ![w] = NoDraft]
  /\ result' = [result EXCEPT ![w] = answer]
  /\ lock' = Unlocked(w)

Decline(w, answer) == Finish(w, answer) /\ UNCHANGED <<rowVars, sinkVars>>

Goto(w, label) ==
  /\ pc' = [pc EXCEPT ![w] = label]
  /\ UNCHANGED <<rowVars, job, result>>

At(w, label, ops) == pc[w] = label /\ job[w].op \in ops

-----------------------------------------------------------------------------
(* get_by_variant_for_update, get_by_id_for_update *)
WantsLock(w) == At(w, "start", {"adjust", "reserve"}) \/ At(w, "read", SettleOps)

SelectableUnlocked(i) == i \in stored          \* mutant: no FOR UPDATE

Selectable(i) == i \in stored /\ lock[i] = Nobody

LockRow(w) ==
  LET i == job[w].item IN
  /\ WantsLock(w)
  /\ Selectable(i)
  /\ lock' = [lock EXCEPT ![i] = w]
  /\ draft' = [draft EXCEPT ![w] = [onHand |-> onHand[i], reserved |-> reserved[i]]]
  /\ Goto(w, "locked")
  /\ UNCHANGED sinkVars

LockMissAbsentOnly(w) ==                       \* mutant: waits for the lock
  /\ WantsLock(w)
  /\ job[w].item \notin stored
  /\ Decline(w, "not_found")

LockMiss(w) ==
  /\ WantsLock(w)
  /\ ~Selectable(job[w].item)
  /\ Decline(w, "not_found")

-----------------------------------------------------------------------------
(* create_inventory_item: the uniqueness check, then the INSERT, which waits
   for another transaction that is inserting the same variant. *)
CreateCheck(w) ==
  /\ At(w, "start", {"create"})
  /\ job[w].item \notin stored
  /\ Goto(w, "read")
  /\ UNCHANGED <<lock, draft, sinkVars>>

CreateRefuse(w) ==
  /\ At(w, "start", {"create"})
  /\ job[w].item \in stored
  /\ Decline(w, "refused")

CreateInsert(w) ==
  LET i == job[w].item IN
  /\ At(w, "read", {"create"})
  /\ i \notin stored
  /\ lock[i] = Nobody
  /\ lock' = [lock EXCEPT ![i] = w]
  /\ draft' = [draft EXCEPT ![w] = [onHand |-> job[w].amount, reserved |-> 0]]
  /\ Announce(w)
  /\ Goto(w, "written")

CreateConflict(w) ==
  /\ At(w, "read", {"create"})
  /\ job[w].item \in stored
  /\ Decline(w, "error")

-----------------------------------------------------------------------------
(* adjust_stock *)
Adjusted(w) == draft[w].onHand + job[w].amount

AdjustWrite(w) ==
  /\ At(w, "locked", {"adjust"})
  /\ Adjusted(w) \in 0..MaxInt
  /\ draft' = [draft EXCEPT ![w].onHand = Adjusted(w)]
  /\ Announce(w)
  /\ Goto(w, "written")
  /\ UNCHANGED lock

AdjustRefuse(w) ==
  /\ At(w, "locked", {"adjust"})
  /\ Adjusted(w) < 0
  /\ Decline(w, "refused")

(* The flush fails: the new quantity does not fit its column. *)
AdjustOverflow(w) ==
  /\ At(w, "locked", {"adjust"})
  /\ Adjusted(w) > MaxInt
  /\ Decline(w, "error")

-----------------------------------------------------------------------------
(* reserve: any active reservation of the order, whatever its item, is
   returned as it is. *)
ActiveItems(o) == {i \in Items : status[<<i, o>>] = "reserved"}

ReserveExisting(w) ==
  /\ At(w, "locked", {"reserve"})
  /\ ActiveItems(job[w].order) # {}
  /\ Decline(w, "unchanged")

ReserveLookup(w) ==
  /\ At(w, "locked", {"reserve"})
  /\ ActiveItems(job[w].order) = {}
  /\ Goto(w, "clear")
  /\ UNCHANGED <<lock, draft, sinkVars>>

AvailableOnHand(w) == draft[w].onHand          \* mutant: ignores reservations

Available(w) == draft[w].onHand - draft[w].reserved

ReserveRefuse(w) ==
  /\ At(w, "clear", {"reserve"})
  /\ Available(w) < job[w].amount
  /\ Decline(w, "refused")

ReserveWrite(w) ==
  /\ At(w, "clear", {"reserve"})
  /\ Available(w) >= job[w].amount
  /\ status[Res(w)] = "none"
  /\ draft' = [draft EXCEPT ![w].reserved = @ + job[w].amount]
  /\ Announce(w)
  /\ Goto(w, "written")
  /\ UNCHANGED lock

(* The INSERT violates uq_inventory_reservations_item_order: the order had
   reserved this item before and the reservation was settled. *)
ReserveConflict(w) ==
  /\ At(w, "clear", {"reserve"})
  /\ Available(w) >= job[w].amount
  /\ status[Res(w)] # "none"
  /\ Decline(w, "error")

-----------------------------------------------------------------------------
(* release_reservation, confirm_reservation: the status is read, and judged,
   before the row of the item is locked. *)
SettleReadOwnTarget(w) ==                      \* mutant: one early return lost
  /\ At(w, "start", SettleOps)
  /\ status[Res(w)] \notin {"none", Settled(job[w].op)}
  /\ Goto(w, "read")
  /\ UNCHANGED <<lock, draft, sinkVars>>

SettleReadAny(w) ==                            \* mutant: both lost
  /\ At(w, "start", SettleOps)
  /\ status[Res(w)] # "none"
  /\ Goto(w, "read")
  /\ UNCHANGED <<lock, draft, sinkVars>>

SettleRead(w) ==
  /\ At(w, "start", SettleOps)
  /\ status[Res(w)] = "reserved"
  /\ Goto(w, "read")
  /\ UNCHANGED <<lock, draft, sinkVars>>

SettleAnswer(w) ==
  /\ At(w, "start", SettleOps)
  /\ \/ status[Res(w)] = "none" /\ Decline(w, "not_found")
     \/ status[Res(w)] = Settled(job[w].op) /\ Decline(w, "unchanged")
     \/ /\ status[Res(w)] \in {"released", "confirmed"} \ {Settled(job[w].op)}
        /\ Decline(w, "refused")

ShippedNothing(w) == 0 * held[Res(w)]          \* mutant: stock stays on hand

Shipped(w) == IF job[w].op = "confirm" THEN held[Res(w)] ELSE 0

(* The check constraints of inventory_items. *)
PermittedAlways(row) == row.reserved \in Int   \* mutant: no constraint

Permitted(row) == row.onHand >= 0 /\ row.reserved >= 0

SettledRow(w) == [onHand |-> draft[w].onHand - Shipped(w),
                  reserved |-> draft[w].reserved - held[Res(w)]]

SettleWrite(w) ==
  /\ At(w, "locked", SettleOps)
  /\ Permitted(SettledRow(w))
  /\ draft' = [draft EXCEPT ![w] = SettledRow(w)]
  /\ Announce(w)
  /\ Goto(w, "written")
  /\ UNCHANGED lock

(* The flush fails. *)
SettleForbidden(w) ==
  /\ At(w, "locked", SettleOps)
  /\ ~Permitted(SettledRow(w))
  /\ Decline(w, "error")

-----------------------------------------------------------------------------
(* db.commit() of the route: the columns the handler changed are installed.
   The answer may be lost after the commit. *)
InstallRow(w) ==
  LET i == job[w].item
      op == job[w].op IN
  /\ stored' = IF op = "create" THEN stored \cup {i} ELSE stored
  /\ onHand' = IF op \in {"create", "adjust", "confirm"}
               THEN [onHand EXCEPT ![i] = draft[w].onHand] ELSE onHand
  /\ reserved' = IF op \in {"reserve", "release", "confirm"}
                 THEN [reserved EXCEPT ![i] = draft[w].reserved] ELSE reserved

InstallReservation(w) ==
  LET op == job[w].op IN
  /\ status' = CASE op = "reserve" -> [status EXCEPT ![Res(w)] = "reserved"]
                 [] op \in SettleOps -> [status EXCEPT ![Res(w)] = Settled(op)]
                 [] OTHER -> status
  /\ held' = IF op = "reserve" THEN [held EXCEPT ![Res(w)] = job[w].amount]
             ELSE held

Commit(w) ==
  /\ pc[w] = "written"
  /\ InstallRow(w)
  /\ InstallReservation(w)
  /\ \E answer \in {"ok"} \cup (IF Crashes THEN {"error"} ELSE {}) :
       Finish(w, answer)
  /\ UNCHANGED sinkVars

(* The commit, a statement or the process itself fails: rollback. *)
Abort(w) ==
  /\ Crashes
  /\ job[w] # NoJob
  /\ Decline(w, "error")

-----------------------------------------------------------------------------
Create(w) == CreateCheck(w) \/ CreateRefuse(w) \/ CreateInsert(w) \/ CreateConflict(w)
Adjust(w) == AdjustWrite(w) \/ AdjustRefuse(w) \/ AdjustOverflow(w)
Reserve(w) == \/ ReserveExisting(w) \/ ReserveLookup(w) \/ ReserveRefuse(w)
              \/ ReserveWrite(w) \/ ReserveConflict(w)
Settle(w) == SettleRead(w) \/ SettleAnswer(w) \/ SettleWrite(w) \/ SettleForbidden(w)

Handle(w) == \/ LockRow(w) \/ LockMiss(w) \/ Create(w) \/ Adjust(w)
             \/ Reserve(w) \/ Settle(w) \/ Commit(w)

Next == \E w \in Workers : Start(w) \/ Handle(w) \/ Abort(w)

Spec == Init /\ [][Next]_vars

(* The thread pool keeps running every request it accepted. *)
FairSpec == Spec /\ \A w \in Workers : WF_vars(Handle(w))

-----------------------------------------------------------------------------
TypeOK ==
  /\ stored \subseteq Items
  /\ onHand \in [Items -> Nat]
  /\ reserved \in [Items -> Nat]
  /\ status \in [Reservations -> {"none", "reserved", "confirmed", "released"}]
  /\ held \in [Reservations -> Nat]
  /\ lock \in [Items -> Workers \cup {Nobody}]
  /\ job \in [Workers -> Requests \cup {NoJob}]
  /\ pc \in [Workers -> {"idle", "start", "read"} \cup Holding]
  /\ draft \in [Workers -> [onHand : Nat, reserved : Nat]]
  /\ result \in [Workers -> Answers]

(***************************************************************************)
(* No lost update: what a transaction is about to install is the committed *)
(* row changed by its own request and nothing else, whatever committed     *)
(* since the handler read the row.  The row locks are what makes it true.  *)
(***************************************************************************)
Fresh(w) ==
  LET i == job[w].item
      d == draft[w] IN
  CASE job[w].op = "create"  -> i \notin stored /\ d.onHand = job[w].amount
    [] job[w].op = "adjust"  -> d = [onHand |-> onHand[i] + job[w].amount,
                                     reserved |-> reserved[i]]
    [] job[w].op = "reserve" -> d = [onHand |-> onHand[i],
                                     reserved |-> reserved[i] + job[w].amount]
    [] OTHER                 -> d = [onHand |-> onHand[i] - Shipped(w),
                                     reserved |-> reserved[i] - held[Res(w)]]

NoLostUpdate == \A w \in Workers : pc[w] = "written" => Fresh(w)

(***************************************************************************)
(* The inductive invariant behind the theorems of InventoryProofs: how far *)
(* each handler is, which row it owns, and what its draft must be relative *)
(* to the committed row.                                                   *)
(***************************************************************************)
(* A worker without a request is idle, and a handler only reaches the steps
   of its own operation. *)
Control(w) ==
  /\ pc[w] = "idle" <=> job[w] = NoJob
  /\ pc[w] = "read" => job[w].op \in {"create", "release", "confirm"}
  /\ pc[w] = "locked" => job[w].op # "create"
  /\ pc[w] = "clear" => job[w].op = "reserve"

(* A handler past its locking read owns the row, and nothing else owns a
   lock. *)
Owner(w) == pc[w] \in Holding => lock[job[w].item] = w
Owned(i) == lock[i] # Nobody => pc[lock[i]] \in Holding /\ job[lock[i]].item = i

(* Between the locking read and the commit the committed row cannot change:
   the draft is that row, then that row with the request applied. *)
DraftOK(w) ==
  LET i == job[w].item IN
  /\ pc[w] \in {"locked", "clear"} =>
       i \in stored /\ draft[w] = [onHand |-> onHand[i], reserved |-> reserved[i]]
  /\ pc[w] = "written" => Fresh(w) /\ (job[w].op # "create" => i \in stored)

(* What the handler checked on the way still holds. *)
Checked(w) ==
  LET i == job[w].item IN
  /\ pc[w] \in {"read"} \cup Holding /\ job[w].op \in SettleOps =>
       /\ status[Res(w)] # "none"
       /\ OneSettler => status[Res(w)] = "reserved"
  /\ pc[w] = "written" /\ job[w].op = "reserve" =>
       status[Res(w)] = "none" /\ onHand[i] - reserved[i] >= job[w].amount
  /\ pc[w] = "written" /\ job[w].op = "adjust" =>
       onHand[i] + job[w].amount \in 0..MaxInt

(* The assumption about callers, kept by every step. *)
Alone(v, w) ==
  OneSettler /\ Settling(v) /\ Settling(w) /\ Res(v) = Res(w) => v = w

IInv ==
  /\ TypeOK
  /\ \A w \in Workers : Control(w) /\ Owner(w) /\ DraftOK(w) /\ Checked(w)
  /\ \A i \in Items : Owned(i)
  /\ \A v, w \in Workers : Alone(v, w)
(***************************************************************************)
(* No oversale: a reservation takes units only while they are on hand,     *)
(* even when adjustments race with it.                                     *)
(***************************************************************************)
NeverOversold ==
  [][\A i \in Items : reserved'[i] > reserved[i] => reserved'[i] <= onHand'[i]]_vars

(***************************************************************************)
(* quantity_reserved is the sum of the active reservations of the item.    *)
(* It holds as long as callers settle a reservation once at a time.        *)
(***************************************************************************)
Active(i) == {r \in Reservations : r[1] = i /\ status[r] = "reserved"}

Conservation ==
  \A i \in Items : reserved[i] = SumFunctionOnSet(held, Active(i))

(* A settled reservation is final: it never changes to another status. *)
SettledIsFinal ==
  [][\A r \in Reservations :
       status[r] \in {"confirmed", "released"} => status'[r] = status[r]]_vars

(* The handlers implement the account: every answer is justified by the
   committed rows at the instant it is given. *)
Account == INSTANCE StockAccount WITH
  Settleable <- IF OneSettler THEN {"reserved"}
                ELSE {"reserved", "released", "confirmed"}

ImplementsAccount == Account!Spec

(***************************************************************************)
(* With a broker and an audit store that lose nothing and no crash, the    *)
(* events and the audit records of a reservation are its committed         *)
(* transitions and those about to commit.                                  *)
(***************************************************************************)
Announced(op, r) == Event(op, r[1], r[2]) \in events
Audited(op, r) == [action |-> op, item |-> r[1], order |-> r[2]] \in audits
InFlight(op, r) ==
  \E w \in Workers : pc[w] = "written" /\ job[w].op = op /\ Res(w) = r
Done(op, r) == IF op = "reserve" THEN status[r] # "none" ELSE status[r] = Settled(op)

RecordsMatchCommits ==
  \A r \in Reservations, op \in {"reserve"} \cup SettleOps :
    /\ Announced(op, r) <=> Done(op, r) \/ InFlight(op, r)
    /\ Audited(op, r) <=> Done(op, r) \/ InFlight(op, r)

(* Every request is answered, also one whose INSERT waits for another. *)
EveryRequestAnswered == \A w \in Workers : job[w] # NoJob ~> job[w] = NoJob
=============================================================================
