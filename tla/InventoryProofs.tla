--------------------------- MODULE InventoryProofs ---------------------------
(***************************************************************************)
(* Theorems about Inventory, for every set of workers, items, orders and   *)
(* quantities: IInv is inductive, no update is lost, nothing is oversold,  *)
(* the handlers implement the account, and, under OneSettler, a settled    *)
(* reservation is final and, when nothing fails, on record.                *)
(***************************************************************************)
EXTENDS Inventory, SumLemmas, TLAPS

(* What the shape of a request tells about its fields. *)
LEMMA JobShape ==
  ASSUME NEW j \in Requests
  PROVE  /\ j # NoJob
         /\ j.item \in Items
         /\ j.amount \in Int
         /\ j.op \in {"create", "adjust", "reserve"} \cup SettleOps
         /\ j.op \in {"reserve"} \cup SettleOps => <<j.item, j.order>> \in Reservations
         /\ j.op = "create" => j.amount \in 0..MaxInt
         /\ j.op = "reserve" => j.amount \in Nat \ {0}
<1>. j # NoJob
  BY NameAssumption
<1>1. CASE j \in Job({"create"}, {NoOrder}, 0..MaxInt)
  BY <1>1, BoundAssumption DEF Job, SettleOps
<1>2. CASE j \in Job({"adjust"}, {NoOrder}, Deltas)
  BY <1>2, DeltaAssumption DEF Job, SettleOps
<1>3. CASE j \in Job({"reserve"}, Orders, Quantities)
  <2>1. j.op = "reserve" /\ j.item \in Items /\ j.order \in Orders /\ j.amount \in Quantities
    BY <1>3 DEF Job
  <2>2. j.amount \in Nat \ {0}
    BY <2>1, QuantityAssumption
  <2>. QED
    BY <2>1, <2>2 DEF SettleOps, Reservations
<1>4. CASE j \in Job(SettleOps, Orders, {0})
  <2>1. j.op \in SettleOps /\ j.item \in Items /\ j.order \in Orders /\ j.amount = 0
    BY <1>4 DEF Job
  <2>. QED
    BY <2>1 DEF SettleOps, Reservations
<1>. QED BY <1>1, <1>2, <1>3, <1>4 DEF Requests

(* A busy worker has such a request. *)
LEMMA BusyJob ==
  ASSUME IInv, NEW w \in Workers, pc[w] # "idle"
  PROVE  job[w] # NoJob /\ job[w] \in Requests /\ job[w].item \in Items
<1>1. job[w] # NoJob
  BY DEF IInv, Control
<1>2. job[w] \in Requests
  BY <1>1 DEF IInv, TypeOK
<1>. QED BY <1>1, <1>2, JobShape

LEMMA InitIInv == Init => IInv
BY DEF Init, IInv, TypeOK, Control, Owner, Owned, DraftOK, Checked, Alone,
       Settling, Holding, NoDraft, Answers

WorkerOK(w) == Control(w) /\ Owner(w) /\ DraftOK(w) /\ Checked(w)

(* A worker whose own state did not change is as well off as before while
   the committed rows stay what they are and it keeps its lock. *)
LEMMA Frame ==
  ASSUME NEW v \in Workers, WorkerOK(v), UNCHANGED rowVars,
         pc'[v] = pc[v], job'[v] = job[v], draft'[v] = draft[v],
         pc[v] \in Holding => lock'[job[v].item] = v
  PROVE  WorkerOK(v)'
<1>1. Control(v)'
  BY DEF WorkerOK, Control
<1>2. Owner(v)'
  BY DEF Owner
<1>3. Fresh(v) => Fresh(v)'
  BY DEF Fresh, rowVars, Shipped, Res
<1>4. DraftOK(v)'
  BY <1>3 DEF WorkerOK, DraftOK, rowVars
<1>5. Checked(v)'
  BY DEF WorkerOK, Checked, rowVars, Res
<1>. QED BY <1>1, <1>2, <1>4, <1>5 DEF WorkerOK

(* A request ends without an effect. *)
LEMMA DeclineIInv ==
  ASSUME IInv, NEW w \in Workers, NEW a \in Answers, job[w] # NoJob,
         Decline(w, a)
  PROVE  IInv'
<1>. USE DEF IInv, Decline, Finish, rowVars, sinkVars
<1>1. TypeOK'
  BY NameAssumption DEF TypeOK, Unlocked, NoDraft
<1>2. ASSUME NEW v \in Workers PROVE WorkerOK(v)'
  <2>1. CASE v = w
    BY <2>1 DEF TypeOK, WorkerOK, Control, Owner, DraftOK, Checked, Holding
  <2>2. CASE v # w
    <3>1. /\ pc'[v] = pc[v] /\ job'[v] = job[v] /\ draft'[v] = draft[v]
          /\ pc[v] \in Holding => job[v].item \in Items
      BY <2>2, JobShape DEF TypeOK, Control, Holding
    <3>2. pc[v] \in Holding => lock'[job[v].item] = v
      BY <3>1, <2>2 DEF TypeOK, Owner, Unlocked
    <3>. QED
      BY <3>1, <3>2, Frame DEF WorkerOK
  <2>. QED BY <2>1, <2>2
<1>3. ASSUME NEW i \in Items PROVE Owned(i)'
  BY NameAssumption DEF TypeOK, Owned, Unlocked
<1>4. ASSUME NEW u \in Workers, NEW v \in Workers PROVE Alone(u, v)'
  BY DEF TypeOK, Alone, Settling, Res
<1>. QED BY <1>1, <1>2, <1>3, <1>4 DEF WorkerOK

(* A request goes on without committing: it suffices to look at its own
   worker, and at the one lock it takes or keeps. *)
LEMMA StepIInv ==
  ASSUME IInv, NEW w \in Workers, job[w] # NoJob,
         UNCHANGED <<rowVars, job>>, TypeOK', WorkerOK(w)',
         \A v \in Workers \ {w} : pc'[v] = pc[v] /\ draft'[v] = draft[v],
         pc[w] \in Holding => pc'[w] \in Holding,
         pc'[w] \in Holding => lock[job[w].item] \in {Nobody, w},
         \A i \in Items :
           lock'[i] = IF pc'[w] \in Holding /\ i = job[w].item THEN w ELSE lock[i]
  PROVE  IInv'
<1>. USE DEF IInv
<1>1. ASSUME NEW v \in Workers PROVE WorkerOK(v)'
  <2>1. CASE v # w
    <3>1. pc'[v] = pc[v] /\ job'[v] = job[v] /\ draft'[v] = draft[v]
      BY <2>1
    <3>2. pc[v] \in Holding => job[v].item \in Items
      BY BusyJob DEF Holding
    <3>3. pc[v] \in Holding => lock'[job[v].item] = v
      BY <3>1, <3>2, <2>1, NameAssumption DEF TypeOK, Owner
    <3>. QED
      BY <3>1, <3>3, Frame DEF WorkerOK
  <2>. QED BY <2>1
<1>2. ASSUME NEW i \in Items PROVE Owned(i)'
  BY NameAssumption DEF TypeOK, Owned
<1>3. ASSUME NEW u \in Workers, NEW v \in Workers PROVE Alone(u, v)'
  BY DEF Alone, Settling, Res
<1>. QED BY <1>1, <1>2, <1>3 DEF WorkerOK

LEMMA StartIInv ==
  ASSUME IInv, NEW w \in Workers, Start(w)
  PROVE  IInv'
<1>. USE DEF IInv, Start, rowVars, sinkVars
<1>1. PICK j \in Requests :
        /\ OneSettler /\ j.op \in SettleOps =>
             \A v \in Workers : ~(Settling(v) /\ Res(v) = <<j.item, j.order>>)
        /\ job' = [job EXCEPT ![w] = j]
  OBVIOUS
<1>2. TypeOK'
  BY <1>1 DEF TypeOK, Answers
<1>3. pc[w] = "idle" /\ \A i \in Items : lock[i] # w
  BY NameAssumption DEF Control, Owned, Holding
<1>4. ASSUME NEW v \in Workers PROVE WorkerOK(v)'
  <2>1. CASE v = w
    BY <2>1, <1>1, JobShape DEF TypeOK, WorkerOK, Control, Owner, DraftOK, Checked, Holding
  <2>2. CASE v # w
    BY <2>2, <1>1, Frame DEF TypeOK, WorkerOK, Owner
  <2>. QED BY <2>1, <2>2
<1>5. ASSUME NEW i \in Items PROVE Owned(i)'
  BY <1>1, <1>3 DEF TypeOK, Owned
<1>6. ASSUME NEW u \in Workers, NEW v \in Workers PROVE Alone(u, v)'
  BY <1>1 DEF TypeOK, Alone, Settling, Res
<1>. QED BY <1>2, <1>4, <1>5, <1>6 DEF WorkerOK

LEMMA LockRowIInv ==
  ASSUME IInv, NEW w \in Workers, LockRow(w)
  PROVE  IInv'
<1>. USE DEF LockRow, Goto
<1>1. /\ job[w] # NoJob /\ job[w] \in Requests /\ job[w].item \in Items
      /\ pc[w] \in {"start", "read"} /\ job[w].op # "create"
      /\ pc[w] = "start" => job[w].op \notin SettleOps
  BY JobShape DEF IInv, TypeOK, Control, WantsLock, At, SettleOps
<1>2. TypeOK'
  BY <1>1 DEF IInv, TypeOK, Holding, rowVars
<1>3. WorkerOK(w)'
  BY <1>1 DEF IInv, TypeOK, WorkerOK, Control, Owner, DraftOK, Checked, Selectable,
              Holding, Res, rowVars
<1>. QED
  BY <1>1, <1>2, <1>3, StepIInv DEF IInv, TypeOK, Holding, Selectable

(* CreateCheck, ReserveLookup and SettleRead only move the handler on. *)
LEMMA ReadIInv ==
  ASSUME IInv, NEW w \in Workers,
         CreateCheck(w) \/ ReserveLookup(w) \/ SettleRead(w)
  PROVE  IInv'
<1>. USE DEF Goto, At
<1>1. pc[w] # "idle" /\ job[w] # NoJob
  BY DEF IInv, Control, CreateCheck, ReserveLookup, SettleRead
<1>2. job[w] \in Requests /\ job[w].item \in Items
  BY <1>1, JobShape DEF IInv, TypeOK
<1>3. \/ pc'[w] = "read" /\ pc[w] = "start"
      \/ pc'[w] = "clear" /\ pc[w] = "locked"
  BY DEF IInv, TypeOK, CreateCheck, ReserveLookup, SettleRead
<1>4. UNCHANGED <<rowVars, job, lock, draft, result>>
  BY DEF CreateCheck, ReserveLookup, SettleRead
<1>5. \A v \in Workers \ {w} : pc'[v] = pc[v]
  BY DEF IInv, TypeOK, CreateCheck, ReserveLookup, SettleRead
<1>6. TypeOK'
  BY DEF IInv, TypeOK, Holding, rowVars, CreateCheck, ReserveLookup, SettleRead
<1>7. WorkerOK(w)'
  <2>1. CASE CreateCheck(w)
    BY <2>1, <1>1, <1>3, <1>4
       DEF IInv, WorkerOK, Control, Owner, DraftOK, Checked, Holding, SettleOps, CreateCheck
  <2>2. CASE ReserveLookup(w)
    BY <2>2, <1>1, <1>3, <1>4
       DEF IInv, WorkerOK, Control, Owner, DraftOK, Checked, Holding, SettleOps, rowVars,
           ReserveLookup
  <2>3. CASE SettleRead(w)
    BY <2>3, <1>1, <1>3, <1>4
       DEF IInv, WorkerOK, Control, Owner, DraftOK, Checked, Holding, SettleOps, rowVars, Res,
           SettleRead
  <2>. QED BY <2>1, <2>2, <2>3
<1>8. pc'[w] \in Holding => lock[job[w].item] = w
  BY <1>3 DEF IInv, Owner, Holding
<1>9. \A i \in Items :
        lock'[i] = IF pc'[w] \in Holding /\ i = job[w].item THEN w ELSE lock[i]
  BY <1>4, <1>8
<1>. QED
  BY <1>1, <1>3, <1>4, <1>5, <1>6, <1>7, <1>8, <1>9, StepIInv DEF Holding

LEMMA CreateInsertIInv ==
  ASSUME IInv, NEW w \in Workers, CreateInsert(w)
  PROVE  IInv'
<1>. USE DEF CreateInsert, Goto, At
<1>1. /\ job[w] # NoJob /\ job[w] \in Requests /\ job[w].item \in Items
      /\ job[w].amount \in 0..MaxInt /\ job[w].amount \in Nat
  <2>1. pc[w] # "idle" /\ job[w].op = "create"
    OBVIOUS
  <2>2. job[w] # NoJob /\ job[w] \in Requests /\ job[w].item \in Items
    BY <2>1, BusyJob
  <2>3. job[w].amount \in 0..MaxInt
    BY <2>1, <2>2, JobShape
  <2>. QED BY <2>2, <2>3, BoundAssumption
<1>2. TypeOK'
  BY <1>1 DEF IInv, TypeOK, Holding, rowVars
<1>3. WorkerOK(w)'
  BY <1>1 DEF IInv, TypeOK, WorkerOK, Control, Owner, DraftOK, Checked, Fresh, Holding,
              SettleOps, rowVars
<1>. QED
  BY <1>1, <1>2, <1>3, StepIInv DEF IInv, TypeOK, Holding

LEMMA WriteIInv ==
  ASSUME IInv, NEW w \in Workers,
         AdjustWrite(w) \/ ReserveWrite(w) \/ SettleWrite(w)
  PROVE  IInv'
<1>. USE DEF Goto, At
<1>1. /\ job[w] # NoJob /\ job[w] \in Requests /\ job[w].item \in Items
      /\ pc[w] \in {"locked", "clear"} /\ lock[job[w].item] = w
      /\ draft[w] = [onHand |-> onHand[job[w].item], reserved |-> reserved[job[w].item]]
      /\ onHand[job[w].item] \in Nat /\ reserved[job[w].item] \in Nat
      /\ job[w].item \in stored
  BY JobShape DEF IInv, TypeOK, Control, Owner, DraftOK, Holding,
                  AdjustWrite, ReserveWrite, SettleWrite
<1>2. TypeOK' /\ WorkerOK(w)'
  <2>1. CASE AdjustWrite(w)
    <3>1. TypeOK'
      BY <2>1, <1>1, BoundAssumption DEF IInv, TypeOK, Holding, rowVars, AdjustWrite, Adjusted
    <3>2. WorkerOK(w)'
      BY <2>1, <1>1 DEF IInv, TypeOK, WorkerOK, Control, Owner, DraftOK, Checked, Fresh, Holding,
             SettleOps, rowVars, AdjustWrite, Adjusted
    <3>. QED BY <3>1, <3>2
  <2>2. CASE ReserveWrite(w)
    <3>. job[w].amount \in Nat /\ job[w].op = "reserve"
      BY <2>2, <1>1, JobShape DEF ReserveWrite
    <3>1. TypeOK'
      BY <2>2, <1>1 DEF IInv, TypeOK, Holding, rowVars, ReserveWrite
    <3>2. WorkerOK(w)'
      BY <2>2, <1>1 DEF IInv, TypeOK, WorkerOK, Control, Owner, DraftOK, Checked, Fresh, Holding,
             SettleOps, rowVars, ReserveWrite, Available, Res
    <3>. QED BY <3>1, <3>2
  <2>3. CASE SettleWrite(w)
    <3>. /\ job[w].op \in SettleOps /\ held[Res(w)] \in Nat
         /\ job[w].op \notin {"create", "adjust", "reserve"}
      BY <2>3, <1>1, JobShape DEF IInv, TypeOK, SettleWrite, Res, SettleOps
    <3>1. TypeOK'
      BY <2>3, <1>1 DEF IInv, TypeOK, Holding, rowVars, SettleWrite, SettledRow, Permitted, Shipped
    <3>2. Fresh(w)'
      BY <2>3, <1>1 DEF IInv, TypeOK, Fresh, rowVars, SettleWrite, SettledRow, Shipped, Res
    <3>3. WorkerOK(w)'
      BY <3>2, <2>3, <1>1 DEF IInv, TypeOK, WorkerOK, Control, Owner, DraftOK, Checked, Holding,
             SettleOps, rowVars, SettleWrite, Res
    <3>. QED BY <3>1, <3>3
  <2>. QED BY <2>1, <2>2, <2>3
<1>3. \A v \in Workers \ {w} : pc'[v] = pc[v] /\ draft'[v] = draft[v]
  BY DEF IInv, TypeOK, AdjustWrite, ReserveWrite, SettleWrite
<1>4. pc'[w] = "written" /\ UNCHANGED <<rowVars, job, lock>>
  BY DEF IInv, TypeOK, AdjustWrite, ReserveWrite, SettleWrite
<1>. QED
  BY <1>1, <1>2, <1>3, <1>4, StepIInv DEF Holding

(* The commit changes the row of the worker's own item and its own
   reservation, which no other handler owns or is about to settle. *)
LEMMA CommitIInv ==
  ASSUME IInv, NEW w \in Workers, Commit(w)
  PROVE  IInv'
<1>. DEFINE i == job[w].item
            r == Res(w)
            op == job[w].op
<1>1. /\ pc[w] = "written" /\ job[w] # NoJob /\ job[w] \in Requests /\ i \in Items
      /\ lock[i] = w
  BY BusyJob DEF Commit, IInv, Owner, Holding
<1>2. /\ op \in {"create", "adjust", "reserve"} \cup SettleOps
      /\ op \in {"reserve"} \cup SettleOps => r \in Reservations
      /\ op = "reserve" => job[w].amount \in Nat
  BY <1>1, JobShape DEF Res
<1>3. /\ job' = [job EXCEPT ![w] = NoJob]
      /\ pc' = [pc EXCEPT ![w] = "idle"]
      /\ draft' = [draft EXCEPT ![w] = NoDraft]
      /\ lock' = Unlocked(w)
  BY DEF Commit, Finish
<1>4. TypeOK'
  <2>1. PICK a \in Answers : result' = [result EXCEPT ![w] = a]
    BY DEF Commit, Finish, Answers
  <2>2. draft[w].onHand \in Nat /\ draft[w].reserved \in Nat
    BY DEF IInv, TypeOK
  <2>3. stored' \subseteq Items /\ onHand' \in [Items -> Nat] /\ reserved' \in [Items -> Nat]
    BY <1>1, <2>2 DEF IInv, TypeOK, Commit, InstallRow
  <2>4. status' \in [Reservations -> {"none", "reserved", "confirmed", "released"}]
    BY <1>2 DEF IInv, TypeOK, Commit, InstallReservation, Settled
  <2>5. held' \in [Reservations -> Nat]
    BY <1>2 DEF IInv, TypeOK, Commit, InstallReservation
  <2>. QED
    BY <1>3, <2>1, <2>3, <2>4, <2>5, NameAssumption DEF IInv, TypeOK, Unlocked, NoDraft
<1>5. WorkerOK(w)'
  BY <1>3 DEF IInv, TypeOK, WorkerOK, Control, Owner, DraftOK, Checked, Holding
<1>6. ASSUME NEW v \in Workers, v # w PROVE WorkerOK(v)'
  <2>1. pc'[v] = pc[v] /\ job'[v] = job[v] /\ draft'[v] = draft[v]
    BY <1>3, <1>6 DEF IInv, TypeOK
  <2>2. ASSUME pc[v] \in Holding
        PROVE  job[v].item \in Items /\ job[v].item # i /\ lock'[job[v].item] = v
    BY <2>2, <1>1, <1>3, <1>6, BusyJob DEF IInv, Owner, Holding, Unlocked
  <2>3. ASSUME pc[v] \in Holding
        PROVE  LET k == job[v].item IN
               /\ onHand'[k] = onHand[k] /\ reserved'[k] = reserved[k]
               /\ k \in stored' <=> k \in stored
    BY <2>2, <2>3, <1>1 DEF IInv, TypeOK, Commit, InstallRow
  <2>4. ASSUME pc[v] \in Holding, job[v].op \in {"reserve"} \cup SettleOps
        PROVE  status'[Res(v)] = status[Res(v)] /\ held'[Res(v)] = held[Res(v)]
    <3>1. Res(v) \in Reservations
      BY <2>4, BusyJob, JobShape DEF Res, Holding
    <3>2. Res(v) # r
      BY <2>2, <2>4 DEF Res
    <3>. QED
      BY <3>1, <3>2, <1>2 DEF IInv, TypeOK, Commit, InstallReservation
  <2>5. Control(v)' /\ Owner(v)'
    BY <2>1, <2>2 DEF IInv, Control, Owner
  <2>6. DraftOK(v)'
    <3>1. CASE pc[v] # "written"
      BY <3>1, <2>1, <2>3 DEF IInv, DraftOK, Holding
    <3>2. CASE pc[v] = "written"
      <4>1. job[v].op \in {"create", "adjust", "reserve"} \cup SettleOps
        BY <3>2, BusyJob, JobShape
      <4>2. job[v].op \in SettleOps => job[v].op \notin {"create", "adjust", "reserve"}
        BY DEF SettleOps
      <4>3. Res(v)' = Res(v)
        BY <2>1 DEF Res
      <4>4. job[v].op \in SettleOps => Shipped(v)' = Shipped(v) /\ held'[Res(v)] = held[Res(v)]
        BY <3>2, <2>1, <2>4, <4>3 DEF Shipped, Holding
      <4>5. Fresh(v)
        BY <3>2 DEF IInv, DraftOK
      <4>6. Fresh(v)'
        <5>1. CASE job[v].op = "create"
          BY <5>1, <4>5, <3>2, <2>1, <2>3 DEF Fresh, Holding
        <5>2. CASE job[v].op = "adjust"
          BY <5>2, <4>5, <3>2, <2>1, <2>3 DEF Fresh, Holding
        <5>3. CASE job[v].op = "reserve"
          BY <5>3, <4>5, <3>2, <2>1, <2>3 DEF Fresh, Holding
        <5>4. CASE job[v].op \in SettleOps
          BY <5>4, <4>2, <4>3, <4>4, <4>5, <3>2, <2>1, <2>3 DEF Fresh, Holding
        <5>. QED BY <4>1, <5>1, <5>2, <5>3, <5>4
      <4>. QED
        BY <3>2, <4>6, <2>1, <2>3 DEF IInv, DraftOK, Holding
    <3>. QED BY <3>1, <3>2
  <2>7. Checked(v)'
    <3>1. Res(v)' = Res(v)
      BY <2>1 DEF Res
    <3>2. ASSUME pc[v] \in {"read"} \cup Holding, job[v].op \in SettleOps
          PROVE  /\ status'[Res(v)] # "none"
                 /\ OneSettler => status'[Res(v)] = "reserved"
      <4>1. /\ status[Res(v)] # "none" /\ (OneSettler => status[Res(v)] = "reserved")
            /\ Res(v) \in Reservations /\ job[v] # NoJob
        BY <3>2, BusyJob, JobShape DEF IInv, Checked, Res, Holding
      <4>2. CASE Res(v) = r /\ op \in SettleOps
        <5>1. ~OneSettler
          BY <1>1, <1>6, <3>2, <4>1, <4>2 DEF IInv, Alone, Settling
        <5>2. status'[Res(v)] \in {"released", "confirmed"}
          BY <4>1, <4>2 DEF IInv, TypeOK, Commit, InstallReservation, Settled, SettleOps
        <5>. QED BY <5>1, <5>2
      <4>3. CASE Res(v) = r /\ op = "reserve"
        BY <4>1, <4>3, <1>1 DEF IInv, Checked
      <4>4. CASE Res(v) # r \/ op \notin {"reserve"} \cup SettleOps
        BY <4>1, <4>4, <1>2 DEF IInv, TypeOK, Commit, InstallReservation
      <4>. QED BY <4>2, <4>3, <4>4
    <3>3. ASSUME pc[v] = "written", job[v].op \in {"reserve", "adjust"}
          PROVE  LET k == job[v].item IN
                 /\ job[v].op = "reserve" =>
                      /\ status'[Res(v)] = "none"
                      /\ onHand'[k] - reserved'[k] >= job[v].amount
                 /\ job[v].op = "adjust" => onHand'[k] + job[v].amount \in 0..MaxInt
      BY <3>3, <2>3, <2>4 DEF IInv, Checked, Holding
    <3>. QED
      BY <3>1, <3>2, <3>3, <2>1 DEF Checked
  <2>. QED BY <2>5, <2>6, <2>7 DEF WorkerOK
<1>7. ASSUME NEW k \in Items PROVE Owned(k)'
  BY <1>3, NameAssumption DEF IInv, TypeOK, Owned, Unlocked
<1>8. ASSUME NEW u \in Workers, NEW v \in Workers PROVE Alone(u, v)'
  BY <1>3 DEF IInv, TypeOK, Alone, Settling, Res
<1>. QED BY <1>4, <1>5, <1>6, <1>7, <1>8 DEF IInv, WorkerOK

LEMMA NextIInv == IInv /\ [Next]_vars => IInv'
<1>. SUFFICES ASSUME IInv, [Next]_vars PROVE IInv'
  OBVIOUS
<1>1. ASSUME NEW w \in Workers, Start(w) PROVE IInv'
  BY <1>1, StartIInv
<1>2. ASSUME NEW w \in Workers, Handle(w) \/ Abort(w) PROVE IInv'
  <2>1. CASE LockRow(w)
    BY <2>1, LockRowIInv
  <2>2. CASE CreateCheck(w) \/ ReserveLookup(w) \/ SettleRead(w)
    BY <2>2, ReadIInv
  <2>3. CASE CreateInsert(w)
    BY <2>3, CreateInsertIInv
  <2>4. CASE AdjustWrite(w) \/ ReserveWrite(w) \/ SettleWrite(w)
    BY <2>4, WriteIInv
  <2>5. CASE Commit(w)
    BY <2>5, CommitIInv
  <2>6. CASE \/ LockMiss(w) \/ CreateRefuse(w) \/ CreateConflict(w) \/ AdjustRefuse(w)
             \/ AdjustOverflow(w) \/ ReserveExisting(w) \/ ReserveRefuse(w)
             \/ ReserveConflict(w) \/ SettleAnswer(w) \/ SettleForbidden(w) \/ Abort(w)
    <3>1. job[w] # NoJob
      BY <2>6 DEF IInv, Control, LockMiss, WantsLock, At, CreateRefuse, CreateConflict,
                  AdjustRefuse, AdjustOverflow, ReserveExisting, ReserveRefuse,
                  ReserveConflict, SettleAnswer, SettleForbidden, Abort
    <3>2. PICK a \in Answers : Decline(w, a)
      BY <2>6 DEF Answers, LockMiss, CreateRefuse, CreateConflict, AdjustRefuse,
                  AdjustOverflow, ReserveExisting, ReserveRefuse, ReserveConflict,
                  SettleAnswer, SettleForbidden, Abort
    <3>. QED BY <3>1, <3>2, DeclineIInv
  <2>. QED
    BY <1>2, <2>1, <2>2, <2>3, <2>4, <2>5, <2>6 DEF Handle, Create, Adjust, Reserve, Settle
<1>3. CASE UNCHANGED vars
  <2>. USE <1>3 DEF vars
  <2>1. TypeOK'
    BY DEF IInv, TypeOK
  <2>2. ASSUME NEW w \in Workers PROVE WorkerOK(w)'
    BY Frame DEF IInv, WorkerOK, Owner, rowVars
  <2>3. ASSUME NEW i \in Items PROVE Owned(i)'
    BY DEF IInv, Owned
  <2>4. ASSUME NEW u \in Workers, NEW v \in Workers PROVE Alone(u, v)'
    BY DEF IInv, Alone, Settling, Res
  <2>. QED BY <2>1, <2>2, <2>3, <2>4 DEF IInv, WorkerOK
<1>. QED BY <1>1, <1>2, <1>3 DEF Next

(* In every reachable state each handler owns the row it works on and its
   draft is the committed row with its own request applied. *)
THEOREM Inductive == Spec => []IInv
<1>. QED BY InitIInv, NextIInv, PTL DEF Spec

THEOREM TypeCorrect == Spec => []TypeOK
<1>1. IInv => TypeOK
  BY DEF IInv
<1>. QED BY <1>1, Inductive, PTL

(* The row locks rule out lost updates, for any number of concurrent
   requests: what a commit installs is the current row changed by its own
   request only. *)
THEOREM UpdatesAreNeverLost == Spec => []NoLostUpdate
<1>1. IInv => NoLostUpdate
  BY DEF IInv, NoLostUpdate, DraftOK
<1>. QED BY <1>1, Inductive, PTL

(* Which step changes the committed rows: only a commit. *)
LEMMA OnlyCommitWrites ==
  ASSUME Next, ~UNCHANGED rowVars
  PROVE  \E w \in Workers : Commit(w)
BY DEF Next, Start, Handle, Abort, LockRow, LockMiss, Goto, Decline, Create, CreateCheck,
       CreateRefuse, CreateInsert, CreateConflict, Adjust, AdjustWrite, AdjustRefuse,
       AdjustOverflow, Reserve, ReserveExisting, ReserveLookup, ReserveRefuse, ReserveWrite,
       ReserveConflict, Settle, SettleRead, SettleAnswer, SettleWrite, SettleForbidden

(* A reservation takes units only while they are on hand, for any
   interleaving with adjustments and other reservations. *)
THEOREM NothingIsOversold == Spec => NeverOversold
<1>1. ASSUME IInv, [Next]_vars, NEW i \in Items, reserved'[i] > reserved[i]
      PROVE  reserved'[i] <= onHand'[i]
  <2>0. reserved'[i] \in Nat /\ reserved[i] \in Nat
    BY <1>1, NextIInv DEF IInv, TypeOK
  <2>1. ~UNCHANGED rowVars /\ Next
    BY <1>1, <2>0 DEF rowVars, vars
  <2>2. PICK w \in Workers : Commit(w)
    BY <2>1, OnlyCommitWrites
  <2>3. /\ pc[w] = "written" /\ job[w] # NoJob /\ job[w] \in Requests
        /\ job[w].item \in Items /\ Fresh(w)
    BY <1>1, <2>2, BusyJob DEF Commit, IInv, DraftOK
  <2>4. job[w].op \in {"create", "adjust", "reserve"} \cup SettleOps
    BY <2>3, JobShape
  <2>5. CASE job[w].op = "reserve"
    <3>1. /\ reserved' = [reserved EXCEPT ![job[w].item] = draft[w].reserved]
          /\ onHand' = onHand
      BY <2>2, <2>5 DEF Commit, InstallRow
    <3>2. i = job[w].item
      BY <1>1, <2>0, <3>1 DEF IInv, TypeOK
    <3>3. /\ draft[w].reserved = reserved[i] + job[w].amount
          /\ onHand[i] - reserved[i] >= job[w].amount
      BY <1>1, <2>3, <2>5, <3>2 DEF IInv, Fresh, Checked
    <3>4. onHand[i] \in Nat /\ job[w].amount \in Int
      BY <1>1, <2>3, JobShape DEF IInv, TypeOK
    <3>. QED
      BY <1>1, <2>0, <3>1, <3>2, <3>3, <3>4 DEF IInv, TypeOK
  <2>6. CASE job[w].op \in {"create", "adjust"}
    BY <1>1, <2>0, <2>2, <2>6 DEF Commit, InstallRow
  <2>7. CASE job[w].op \in SettleOps
    <3>1. held[Res(w)] \in Nat
      BY <1>1, <2>3, <2>7, JobShape DEF IInv, TypeOK, Res
    <3>2. draft[w].reserved = reserved[job[w].item] - held[Res(w)]
      BY <2>3, <2>7 DEF Fresh, SettleOps
    <3>. QED
      BY <1>1, <2>0, <2>2, <2>3, <2>7, <3>1, <3>2 DEF IInv, TypeOK, Commit, InstallRow
  <2>. QED BY <2>4, <2>5, <2>6, <2>7
<1>2. IInv /\ [Next]_vars =>
        [\A i \in Items : reserved'[i] > reserved[i] => reserved'[i] <= onHand'[i]]_vars
  BY <1>1
<1>. QED BY <1>2, Inductive, PTL DEF NeverOversold, Spec

(* When callers settle a reservation once at a time, the unlocked read of
   its status is good enough: a settled reservation is final. *)
THEOREM SettlementIsFinal ==
  ASSUME OneSettler
  PROVE  Spec => SettledIsFinal
<1>1. ASSUME IInv, [Next]_vars, NEW r \in Reservations,
             status[r] \in {"confirmed", "released"}
      PROVE  status'[r] = status[r]
  <2>1. CASE UNCHANGED rowVars
    BY <2>1 DEF rowVars
  <2>2. CASE ~UNCHANGED rowVars
    <3>1. PICK w \in Workers : Commit(w)
      BY <1>1, <2>2, OnlyCommitWrites DEF vars, rowVars
    <3>2. /\ pc[w] = "written" /\ job[w] # NoJob
          /\ job[w].op \in {"reserve"} \cup SettleOps => Res(w) \in Reservations
      BY <1>1, <3>1, BusyJob, JobShape DEF Commit, Res
    <3>3. job[w].op \in {"reserve"} \cup SettleOps => status[Res(w)] \in {"none", "reserved"}
      BY <1>1, <3>2, OneSettler DEF IInv, Checked, Holding
    <3>4. job[w].op \in {"reserve"} \cup SettleOps => r # Res(w)
      BY <1>1, <3>3
    <3>. QED
      BY <1>1, <3>1, <3>2, <3>4 DEF IInv, TypeOK, Commit, InstallReservation
  <2>. QED BY <2>1, <2>2
<1>2. IInv /\ [Next]_vars =>
        [\A r \in Reservations :
           status[r] \in {"confirmed", "released"} => status'[r] = status[r]]_vars
  BY <1>1
<1>. QED BY <1>2, Inductive, PTL DEF SettledIsFinal, Spec

-----------------------------------------------------------------------------
(* No two transitions of reservations have the same event. *)
LEMMA EventsDiffer ==
  ASSUME NEW o1, NEW o2, NEW i1, NEW i2, NEW x1, NEW x2,
         Event(o1, i1, x1) = Event(o2, i2, x2)
  PROVE  o1 = o2 /\ i1 = i2 /\ x1 = x2
<1>1. o1 = o2 /\ x1 = x2
  BY DEF Event
<1>2. Event(o1, i1, x1).variant_id = Event(o2, i2, x2).variant_id
  OBVIOUS
<1>3. i1 = i2
  BY <1>1, <1>2 DEF Event, VariantId, ItemId
<1>. QED  BY <1>1, <1>3

(* A request is announced as it becomes one that only has to commit. *)
LEMMA AnnounceRecords ==
  ASSUME ~Lossy, IInv, RecordsMatchCommits, NEW w \in Workers,
         CreateInsert(w) \/ AdjustWrite(w) \/ ReserveWrite(w) \/ SettleWrite(w)
  PROVE  RecordsMatchCommits'
<1>1. /\ events' = events \cup EventsOf(job[w])
      /\ audits' = audits \cup AuditsOf(job[w])
      /\ pc[w] \in {"read", "locked", "clear"} /\ pc' = [pc EXCEPT ![w] = "written"]
      /\ UNCHANGED <<job, status>>
  BY DEF CreateInsert, AdjustWrite, ReserveWrite, SettleWrite, Announce, Kept, Goto, At, rowVars
<1>. SUFFICES ASSUME NEW r \in Reservations, NEW op \in {"reserve"} \cup SettleOps
              PROVE  /\ Announced(op, r)' <=> Done(op, r)' \/ InFlight(op, r)'
                     /\ Audited(op, r)' <=> Done(op, r)' \/ InFlight(op, r)'
  BY DEF RecordsMatchCommits
<1>2. r = <<r[1], r[2]>>
  BY DEF Reservations
<1>3. InFlight(op, r)' <=> InFlight(op, r) \/ (job[w].op = op /\ Res(w) = r)
  BY <1>1 DEF IInv, TypeOK, InFlight, Res
<1>4. Announced(op, r)' <=> Announced(op, r) \/ (job[w].op = op /\ Res(w) = r)
  <2>1. Event(op, r[1], r[2]) \in EventsOf(job[w]) <=> job[w].op = op /\ Res(w) = r
    BY <1>2, EventsDiffer DEF EventsOf, Res, SettleOps
  <2>. QED  BY <1>1, <2>1 DEF Announced
<1>5. Audited(op, r)' <=> Audited(op, r) \/ (job[w].op = op /\ Res(w) = r)
  <2>1. [action |-> op, item |-> r[1], order |-> r[2]] \in AuditsOf(job[w])
          <=> job[w].op = op /\ Res(w) = r
    BY <1>2 DEF AuditsOf, Res
  <2>. QED  BY <1>1, <2>1 DEF Audited
<1>6. Done(op, r)' <=> Done(op, r)
  BY <1>1 DEF Done
<1>. QED  BY <1>3, <1>4, <1>5, <1>6 DEF RecordsMatchCommits

(* The commit makes the transition that was announced, and undoes none. *)
LEMMA CommitRecords ==
  ASSUME OneSettler, IInv, RecordsMatchCommits, NEW w \in Workers, Commit(w)
  PROVE  RecordsMatchCommits'
<1>1. /\ pc[w] = "written" /\ job[w] # NoJob /\ job[w] \in Requests
      /\ job[w].op \in {"create", "adjust", "reserve"} \cup SettleOps
      /\ job[w].op \in {"reserve"} \cup SettleOps => Res(w) \in Reservations
  <2>1. pc[w] = "written"
    BY DEF Commit
  <2>. QED  BY <2>1, BusyJob, JobShape DEF Res
<1>2. /\ job[w].op = "reserve" => status[Res(w)] = "none"
      /\ job[w].op \in SettleOps => status[Res(w)] = "reserved"
  BY <1>1 DEF IInv, Checked, Holding
<1>3. /\ pc' = [pc EXCEPT ![w] = "idle"] /\ job' = [job EXCEPT ![w] = NoJob]
      /\ UNCHANGED <<events, audits>>
  BY DEF Commit, Finish, sinkVars
<1>. SUFFICES ASSUME NEW r \in Reservations, NEW op \in {"reserve"} \cup SettleOps
              PROVE  Done(op, r)' \/ InFlight(op, r)' <=> Done(op, r) \/ InFlight(op, r)
  BY <1>3 DEF RecordsMatchCommits, Announced, Audited
<1>4. CASE job[w].op = op /\ Res(w) = r
  <2>1. Done(op, r)'
    BY <1>1, <1>4 DEF IInv, TypeOK, Commit, InstallReservation, Done, SettleOps, Settled
  <2>2. InFlight(op, r)
    BY <1>1, <1>4 DEF InFlight
  <2>. QED  BY <2>1, <2>2
<1>5. CASE ~(job[w].op = op /\ Res(w) = r)
  <2>1. InFlight(op, r)' <=> InFlight(op, r)
    BY <1>3, <1>5 DEF IInv, TypeOK, InFlight, Res
  <2>2. Done(op, r)' <=> Done(op, r)
    <3>1. CASE Res(w) # r \/ job[w].op \in {"create", "adjust"}
      BY <1>1, <3>1 DEF IInv, TypeOK, Commit, InstallReservation, Done, SettleOps
    <3>2. CASE Res(w) = r /\ job[w].op \in {"reserve"} \cup SettleOps
      BY <1>1, <1>2, <1>5, <3>2
         DEF IInv, TypeOK, Commit, InstallReservation, Done, SettleOps, Settled
    <3>. QED  BY <1>1, <3>1, <3>2
  <2>. QED  BY <2>1, <2>2
<1>. QED  BY <1>4, <1>5

(* Every other step sends nothing, changes no reservation, and neither reaches
   nor leaves the point where only the commit is left: without a crash no
   request ends there. *)
LEMMA OtherRecords ==
  ASSUME ~Crashes, IInv, RecordsMatchCommits, NEW w \in Workers,
         \/ Start(w) \/ LockRow(w) \/ LockMiss(w) \/ CreateCheck(w) \/ CreateRefuse(w)
         \/ CreateConflict(w) \/ AdjustRefuse(w) \/ AdjustOverflow(w) \/ ReserveExisting(w)
         \/ ReserveLookup(w) \/ ReserveRefuse(w) \/ ReserveConflict(w) \/ SettleRead(w)
         \/ SettleAnswer(w) \/ SettleForbidden(w)
  PROVE  RecordsMatchCommits'
<1>. USE DEF Start, LockRow, LockMiss, WantsLock, CreateCheck, CreateRefuse, CreateConflict,
             AdjustRefuse, AdjustOverflow, ReserveExisting, ReserveLookup, ReserveRefuse,
             ReserveConflict, SettleRead, SettleAnswer, SettleForbidden, At, Goto, Decline,
             Finish, rowVars, sinkVars
<1>1. UNCHANGED <<status, events, audits>>
  OBVIOUS
<1>2. pc[w] # "written"
  BY DEF IInv, Control
<1>3. \E l \in {"idle", "start", "read", "locked", "clear"} : pc' = [pc EXCEPT ![w] = l]
  OBVIOUS
<1>4. \E j : job' = [job EXCEPT ![w] = j]
  <2>1. UNCHANGED job \/ \E j : job' = [job EXCEPT ![w] = j]
    OBVIOUS
  <2>. QED  BY <2>1 DEF IInv, TypeOK
<1>. HIDE DEF Start, LockRow, LockMiss, WantsLock, CreateCheck, CreateRefuse, CreateConflict,
             AdjustRefuse, AdjustOverflow, ReserveExisting, ReserveLookup, ReserveRefuse,
             ReserveConflict, SettleRead, SettleAnswer, SettleForbidden, Decline, Finish
<1>5. ASSUME NEW v \in Workers
      PROVE  /\ pc'[v] = "written" <=> pc[v] = "written"
             /\ pc[v] = "written" => job'[v] = job[v]
  BY <1>2, <1>3, <1>4 DEF IInv, TypeOK
<1>6. ASSUME NEW r \in Reservations, NEW op \in {"reserve"} \cup SettleOps
      PROVE  /\ InFlight(op, r)' <=> InFlight(op, r)
             /\ Done(op, r)' <=> Done(op, r)
             /\ Announced(op, r)' <=> Announced(op, r)
             /\ Audited(op, r)' <=> Audited(op, r)
  BY <1>1, <1>5 DEF InFlight, Done, Announced, Audited, Res
<1>. QED  BY <1>6 DEF RecordsMatchCommits

(* When nothing crashes and no sink loses anything, the events and the audit
   records of reservations, sent before the commit, are the committed
   transitions and those about to commit. *)
THEOREM RecordsAreCommits ==
  ASSUME OneSettler, ~Crashes, ~Lossy
  PROVE  Spec => []RecordsMatchCommits
<1>1. Init => RecordsMatchCommits
  <2>. SUFFICES ASSUME Init, NEW r \in Reservations, NEW op \in {"reserve"} \cup SettleOps
                PROVE  ~Announced(op, r) /\ ~Audited(op, r) /\ ~Done(op, r) /\ ~InFlight(op, r)
    BY DEF RecordsMatchCommits
  <2>. QED  BY DEF Init, Announced, Audited, Done, InFlight, SettleOps, Settled
<1>2. IInv /\ RecordsMatchCommits /\ [Next]_vars => RecordsMatchCommits'
  <2>. SUFFICES ASSUME IInv, RecordsMatchCommits, [Next]_vars PROVE RecordsMatchCommits'
    OBVIOUS
  <2>1. ASSUME NEW w \in Workers, Start(w) \/ Handle(w) \/ Abort(w)
        PROVE  RecordsMatchCommits'
    BY <2>1, AnnounceRecords, CommitRecords, OtherRecords
       DEF Handle, Create, Adjust, Reserve, Settle, Abort
  <2>2. CASE UNCHANGED vars
    <3>1. ASSUME NEW r \in Reservations, NEW op \in {"reserve"} \cup SettleOps
          PROVE  /\ InFlight(op, r)' <=> InFlight(op, r)
                 /\ Done(op, r)' <=> Done(op, r)
                 /\ Announced(op, r)' <=> Announced(op, r)
                 /\ Audited(op, r)' <=> Audited(op, r)
      BY <2>2 DEF vars, InFlight, Done, Announced, Audited, Res
    <3>. QED  BY <3>1 DEF RecordsMatchCommits
  <2>. QED  BY <2>1, <2>2 DEF Next
<1>. QED  BY <1>1, <1>2, Inductive, PTL DEF Spec

-----------------------------------------------------------------------------
(* An item has finitely many active reservations, and their quantities add up
   to its quantity_reserved. *)
Conserved == /\ \A i \in Items : IsFiniteSet(Active(i))
             /\ Conservation

(* Only a commit changes rows. *)
LEMMA OtherRows ==
  ASSUME NEW w \in Workers, Start(w) \/ Handle(w) \/ Abort(w), ~Commit(w)
  PROVE  UNCHANGED rowVars
BY DEF Start, Handle, Abort, LockRow, LockMiss, Create, Adjust, Reserve, Settle, CreateCheck,
       CreateRefuse, CreateInsert, CreateConflict, AdjustWrite, AdjustRefuse, AdjustOverflow,
       ReserveExisting, ReserveLookup, ReserveRefuse, ReserveWrite, ReserveConflict, SettleRead,
       SettleAnswer, SettleWrite, SettleForbidden, Decline, Goto

(* Items the request is not about are left alone. *)
LEMMA OthersConserved ==
  ASSUME IInv, Conserved, NEW w \in Workers, Commit(w), NEW k \in Items, k # job[w].item
  PROVE  /\ IsFiniteSet(Active(k)')
         /\ reserved'[k] = SumFunctionOnSet(held', Active(k)')
<1>1. job[w] \in Requests /\ job[w].op \in {"create", "adjust", "reserve"} \cup SettleOps
      /\ job[w].item \in Items
  BY BusyJob, JobShape DEF Commit
<1>2. reserved'[k] = reserved[k]
  BY <1>1 DEF Commit, InstallRow, IInv, TypeOK
<1>3. ASSUME NEW r \in Reservations, r[1] = k
      PROVE  status'[r] = status[r] /\ held'[r] = held[r]
  <2>1. r # Res(w)
    BY <1>3 DEF Res
  <2>. QED  BY <1>1, <2>1 DEF Commit, InstallReservation, IInv, TypeOK, SettleOps
<1>4. Active(k)' = Active(k) /\ \A r \in Active(k) : held[r] = held'[r]
  BY <1>3 DEF Active
<1>5. SumFunctionOnSet(held, Active(k)) = SumFunctionOnSet(held', Active(k))
  BY <1>4, SumIsLocal DEF Conserved
<1>. QED  BY <1>2, <1>4, <1>5 DEF Conserved, Conservation

(* A reservation joins the active ones of its item, with its quantity. *)
LEMMA ReserveConserves ==
  ASSUME IInv, Conserved, NEW w \in Workers, Commit(w), job[w].op = "reserve",
         NEW i, i = job[w].item, NEW r, r = Res(w)
  PROVE  Conserved'
<1>1. pc[w] = "written" /\ job[w] \in Requests /\ i \in Items /\ r \in Reservations
      /\ r[1] = i /\ job[w].amount \in Nat \ {0}
  BY BusyJob, JobShape DEF Commit, Res
<1>2. status[r] = "none"
  BY <1>1 DEF IInv, Checked, Holding
<1>3. draft[w].reserved = reserved[i] + job[w].amount
  <2>1. Fresh(w)
    BY <1>1 DEF IInv, DraftOK
  <2>2. draft[w] = [onHand |-> onHand[i], reserved |-> reserved[i] + job[w].amount]
    BY <2>1 DEF Fresh
  <2>. QED  BY <2>2
<1>4. /\ status' = [status EXCEPT ![r] = "reserved"]
      /\ held' = [held EXCEPT ![r] = job[w].amount]
      /\ reserved' = [reserved EXCEPT ![i] = draft[w].reserved]
  BY DEF Commit, InstallRow, InstallReservation, SettleOps
<1>5. r \notin Active(i) /\ Active(i)' = Active(i) \cup {r}
  BY <1>1, <1>2, <1>4 DEF Active, IInv, TypeOK
<1>6. /\ \A x \in Active(i) \cup {r} : held'[x] \in Int
      /\ \A x \in Active(i) : held[x] = held'[x]
      /\ held'[r] = job[w].amount
  BY <1>1, <1>4, <1>5 DEF Active, IInv, TypeOK
<1>7. IsFiniteSet(Active(i)) /\ reserved[i] = SumFunctionOnSet(held, Active(i))
  BY <1>1 DEF Conserved, Conservation
<1>8. IsFiniteSet(Active(i)')
  BY <1>5, <1>7, FS_AddElement
<1>9. SumFunctionOnSet(held', Active(i)') = job[w].amount + SumFunctionOnSet(held', Active(i))
  BY <1>5, <1>6, <1>7, SumTakesIn
<1>10. SumFunctionOnSet(held', Active(i)) = reserved[i]
  BY <1>6, <1>7, SumIsLocal
<1>11. reserved'[i] = SumFunctionOnSet(held', Active(i)')
  BY <1>1, <1>3, <1>4, <1>9, <1>10 DEF IInv, TypeOK
<1>12. ASSUME NEW k \in Items
       PROVE  IsFiniteSet(Active(k)') /\ reserved'[k] = SumFunctionOnSet(held', Active(k)')
  BY <1>8, <1>11, OthersConserved
<1>. QED  BY <1>12 DEF Conserved, Conservation

(* A settled reservation leaves them, with its quantity.  That it was active
   until now is what OneSettler is for. *)
LEMMA SettleConserves ==
  ASSUME OneSettler, IInv, Conserved, NEW w \in Workers, Commit(w), job[w].op \in SettleOps,
         NEW i, i = job[w].item, NEW r, r = Res(w)
  PROVE  Conserved'
<1>1. pc[w] = "written" /\ job[w] \in Requests /\ i \in Items /\ r \in Reservations /\ r[1] = i
  BY BusyJob, JobShape DEF Commit, Res
<1>2. status[r] = "reserved"
  BY <1>1 DEF IInv, Checked, Holding
<1>3. draft[w].reserved = reserved[i] - held[r]
  <2>1. Fresh(w)
    BY <1>1 DEF IInv, DraftOK
  <2>2. draft[w] = [onHand |-> onHand[i] - Shipped(w), reserved |-> reserved[i] - held[r]]
    BY <2>1 DEF Fresh, SettleOps
  <2>. QED  BY <2>2
<1>4. /\ status' = [status EXCEPT ![r] = Settled(job[w].op)]
      /\ held' = held
      /\ reserved' = [reserved EXCEPT ![i] = draft[w].reserved]
  BY DEF Commit, InstallRow, InstallReservation, SettleOps
<1>5. Settled(job[w].op) # "reserved"
  BY DEF Settled
<1>6. r \in Active(i) /\ Active(i)' = Active(i) \ {r}
  BY <1>1, <1>2, <1>4, <1>5 DEF Active, IInv, TypeOK
<1>7. \A x \in Active(i) : held[x] \in Int
  BY DEF Active, IInv, TypeOK
<1>8. IsFiniteSet(Active(i)) /\ reserved[i] = SumFunctionOnSet(held, Active(i))
  BY <1>1 DEF Conserved, Conservation
<1>9. IsFiniteSet(Active(i)')
  BY <1>6, <1>8, FS_RemoveElement
<1>10. SumFunctionOnSet(held, Active(i)') \in Int
  BY <1>6, <1>7, <1>9, SumIsInt
<1>11. reserved[i] = held[r] + SumFunctionOnSet(held, Active(i)')
  BY <1>6, <1>7, <1>8, SumTakesOut
<1>12. reserved'[i] = SumFunctionOnSet(held', Active(i)')
  BY <1>1, <1>3, <1>4, <1>6, <1>7, <1>10, <1>11 DEF IInv, TypeOK
<1>13. ASSUME NEW k \in Items
       PROVE  IsFiniteSet(Active(k)') /\ reserved'[k] = SumFunctionOnSet(held', Active(k)')
  BY <1>9, <1>12, OthersConserved
<1>. QED  BY <1>13 DEF Conserved, Conservation

(* Creating an item or adjusting its stock touches no reservation. *)
LEMMA StockConserves ==
  ASSUME IInv, Conserved, UNCHANGED <<reserved, status, held>>
  PROVE  Conserved'
BY DEF Conserved, Conservation, Active

(* As long as callers settle a reservation once at a time, quantity_reserved
   is the sum of the active reservations, whatever interleaves and fails. *)
THEOREM ReservedIsWhatIsHeld ==
  ASSUME OneSettler
  PROVE  Spec => []Conservation
<1>1. Init => Conserved
  <2>. SUFFICES ASSUME Init, NEW i \in Items PROVE Active(i) = {} /\ reserved[i] = 0
    BY SumOfNothing, FS_EmptySet DEF Conserved, Conservation
  <2>. QED  BY DEF Init, Active
<1>2. IInv /\ Conserved /\ [Next]_vars => Conserved'
  <2>. SUFFICES ASSUME IInv, Conserved, [Next]_vars PROVE Conserved'
    OBVIOUS
  <2>1. ASSUME NEW w \in Workers, Start(w) \/ Handle(w) \/ Abort(w), ~Commit(w)
        PROVE  Conserved'
    BY <2>1, OtherRows, StockConserves DEF rowVars
  <2>2. ASSUME NEW w \in Workers, Commit(w) PROVE Conserved'
    <3>1. job[w].op \in {"create", "adjust", "reserve"} \cup SettleOps
      BY <2>2, BusyJob, JobShape DEF Commit
    <3>2. CASE job[w].op \in {"create", "adjust"}
      <4>1. UNCHANGED <<reserved, status, held>>
        BY <2>2, <3>2 DEF Commit, InstallRow, InstallReservation, SettleOps
      <4>. QED  BY <4>1, StockConserves
    <3>. QED  BY <2>2, <3>1, <3>2, ReserveConserves, SettleConserves
  <2>3. CASE UNCHANGED vars
    BY <2>3, StockConserves DEF vars
  <2>. QED  BY <2>1, <2>2, <2>3 DEF Next
<1>3. Conserved => Conservation
  BY DEF Conserved
<1>. QED  BY <1>1, <1>2, <1>3, Inductive, PTL DEF Spec

-----------------------------------------------------------------------------
(* The refinement: a commit is the one step in which a request takes effect,
   every early answer is an answer of the account, the rest is invisible. *)
LEMMA CommitServes ==
  ASSUME IInv, IInv', NEW w \in Workers, Commit(w)
  PROVE  Account!Serve(w)
<1>. DEFINE i == job[w].item
            r == Res(w)
            op == job[w].op
<1>1. /\ pc[w] = "written" /\ job[w] # NoJob /\ job[w] \in Requests /\ i \in Items
      /\ Fresh(w) /\ (op # "create" => i \in stored)
      /\ job[w].amount \in Int /\ onHand[i] \in Nat /\ reserved[i] \in Nat
  BY BusyJob, JobShape DEF Commit, IInv, DraftOK, TypeOK
<1>2. op \in {"create", "adjust", "reserve", "release", "confirm"}
  BY <1>1, JobShape DEF SettleOps
<1>3. Account!Answer(w, {"ok", "error"})
  BY DEF Account!Answer, Commit, Finish
<1>4. CASE op = "create"
  <2>1. Account!ServeCreate(w)
    BY <1>1, <1>4
       DEF Account!ServeCreate, Commit, InstallRow, InstallReservation, Fresh, SettleOps
  <2>. QED BY <2>1, <1>1, <1>3 DEF Account!Serve
<1>5. CASE op = "adjust"
  <2>1. onHand[i] + job[w].amount \in 0..MaxInt
    BY <1>1, <1>5 DEF IInv, Checked
  <2>2. draft[w].onHand = onHand[i] + job[w].amount
    BY <1>1, <1>5 DEF Fresh
  <2>3. /\ UNCHANGED <<stored, reserved, status, held>>
        /\ onHand' = [onHand EXCEPT ![i] = draft[w].onHand]
    BY <1>5 DEF Commit, InstallRow, InstallReservation, SettleOps
  <2>4. Account!ServeAdjust(w)
    BY <1>1, <1>5, <2>1, <2>2, <2>3 DEF Account!ServeAdjust
  <2>. QED BY <2>4, <1>1, <1>3 DEF Account!Serve
<1>6. CASE op = "reserve"
  <2>1. status[r] = "none" /\ onHand[i] - reserved[i] >= job[w].amount
    BY <1>1, <1>6 DEF IInv, Checked
  <2>2. draft[w].reserved = reserved[i] + job[w].amount
    BY <1>1, <1>6 DEF Fresh
  <2>3. /\ UNCHANGED <<stored, onHand>>
        /\ reserved' = [reserved EXCEPT ![i] = draft[w].reserved]
    BY <1>6 DEF Commit, InstallRow
  <2>5. /\ status' = [status EXCEPT ![r] = "reserved"]
        /\ held' = [held EXCEPT ![r] = job[w].amount]
    BY <1>6 DEF Commit, InstallReservation, SettleOps
  <2>4. Account!ServeReserve(w)
    BY <1>1, <1>6, <2>1, <2>2, <2>3, <2>5 DEF Account!ServeReserve, Res
  <2>. QED BY <2>4, <1>1, <1>3 DEF Account!Serve
<1>7. CASE op \in SettleOps
  <2>1. r \in Reservations /\ held[r] \in Nat
    BY <1>1, <1>7, JobShape DEF IInv, TypeOK, Res
  <2>2. status[r] \in IF OneSettler THEN {"reserved"}
                       ELSE {"reserved", "released", "confirmed"}
    BY <1>1, <1>7, <2>1, FlagAssumption DEF IInv, TypeOK, Checked, Holding
  <2>3. draft[w] = [onHand |-> onHand[i] - Shipped(w), reserved |-> reserved[i] - held[r]]
    BY <1>1, <1>7 DEF Fresh, SettleOps
  <2>4. onHand[i] >= Shipped(w) /\ reserved[i] >= held[r] /\ Shipped(w) \in Nat
    <3>1. draft[w].onHand \in Nat /\ draft[w].reserved \in Nat
      BY DEF IInv, TypeOK
    <3>2. Shipped(w) \in Nat
      BY <2>1 DEF Shipped
    <3>. QED BY <3>1, <3>2, <2>1, <2>3, <1>1
  <2>5. /\ stored' = stored /\ held' = held
        /\ status' = [status EXCEPT ![r] = Settled(op)]
        /\ reserved' = [reserved EXCEPT ![i] = reserved[i] - held[r]]
    BY <1>7, <2>3 DEF Commit, InstallRow, InstallReservation, SettleOps
  <2>6. onHand' = [onHand EXCEPT ![i] = onHand[i] - Shipped(w)]
    <3>1. CASE op = "confirm"
      BY <3>1, <2>3 DEF Commit, InstallRow
    <3>2. CASE op = "release"
      <4>1. onHand' = onHand /\ Shipped(w) = 0
        BY <3>2 DEF Commit, InstallRow, Shipped
      <4>. QED BY <4>1, <1>1 DEF IInv, TypeOK
    <3>. QED BY <1>7, <3>1, <3>2 DEF SettleOps
  <2>7. Account!ServeSettle(w)
    BY <1>7, <2>2, <2>4, <2>5, <2>6
       DEF Account!ServeSettle, Account!SettleOps, Account!Settled, SettleOps, Settled, Shipped, Res
  <2>. QED BY <2>7, <1>1, <1>3 DEF Account!Serve
<1>. QED BY <1>2, <1>4, <1>5, <1>6, <1>7 DEF SettleOps

LEMMA StepImplements ==
  ASSUME IInv, IInv', [Next]_vars
  PROVE  [Account!Next]_(Account!accountVars)
<1>. USE DEF Account!Next, Account!accountVars
<1>1. ASSUME NEW w \in Workers, Start(w) PROVE Account!Submit(w)
  BY <1>1 DEF Start, Account!Submit, rowVars
<1>2. ASSUME NEW w \in Workers,
             \/ LockRow(w) \/ CreateCheck(w) \/ CreateInsert(w) \/ AdjustWrite(w)
             \/ ReserveLookup(w) \/ ReserveWrite(w) \/ SettleRead(w) \/ SettleWrite(w)
      PROVE  UNCHANGED Account!accountVars
  BY <1>2 DEF LockRow, CreateCheck, CreateInsert, AdjustWrite, ReserveLookup, ReserveWrite,
              SettleRead, SettleWrite, Goto, rowVars
<1>3. ASSUME NEW w \in Workers, NEW a \in Answers, job[w] # NoJob, Decline(w, a),
             \/ a = "unchanged" /\ Account!AlreadyDone(w)
             \/ a = "refused" /\ Account!Refusable(w)
             \/ a = "not_found" /\ job[w].op # "create"
             \/ a = "error"
      PROVE  Account!Decline(w)
  BY <1>3 DEF Account!Decline, Account!Answer, Decline, Finish, rowVars
<1>4. ASSUME NEW w \in Workers,
             \/ LockMiss(w) \/ CreateConflict(w) \/ AdjustOverflow(w) \/ ReserveConflict(w)
             \/ SettleForbidden(w) \/ Abort(w)
      PROVE  Account!Decline(w)
  <2>1. job[w] # NoJob
    BY <1>4 DEF IInv, Control, LockMiss, WantsLock, At, CreateConflict, AdjustOverflow,
                ReserveConflict, SettleForbidden, Abort
  <2>2. \/ Decline(w, "error")
        \/ Decline(w, "not_found") /\ job[w].op # "create"
    BY <1>4 DEF LockMiss, WantsLock, At, SettleOps, CreateConflict, AdjustOverflow,
                ReserveConflict, SettleForbidden, Abort
  <2>. QED BY <2>1, <2>2, <1>3 DEF Answers
<1>5. ASSUME NEW w \in Workers, CreateRefuse(w) \/ AdjustRefuse(w) \/ ReserveRefuse(w)
      PROVE  Account!Decline(w)
  <2>1. /\ pc[w] # "idle" /\ Decline(w, "refused")
        /\ pc[w] \in {"locked", "clear"} =>
             draft[w] = [onHand |-> onHand[job[w].item], reserved |-> reserved[job[w].item]]
    BY <1>5 DEF IInv, DraftOK, At, CreateRefuse, AdjustRefuse, ReserveRefuse
  <2>2. Account!Refusable(w)
    BY <1>5, <2>1 DEF Account!Refusable, CreateRefuse, AdjustRefuse, ReserveRefuse, At,
                      Adjusted, Available
  <2>. QED BY <2>1, <2>2, <1>3, BusyJob DEF Answers
<1>6. ASSUME NEW w \in Workers, ReserveExisting(w) PROVE Account!Decline(w)
  <2>1. Account!AlreadyDone(w)
    BY <1>6 DEF Account!AlreadyDone, ReserveExisting, ActiveItems, At
  <2>. QED BY <1>6, <2>1, <1>3, BusyJob DEF ReserveExisting, At, Answers
<1>7. ASSUME NEW w \in Workers, SettleAnswer(w) PROVE Account!Decline(w)
  <2>1. pc[w] # "idle" /\ job[w].op \in SettleOps /\ job[w].op # "create"
    BY <1>7 DEF SettleAnswer, At, SettleOps
  <2>2. job[w] # NoJob
    BY <2>1, BusyJob
  <2>3. CASE status[Res(w)] = "none" /\ Decline(w, "not_found")
    BY <2>1, <2>2, <2>3, <1>3 DEF Answers
  <2>4. CASE status[Res(w)] = Settled(job[w].op) /\ Decline(w, "unchanged")
    <3>1. Account!AlreadyDone(w)
      BY <2>1, <2>4 DEF Account!AlreadyDone, Account!SettleOps, Account!Settled, SettleOps,
                        Settled, Res
    <3>. QED BY <2>2, <2>4, <3>1, <1>3 DEF Answers
  <2>5. CASE /\ status[Res(w)] \in {"released", "confirmed"} \ {Settled(job[w].op)}
             /\ Decline(w, "refused")
    <3>1. Account!Refusable(w)
      BY <2>1, <2>5 DEF Account!Refusable, Account!SettleOps, Account!Settled, SettleOps,
                        Settled, Res
    <3>. QED BY <2>2, <2>5, <3>1, <1>3 DEF Answers
  <2>. QED BY <1>7, <2>3, <2>4, <2>5 DEF SettleAnswer
<1>8. ASSUME NEW w \in Workers, Commit(w) PROVE Account!Serve(w)
  BY <1>8, CommitServes
<1>9. CASE UNCHANGED vars
  BY <1>9 DEF vars
<1>. QED
  BY <1>1, <1>2, <1>4, <1>5, <1>6, <1>7, <1>8, <1>9
     DEF Next, Handle, Create, Adjust, Reserve, Settle

(* Every behaviour of the handlers is a behaviour of the account: an answer
   "ok" stands for exactly one effect, applied to the rows of that instant. *)
THEOREM HandlersImplementAccount == Spec => ImplementsAccount
<1>1. Init => Account!Init
  BY DEF Init, Account!Init, Reservations
<1>2. IInv /\ IInv' /\ [Next]_vars => [Account!Next]_(Account!accountVars)
  BY StepImplements
<1>. QED
  BY <1>1, <1>2, Inductive, PTL DEF Spec, ImplementsAccount, Account!Spec
=============================================================================
