---------------------------- MODULE StockAccount ----------------------------
(***************************************************************************)
(* What the inventory domain promises its callers: every request is        *)
(* answered once, a request answered "ok" took effect in one indivisible   *)
(* step on the stock rows, and every other answer is justified by the rows *)
(* at the instant it is given.  No transactions, locks or reads here; see  *)
(* Inventory for the handlers that implement this account.                 *)
(***************************************************************************)
EXTENDS Integers

CONSTANTS Workers,      \* concurrent requests the application serves
          Items,        \* product variants, each with at most one stock row
          Orders,
          Requests,     \* the requests a caller may send
          NoJob,        \* what an idle worker works on
          MaxInt,       \* largest value of an INTEGER column
          Settleable    \* statuses from which a settlement may take effect

VARIABLES stored, onHand, reserved, status, held, job, result

accountVars == <<stored, onHand, reserved, status, held, job, result>>

SettleOps == {"release", "confirm"}
Settled(op) == IF op = "confirm" THEN "confirmed" ELSE "released"

Init ==
  /\ stored = {}
  /\ onHand = [i \in Items |-> 0]
  /\ reserved = [i \in Items |-> 0]
  /\ status = [r \in Items \X Orders |-> "none"]
  /\ held = [r \in Items \X Orders |-> 0]
  /\ job = [w \in Workers |-> NoJob]
  /\ result = [w \in Workers |-> "none"]

Submit(w) ==
  /\ job[w] = NoJob
  /\ \E j \in Requests : job' = [job EXCEPT ![w] = j]
  /\ result' = [result EXCEPT ![w] = "none"]
  /\ UNCHANGED <<stored, onHand, reserved, status, held>>

Answer(w, answers) ==
  /\ job' = [job EXCEPT ![w] = NoJob]
  /\ \E a \in answers : result' = [result EXCEPT ![w] = a]

(***************************************************************************)
(* Requests that take effect.  The caller may still be told "error": the   *)
(* connection can fail after the commit, so an error is ambiguous.         *)
(***************************************************************************)
ServeCreate(w) ==
  LET i == job[w].item IN
  /\ job[w].op = "create"
  /\ i \notin stored
  /\ stored' = stored \cup {i}
  /\ onHand' = [onHand EXCEPT ![i] = job[w].amount]
  /\ UNCHANGED <<reserved, status, held>>

ServeAdjust(w) ==
  LET i == job[w].item IN
  /\ job[w].op = "adjust"
  /\ i \in stored
  /\ onHand[i] + job[w].amount \in 0..MaxInt
  /\ onHand' = [onHand EXCEPT ![i] = @ + job[w].amount]
  /\ UNCHANGED <<stored, reserved, status, held>>

ServeReserve(w) ==
  LET i == job[w].item
      r == <<job[w].item, job[w].order>> IN
  /\ job[w].op = "reserve"
  /\ i \in stored
  /\ status[r] = "none"
  /\ onHand[i] - reserved[i] >= job[w].amount
  /\ reserved' = [reserved EXCEPT ![i] = @ + job[w].amount]
  /\ status' = [status EXCEPT ![r] = "reserved"]
  /\ held' = [held EXCEPT ![r] = job[w].amount]
  /\ UNCHANGED <<stored, onHand>>

ServeSettle(w) ==
  LET i == job[w].item
      r == <<job[w].item, job[w].order>>
      shipped == IF job[w].op = "confirm" THEN held[r] ELSE 0 IN
  /\ job[w].op \in SettleOps
  /\ status[r] \in Settleable
  /\ reserved[i] >= held[r]
  /\ onHand[i] >= shipped
  /\ reserved' = [reserved EXCEPT ![i] = @ - held[r]]
  /\ onHand' = [onHand EXCEPT ![i] = @ - shipped]
  /\ status' = [status EXCEPT ![r] = Settled(job[w].op)]
  /\ UNCHANGED <<stored, held>>

Serve(w) ==
  /\ job[w] # NoJob
  /\ ServeCreate(w) \/ ServeAdjust(w) \/ ServeReserve(w) \/ ServeSettle(w)
  /\ Answer(w, {"ok", "error"})

(***************************************************************************)
(* Answers without an effect.  A not-found answer is the one the account   *)
(* cannot justify by the rows: see LockMiss in Inventory.                  *)
(***************************************************************************)
AlreadyDone(w) ==
  \/ /\ job[w].op = "reserve"
     /\ \E i \in Items : status[<<i, job[w].order>>] = "reserved"
  \/ /\ job[w].op \in SettleOps
     /\ status[<<job[w].item, job[w].order>>] = Settled(job[w].op)

Refusable(w) ==
  LET i == job[w].item
      r == <<job[w].item, job[w].order>> IN
  \/ job[w].op = "create"  /\ i \in stored
  \/ job[w].op = "adjust"  /\ onHand[i] + job[w].amount < 0
  \/ job[w].op = "reserve" /\ onHand[i] - reserved[i] < job[w].amount
  \/ /\ job[w].op \in SettleOps
     /\ status[r] \in {"released", "confirmed"} \ {Settled(job[w].op)}

Decline(w) ==
  /\ job[w] # NoJob
  /\ \/ AlreadyDone(w) /\ Answer(w, {"unchanged"})
     \/ Refusable(w) /\ Answer(w, {"refused"})
     \/ job[w].op # "create" /\ Answer(w, {"not_found"})
     \/ Answer(w, {"error"})
  /\ UNCHANGED <<stored, onHand, reserved, status, held>>

Next == \E w \in Workers : Submit(w) \/ Serve(w) \/ Decline(w)

Spec == Init /\ [][Next]_accountVars
=============================================================================
