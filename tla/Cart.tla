--------------------------------- MODULE Cart ---------------------------------
(***************************************************************************)
(* The cart domain: carts, their lines and the handlers of CartService, at *)
(* the granularity of their SQL statements.                                *)
(*                                                                         *)
(* As in Inventory, a worker is a thread that serves one request in one    *)
(* transaction at READ COMMITTED.  Nothing here is read FOR UPDATE: what a *)
(* request loads stays as loaded in the identity map of its session        *)
(* (seen), the row is locked when it is written, and what is written is    *)
(* computed from what was loaded.  A session token has at most one cart    *)
(* row for ever, soft-deleted or not, so a cart is named by its session.   *)
(***************************************************************************)
EXTENDS Integers, FiniteSetsExt

CONSTANTS Workers,      \* concurrent requests the application serves
          Carts,        \* session tokens, each with at most one cart row
          Variants,
          Customers,
          Quantities,   \* quantities a caller may send
          MaxInt,       \* largest value of an INTEGER column
          Crashes,      \* a process, a connection or a commit may fail
          NoCustomer,   \* the owner of an anonymous cart
          NoVariant,    \* the variant of a request that is about none
          NoCart,       \* the target of a claim that merges nothing
          NoJob,        \* what an idle worker works on
          Nobody        \* the owner of a free lock

ASSUME QuantityAssumption == Quantities \subseteq Nat \ {0}
ASSUME BoundAssumption == MaxInt \in Nat
ASSUME FlagAssumption == Crashes \in BOOLEAN
ASSUME NameAssumption == /\ NoCustomer \notin Customers
                         /\ NoVariant \notin Variants
                         /\ NoCart \notin Carts
                         /\ Nobody \notin Workers

VARIABLES
  state,     \* "none" (no row), "active" or "deleted" (deleted_at is set)
  owner,     \* customer_id of the cart row
  qty,       \* quantity of a line, 0 when it has no row
  lock,      \* the transaction with an uncommitted write of a row
  job,       \* the request a worker serves
  pc,        \* how far its handler got
  seen,      \* quantities of the line objects in its session
  gone,      \* loaded lines whose row another transaction has deleted since
  items,     \* cart.items as loaded, less what its loop has dealt with
  line,      \* the line it is about to write
  target,    \* the customer's cart a claim merges into
  said,      \* the cart events it published
  alone      \* nothing else committed since the request began

rowVars == <<state, owner, qty>>
localVars == <<seen, gone, items, line, target, said>>
vars == <<state, owner, qty, lock, job, pc, seen, gone, items, line, target,
          said, alone>>

Lines == Carts \X Variants
NoLine == <<NoCart, NoVariant>>

Job(ops, customers, variants, amounts) ==
  [op : ops, cart : Carts, customer : customers, variant : variants,
   amount : amounts]

(* The requests the schemas admit.  An item is named by the identifier of a
   line that was once in the cart; one that is not there any more, or was
   replaced by a new line, is not found. *)
Requests ==
  Job({"create"}, Customers \cup {NoCustomer}, {NoVariant}, {0})
    \cup Job({"claim"}, Customers, {NoVariant}, {0})
    \cup Job({"add", "update"}, {NoCustomer}, Variants, Quantities)
    \cup Job({"remove"}, {NoCustomer}, Variants, {0})
    \cup Job({"clear"}, {NoCustomer}, {NoVariant}, {0})

ASSUME JobAssumption == NoJob \notin Requests
ASSUME RowAssumption == Carts \cap Lines = {}

Nothing == [v \in Variants |-> 0]
NotSeen == [l \in Lines |-> 0]
CartOf(w) == job[w].cart
Items(c) == [v \in Variants |-> qty[<<c, v>>]]
Count(f) == Cardinality({v \in DOMAIN f : f[v] > 0})

-----------------------------------------------------------------------------
Init ==
  /\ state = [c \in Carts |-> "none"]
  /\ owner = [c \in Carts |-> NoCustomer]
  /\ qty = NotSeen
  /\ lock = [x \in Carts \cup Lines |-> Nobody]
  /\ job = [w \in Workers |-> NoJob]
  /\ pc = [w \in Workers |-> "idle"]
  /\ seen = [w \in Workers |-> NotSeen]
  /\ gone = [w \in Workers |-> {}]
  /\ items = [w \in Workers |-> Nothing]
  /\ line = [w \in Workers |-> NoLine]
  /\ target = [w \in Workers |-> NoCart]
  /\ said = [w \in Workers |-> {}]
  /\ alone = [w \in Workers |-> TRUE]

Start(w) ==
  /\ job[w] = NoJob
  /\ \E j \in Requests : job' = [job EXCEPT ![w] = j]
  /\ pc' = [pc EXCEPT ![w] = "start"]
  /\ UNCHANGED <<rowVars, lock, localVars, alone>>

At(w, label, ops) == pc[w] = label /\ job[w].op \in ops

Goto(w, label) ==
  /\ pc' = [pc EXCEPT ![w] = label]
  /\ UNCHANGED <<rowVars, job, alone>>

EndHolding(w) ==                                   \* mutant: no rollback
  /\ job' = [job EXCEPT ![w] = NoJob]
  /\ pc' = [pc EXCEPT ![w] = "idle"]
  /\ seen' = [seen EXCEPT ![w] = NotSeen]
  /\ items' = [items EXCEPT ![w] = Nothing]
  /\ line' = [line EXCEPT ![w] = NoLine]
  /\ target' = [target EXCEPT ![w] = NoCart]
  /\ said' = [said EXCEPT ![w] = {}]
  /\ UNCHANGED lock

(* The session closes, and with it its transaction and its objects. *)
End(w) ==
  /\ job' = [job EXCEPT ![w] = NoJob]
  /\ pc' = [pc EXCEPT ![w] = "idle"]
  /\ lock' = [x \in DOMAIN lock |-> IF lock[x] = w THEN Nobody ELSE lock[x]]
  /\ seen' = [seen EXCEPT ![w] = NotSeen]
  /\ items' = [items EXCEPT ![w] = Nothing]
  /\ line' = [line EXCEPT ![w] = NoLine]
  /\ target' = [target EXCEPT ![w] = NoCart]
  /\ said' = [said EXCEPT ![w] = {}]

(* A request that ends without an effect: an early return, a domain error or
   a failed statement. *)
Leave(w) ==
  /\ End(w)
  /\ gone' = [gone EXCEPT ![w] = {}]
  /\ alone' = [alone EXCEPT ![w] = TRUE]
  /\ UNCHANGED rowVars

Lock(w, x) == lock[x] = Nobody /\ lock' = [lock EXCEPT ![x] = w]

(* Events about a cart; count is the items_count of a CartUpdated.  The item
   event and the audit record that go with it are not kept apart. *)
Event(type, c, n) == [type |-> type, cart |-> c, count |-> n]
Updated(c, n) == Event("CartUpdated", c, n)
Say(w, messages) == said' = [said EXCEPT ![w] = @ \cup messages]

(* _require_active_cart, get_with_items: the cart and its lines are loaded.
   The two SELECTs are one step; the status column is never written, so
   every cart that is not deleted is active. *)
Load(w) ==
  /\ state[CartOf(w)] = "active"
  /\ seen' = [seen EXCEPT ![w] = [l \in Lines |->
                IF l[1] = CartOf(w) THEN qty[l] ELSE 0]]
  /\ items' = [items EXCEPT ![w] = Items(CartOf(w))]

NotFound(w) ==
  /\ At(w, "start", {"claim", "add", "update", "remove", "clear"})
  /\ state[CartOf(w)] # "active"
  /\ Leave(w)

-----------------------------------------------------------------------------
(* create_cart, get_or_create_by_session_id *)
Unclaimed(w) == job[w].customer # NoCustomer /\ owner[CartOf(w)] = NoCustomer
Created(w) == Event("CartCreated", CartOf(w), 0)

CreateFoundAnnouncing(w) ==                        \* mutant: announces a found cart
  /\ At(w, "start", {"create"})
  /\ state[CartOf(w)] = "active"
  /\ Say(w, {Created(w)})
  /\ Goto(w, IF Unclaimed(w) THEN "bind" ELSE "written")
  /\ UNCHANGED <<lock, seen, gone, items, line, target>>

CreateFound(w) ==
  /\ At(w, "start", {"create"})
  /\ state[CartOf(w)] = "active"
  /\ \/ Unclaimed(w) /\ Goto(w, "bind") /\ UNCHANGED <<lock, localVars>>
     \/ ~Unclaimed(w) /\ Leave(w)

CreateMissing(w) ==
  /\ At(w, "start", {"create"})
  /\ state[CartOf(w)] # "active"
  /\ Goto(w, "insert")
  /\ UNCHANGED <<lock, localVars>>

CreateInsert(w) ==
  /\ At(w, "insert", {"create"})
  /\ state[CartOf(w)] = "none"
  /\ Lock(w, CartOf(w))
  /\ Say(w, {Created(w)} \cup (IF job[w].customer = NoCustomer THEN {}
                               ELSE {Updated(CartOf(w), 0)}))
  /\ Goto(w, "written")
  /\ UNCHANGED <<seen, gone, items, line, target>>

(* The INSERT violates uq_cart_carts_session_id, which also counts deleted
   carts: the transaction is rolled back and the lookup repeated. *)
CreateConflict(w) ==
  /\ At(w, "insert", {"create"})
  /\ lock[CartOf(w)] = Nobody
  /\ state[CartOf(w)] # "none"
  /\ Goto(w, "again")
  /\ UNCHANGED <<lock, localVars>>

(* What the second lookup finds counts as created; a deleted cart is not
   found, and the handler fails on it. *)
CreateAgain(w) ==
  /\ At(w, "again", {"create"})
  /\ state[CartOf(w)] = "active"
  /\ Say(w, {Created(w)})
  /\ Goto(w, IF Unclaimed(w) THEN "bind" ELSE "written")
  /\ UNCHANGED <<lock, seen, gone, items, line, target>>

CreateLost(w) ==
  /\ At(w, "again", {"create"})
  /\ state[CartOf(w)] # "active"
  /\ Leave(w)

(* _claim_simple.  The UPDATE names the row by its id: it also binds a cart
   that was bound or deleted since it was loaded. *)
Bind(w) ==
  /\ At(w, "bind", {"create", "claim"})
  /\ Lock(w, CartOf(w))
  /\ LET loaded == IF job[w].op = "claim" THEN items[w] ELSE Items(CartOf(w)) IN
       Say(w, {Updated(CartOf(w), Count(loaded))})
  /\ Goto(w, "written")
  /\ UNCHANGED <<seen, gone, items, line, target>>

-----------------------------------------------------------------------------
(* claim_cart: get_cart of the route, get_by_session_id, which finds the same
   object, and the comparison with the customer that was loaded. *)
ClaimLoad(w) ==
  /\ At(w, "start", {"claim"})
  /\ owner[CartOf(w)] # job[w].customer
  /\ Load(w)
  /\ Goto(w, "claim")
  /\ UNCHANGED <<lock, gone, line, target, said>>

ClaimAgain(w) ==
  /\ At(w, "start", {"claim"})
  /\ state[CartOf(w)] = "active"
  /\ owner[CartOf(w)] = job[w].customer
  /\ Leave(w)

(* get_by_customer_id sees what is committed by now, also the cart itself. *)
CartsOf(u) == {c \in Carts : state[c] = "active" /\ owner[c] = u}

ClaimFindNone(w) ==                                \* mutant: never merges
  /\ At(w, "claim", {"claim"})
  /\ Goto(w, "bind")
  /\ UNCHANGED <<lock, localVars>>

ClaimFind(w) ==
  /\ At(w, "claim", {"claim"})
  /\ \/ /\ CartsOf(job[w].customer) = {}
        /\ Goto(w, "bind")
        /\ UNCHANGED target
     \/ \E c \in Carts :
          /\ CartsOf(job[w].customer) = {c}
          /\ target' = [target EXCEPT ![w] = c]
          /\ Goto(w, "merge")
  /\ UNCHANGED <<lock, seen, gone, items, line, said>>

(* find_one_by raises MultipleResultsFound. *)
ClaimMany(w) ==
  /\ At(w, "claim", {"claim"})
  /\ Cardinality(CartsOf(job[w].customer)) > 1
  /\ Leave(w)

-----------------------------------------------------------------------------
(* add_cart_item, _merge_item: get_by_cart_and_variant returns the object of
   the session as it was loaded, or loads the row, or finds none. *)
AddLoad(w) ==
  /\ At(w, "start", {"add"})
  /\ Load(w)
  /\ line' = [line EXCEPT ![w] = <<CartOf(w), job[w].variant>>]
  /\ Goto(w, "find")
  /\ UNCHANGED <<lock, gone, target, said>>

MergeNext(w) ==
  /\ At(w, "merge", {"claim"})
  /\ \E v \in Variants :
       /\ items[w][v] > 0
       /\ line' = [line EXCEPT ![w] = <<target[w], v>>]
  /\ Goto(w, "find")
  /\ UNCHANGED <<lock, seen, gone, items, target, said>>

Known(w, l) == seen[w][l] # 0 /\ l \notin gone[w]

Find(w) ==
  /\ pc[w] = "find"
  /\ seen' = [seen EXCEPT ![w][line[w]] =
                IF Known(w, line[w]) THEN @ ELSE qty[line[w]]]
  /\ gone' = IF qty[line[w]] > 0 /\ ~Known(w, line[w])
             THEN [gone EXCEPT ![w] = @ \ {line[w]}] ELSE gone
  /\ Goto(w, IF qty[line[w]] > 0 THEN "update" ELSE "append")
  /\ UNCHANGED <<lock, items, line, target, said>>

(* The catalog has no price, or the inventory not the quantity. *)
Unavailable(w) ==
  /\ \/ At(w, "start", {"add", "update"}) /\ state[CartOf(w)] = "active"
     \/ At(w, "update", {"claim"})
     \/ At(w, "append", {"claim"})
  /\ Leave(w)

(* update_cart_item, remove_cart_item, clear_cart *)
UpdateLoad(w) ==
  LET l == <<CartOf(w), job[w].variant>> IN
  /\ At(w, "start", {"update"})
  /\ qty[l] > 0
  /\ Load(w)
  /\ line' = [line EXCEPT ![w] = l]
  /\ Goto(w, "update")
  /\ UNCHANGED <<lock, gone, target, said>>

RemoveLoad(w) ==
  LET l == <<CartOf(w), job[w].variant>> IN
  /\ At(w, "start", {"remove"})
  /\ qty[l] > 0
  /\ Load(w)
  /\ line' = [line EXCEPT ![w] = l]
  /\ Goto(w, "delete")
  /\ UNCHANGED <<lock, gone, target, said>>

ItemNotFound(w) ==
  /\ At(w, "start", {"update", "remove"})
  /\ state[CartOf(w)] = "active"
  /\ Leave(w)

ClearLoad(w) ==
  /\ At(w, "start", {"clear"})
  /\ Load(w)
  /\ Goto(w, "clear")
  /\ UNCHANGED <<lock, gone, line, target, said>>

(* The lines are deleted in the order of their random identifiers, which is
   left open here. *)
ClearNext(w) ==
  /\ At(w, "clear", {"clear"})
  /\ \E v \in Variants :
       /\ items[w][v] > 0
       /\ line' = [line EXCEPT ![w] = <<CartOf(w), v>>]
  /\ Goto(w, "delete")
  /\ UNCHANGED <<lock, seen, gone, items, target, said>>

-----------------------------------------------------------------------------
(* The flush of one line.  A statement waits for the transaction that wrote
   the row before; then it overwrites what that one committed. *)
Amount(w) == IF job[w].op = "claim" THEN items[w][line[w][2]] ELSE job[w].amount

NewQuantityOverwriting(w) == Amount(w)             \* mutant: does not sum

NewQuantity(w) ==
  IF job[w].op = "update" THEN Amount(w) ELSE seen[w][line[w]] + Amount(w)

Looping(w) == job[w].op \in {"claim", "clear"}

(* The line is dealt with: the loop goes on, or the event is published.
   cart.items is not loaded again, so its length is that of before. *)
LineDone(w) ==
  \/ /\ Looping(w)
     /\ items' = [items EXCEPT ![w][line[w][2]] = 0]
     /\ Goto(w, IF job[w].op = "claim" THEN "merge" ELSE "clear")
     /\ UNCHANGED said
  \/ /\ ~Looping(w)
     /\ Say(w, {Updated(CartOf(w), Count(items[w]))})
     /\ Goto(w, "written")
     /\ UNCHANGED items

(* Whether the row a statement names by its id is still there. *)
MatchesAlways(w) == TRUE                           \* mutant: recreates the row
Matches(w) == line[w] \notin gone[w]

FitsAlways(w) == TRUE                              \* mutant: no width
Fits(w) == NewQuantity(w) <= MaxInt

(* An assignment that changes nothing is not flushed. *)
LineUpdate(w) ==
  /\ pc[w] = "update"
  /\ Fits(w)
  /\ \/ NewQuantity(w) = seen[w][line[w]] /\ UNCHANGED lock
     \/ /\ NewQuantity(w) # seen[w][line[w]]
        /\ Matches(w)
        /\ Lock(w, line[w])
  /\ seen' = [seen EXCEPT ![w][line[w]] = NewQuantity(w)]
  /\ LineDone(w)
  /\ UNCHANGED <<gone, line, target>>

(* The row is gone: StaleDataError. *)
LineStale(w) ==
  /\ pc[w] = "update"
  /\ NewQuantity(w) # seen[w][line[w]]
  /\ ~Matches(w)
  /\ Leave(w)

(* The new quantity does not fit its column. *)
LineOverflow(w) ==
  /\ pc[w] \in {"update", "append"}
  /\ ~Fits(w)
  /\ Leave(w)

(* Appending to customer_cart.items loads the lines not loaded before. *)
LineInsert(w) ==
  LET l == line[w] IN
  /\ pc[w] = "append"
  /\ Fits(w)
  /\ qty[l] = 0
  /\ Lock(w, l)
  /\ seen' = [seen EXCEPT ![w] = [k \in Lines |->
                IF k = l THEN NewQuantity(w)
                ELSE IF k[1] = target[w] /\ @[k] = 0 THEN qty[k]
                ELSE @[k]]]
  /\ LineDone(w)
  /\ UNCHANGED <<gone, line, target>>

(* uq_cart_items_cart_id_variant_id: another request added the line first. *)
LineConflict(w) ==
  /\ pc[w] = "append"
  /\ lock[line[w]] = Nobody
  /\ qty[line[w]] > 0
  /\ Leave(w)

(* Deleting a row that is gone matches nothing and is only warned about. *)
LineDelete(w) ==
  /\ pc[w] = "delete"
  /\ \/ ~Matches(w) /\ UNCHANGED lock
     \/ Matches(w) /\ Lock(w, line[w])
  /\ seen' = [seen EXCEPT ![w][line[w]] = 0]
  /\ LineDone(w)
  /\ UNCHANGED <<gone, line, target>>

FinishedAtOnce(w) == TRUE                          \* mutant: deletes before it merges
Finished(w) == \A v \in Variants : items[w][v] = 0

(* _merge_carts: the soft delete, after the loop over the items *)
MergeDone(w) ==
  LET lines == [v \in Variants |->
                  IF lock[<<target[w], v>>] = w THEN seen[w][<<target[w], v>>]
                  ELSE qty[<<target[w], v>>]] IN
  /\ At(w, "merge", {"claim"})
  /\ Finished(w)
  /\ Lock(w, CartOf(w))
  /\ Say(w, {Event("CartMerged", target[w], 0),
             Updated(target[w], Count(lines))})
  /\ Goto(w, "written")
  /\ UNCHANGED <<seen, gone, items, line, target>>

ClearDone(w) ==
  /\ At(w, "clear", {"clear"})
  /\ Finished(w)
  /\ Say(w, {Updated(CartOf(w), 0)})
  /\ Goto(w, "written")
  /\ UNCHANGED <<lock, seen, gone, items, line, target>>

-----------------------------------------------------------------------------
(* db.commit() of the route *)
Wrote(w, x) == lock[x] = w

Deleted(w) == {l \in Lines : Wrote(w, l) /\ seen[w][l] = 0}

InstallCartWhole(w) ==                             \* mutant: writes deleted_at back
  LET c == CartOf(w)
      merged == target[w] # NoCart IN
  IF ~Wrote(w, c) THEN UNCHANGED <<state, owner>>
  ELSE /\ state' = [state EXCEPT ![c] = IF merged THEN "deleted" ELSE "active"]
       /\ owner' = IF merged THEN owner
                   ELSE [owner EXCEPT ![c] = job[w].customer]

InstallCart(w) ==
  LET c == CartOf(w)
      merged == target[w] # NoCart IN
  IF ~Wrote(w, c) THEN UNCHANGED <<state, owner>>
  ELSE /\ state' = [state EXCEPT ![c] = IF merged THEN "deleted"
                                        ELSE IF @ = "none" THEN "active" ELSE @]
       /\ owner' = IF merged THEN owner
                   ELSE [owner EXCEPT ![c] = job[w].customer]

InstallLines(w) ==
  qty' = [l \in Lines |-> IF Wrote(w, l) THEN seen[w][l] ELSE qty[l]]

Commit(w) ==
  /\ pc[w] = "written"
  /\ InstallCart(w)
  /\ InstallLines(w)
  /\ End(w)
  /\ gone' = [v \in Workers |->
       IF v = w THEN {} ELSE gone[v] \cup {l \in Deleted(w) : seen[v][l] # 0}]
  /\ alone' = [v \in Workers |->
       \/ v = w
       \/ job[v] = NoJob
       \/ alone[v] /\ \A x \in DOMAIN lock : ~Wrote(w, x)]

(* The row a blocked statement waits for, and the deadlock detector of
   PostgreSQL: of the requests that wait for each other one fails. *)
Wanted(w) ==
  IF pc[w] \in {"insert", "bind"} \/ (pc[w] = "merge" /\ Finished(w))
  THEN {CartOf(w)}
  ELSE IF pc[w] \in {"update", "append", "delete"} THEN {line[w]} ELSE {}

DeadlockVictim(w) ==
  /\ \E S \in SUBSET Workers :
       /\ w \in S
       /\ \A v \in S : \E x \in Wanted(v) : lock[x] \in S \ {v}
  /\ Leave(w)

(* The commit, a statement or the process fails: rollback. *)
Abort(w) ==
  /\ Crashes
  /\ job[w] # NoJob
  /\ Leave(w)

-----------------------------------------------------------------------------
Create(w) == \/ CreateFound(w) \/ CreateMissing(w) \/ CreateInsert(w)
             \/ CreateConflict(w) \/ CreateAgain(w) \/ CreateLost(w)
Claim(w) == \/ ClaimLoad(w) \/ ClaimAgain(w) \/ ClaimFind(w) \/ ClaimMany(w)
            \/ Bind(w) \/ MergeNext(w) \/ MergeDone(w)
Edit(w) == \/ AddLoad(w) \/ UpdateLoad(w) \/ RemoveLoad(w) \/ ItemNotFound(w)
           \/ ClearLoad(w) \/ ClearNext(w) \/ ClearDone(w)
Write(w) == \/ Find(w) \/ Unavailable(w) \/ LineUpdate(w) \/ LineStale(w)
            \/ LineOverflow(w) \/ LineInsert(w) \/ LineConflict(w) \/ LineDelete(w)

Handle(w) == NotFound(w) \/ Create(w) \/ Claim(w) \/ Edit(w) \/ Write(w) \/ Commit(w)
             \/ DeadlockVictim(w)

Next == \E w \in Workers : Start(w) \/ Handle(w) \/ Abort(w)

Spec == Init /\ [][Next]_vars

(* The thread pool keeps running the requests it has accepted, and PostgreSQL
   queues the transactions that wait for a row: one that waits again and again
   has its turn, which takes strong fairness to say. *)
FairSpec == Spec /\ \A w \in Workers : SF_vars(Handle(w))

-----------------------------------------------------------------------------
TypeOK ==
  /\ state \in [Carts -> {"none", "active", "deleted"}]
  /\ owner \in [Carts -> Customers \cup {NoCustomer}]
  /\ qty \in [Lines -> 0..MaxInt]
  /\ lock \in [Carts \cup Lines -> Workers \cup {Nobody}]
  /\ job \in [Workers -> Requests \cup {NoJob}]
  /\ pc \in [Workers -> {"idle", "start", "insert", "again", "bind", "claim",
                         "merge", "find", "update", "append", "delete",
                         "clear", "written"}]
  /\ seen \in [Workers -> [Lines -> 0..MaxInt]]
  /\ gone \in [Workers -> SUBSET Lines]
  /\ items \in [Workers -> [Variants -> 0..MaxInt]]
  /\ line \in [Workers -> Lines \cup {NoLine}]
  /\ target \in [Workers -> Carts \cup {NoCart}]
  /\ alone \in [Workers -> BOOLEAN]

Committing(w) == Commit(w)
ActiveCarts == {c \in Carts : state[c] = "active"}
Units(v) == SumFunctionOnSet([c \in Carts |-> qty[<<c, v>>]], ActiveCarts)

(***************************************************************************)
(* A claim moves units and never makes or loses any: what the active carts *)
(* hold of a variant is the same before and after, as long as nothing else *)
(* committed while the claim was served.                                   *)
(***************************************************************************)
ClaimConservesUnits ==
  [][\A w \in Workers : \A v \in Variants :
       Committing(w) /\ alone[w] /\ job[w].op = "claim" => Units(v)' = Units(v)]_vars

(* After such a claim the customer has exactly one active cart. *)
ClaimLeavesOneCart ==
  [][\A w \in Workers, u \in Customers :
       /\ Committing(w) /\ alone[w]
       /\ job[w].op = "claim" /\ job[w].customer = u
       => Cardinality(CartsOf(u)') = 1]_vars

(***************************************************************************)
(* Whatever else commits meanwhile, a cart that is merged into another is  *)
(* soft-deleted only by the transaction that puts every unit it loaded     *)
(* from it into that other cart.                                           *)
(***************************************************************************)
DeletionCarriesUnits ==
  [][\A c \in Carts : state[c] = "active" /\ state'[c] = "deleted" =>
       \E w \in Workers :
         /\ Committing(w) /\ CartOf(w) = c
         /\ target[w] = c \/ \A v \in Variants :
              qty'[<<target[w], v>>] >= seen[w][<<c, v>>]]_vars

(* A session whose cart was merged away never gets another one. *)
DeletionIsFinal ==
  [][\A c \in Carts : state[c] = "deleted" => state'[c] = "deleted"]_vars

(***************************************************************************)
(* A line that was removed comes back only through a request that adds     *)
(* units: an update that waited behind the removal fails.                  *)
(***************************************************************************)
UpdateNeverRevives ==
  [][\A l \in Lines : qty[l] = 0 /\ qty'[l] > 0 =>
       \E w \in Workers : Committing(w) /\ job[w].op \in {"add", "claim"}]_vars

(* CartCreated is published by the request that makes the cart, as long as
   nothing else commits while it is served. *)
CreatedMeansNew ==
  [][\A w \in Workers :
       /\ Committing(w) /\ alone[w]
       /\ \E e \in said[w] : e.type = "CartCreated"
       => state[CartOf(w)] = "none" /\ state'[CartOf(w)] = "active"]_vars

(***************************************************************************)
(* The handlers implement the account: a request that nothing else was     *)
(* committed into is one operation on the committed carts, as if it had    *)
(* been served alone, and one that was disturbed writes only what requests *)
(* of its kind write.                                                      *)
(***************************************************************************)
Account == INSTANCE CartAccount

ImplementsAccount == Account!Spec

(* Every request is answered, also one that waits for another's row. *)
EveryRequestAnswered == \A w \in Workers : job[w] # NoJob ~> job[w] = NoJob
=============================================================================
