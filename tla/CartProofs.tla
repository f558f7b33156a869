------------------------------ MODULE CartProofs ------------------------------
(***************************************************************************)
(* Theorems about Cart, for any workers, carts, variants, customers and    *)
(* quantities, INTEGER columns of any width, and failures at any step: the *)
(* types, what a merge must have written before it deletes a cart, that it *)
(* makes and loses no units, that no deletion is undone, what CartCreated  *)
(* says, and that the handlers implement CartAccount.                      *)
(***************************************************************************)
EXTENDS Cart, SumLemmas, TLAPS

Indexed(f) == f = [w \in Workers |-> f[w]]

(* The steps of each handler. *)
InHandler(w) ==
  \/ job[w].op = "create" /\ pc[w] \in {"start", "insert", "again", "bind", "written"}
  \/ job[w].op = "claim" /\ pc[w] \in {"start", "claim", "bind", "merge", "find",
                                       "update", "append", "written"}
  \/ job[w].op = "add" /\ pc[w] \in {"start", "find", "update", "append", "written"}
  \/ job[w].op = "update" /\ pc[w] \in {"start", "update", "written"}
  \/ job[w].op = "remove" /\ pc[w] \in {"start", "delete", "written"}
  \/ job[w].op = "clear" /\ pc[w] \in {"start", "clear", "delete", "written"}

AtLine(w) == pc[w] \in {"find", "update", "append", "delete"}
InLoop(w) == job[w].op = "claim" /\ pc[w] \in {"merge", "find", "update", "append"}

(* The line a statement is about, and the cart a claim merges into. *)
Pointed(w) ==
  /\ AtLine(w) => line[w] \in Lines
  /\ AtLine(w) /\ InLoop(w) => line[w][1] = target[w] /\ items[w][line[w][2]] > 0
  /\ InLoop(w) => target[w] # NoCart
  /\ target[w] # NoCart => InLoop(w) \/ (job[w].op = "claim" /\ pc[w] = "written" /\ Finished(w))

(* Which lines a request may hold, and what it does to them. *)
Holding(w) ==
  \A l \in Lines : lock[l] = w =>
    /\ pc[w] # "start" /\ job[w].op # "create"
    /\ job[w].op = "update" => pc[w] = "written" /\ qty[l] > 0
    /\ job[w].op \in {"remove", "clear"} => seen[w][l] = 0

(* The row an update loaded is there, or it knows that it is gone. *)
Updating(w) ==
  job[w].op = "update" /\ pc[w] = "update" =>
    seen[w][line[w]] > 0 /\ (line[w] \in gone[w] \/ qty[line[w]] > 0)

(* Every line a merge is done with holds, uncommitted and locked, at least what
   was loaded from the cart it empties. *)
Carried(w) ==
  job[w].op = "claim" /\ pc[w] # "start" /\ target[w] # CartOf(w) =>
    \A v \in Variants :
      LET from == <<CartOf(w), v>>
          to == <<target[w], v>> IN
      \/ items[w][v] = seen[w][from]
      \/ items[w][v] = 0 /\ to \in Lines /\ lock[to] = w /\ seen[w][to] >= seen[w][from]

Announced(w) == \E e \in said[w] : e.type = "CartCreated"

(* As long as nothing else committed, a cart that was not found is not there,
   and one that is announced is new. *)
Creating(w) ==
  /\ pc[w] = "start" => ~Announced(w)
  /\ alone[w] =>
       /\ pc[w] = "insert" => state[CartOf(w)] # "active"
       /\ pc[w] = "again" => state[CartOf(w)] = "deleted"
       /\ Announced(w) => /\ lock[CartOf(w)] = w /\ state[CartOf(w)] = "none"
                          /\ pc[w] = "written" /\ target[w] = NoCart

(* As long as nothing else committed, a claim is of a cart of somebody else, and
   what it found of the customer's carts is still so. *)
Claiming(w) ==
  job[w].op = "claim" /\ pc[w] # "start" /\ alone[w] =>
    LET found == CartsOf(job[w].customer) IN
    /\ state[CartOf(w)] = "active" /\ owner[CartOf(w)] # job[w].customer
    /\ target[w] # NoCart => found = {target[w]}
    /\ target[w] = NoCart /\ pc[w] # "claim" => found = {}
    /\ pc[w] = "written" => lock[CartOf(w)] = w

Free(w) ==
  /\ pc[w] = "idle" /\ said[w] = {} /\ target[w] = NoCart
  /\ \A x \in Carts \cup Lines : lock[x] # w

Serving(w) ==
  /\ InHandler(w) /\ Pointed(w) /\ Holding(w) /\ Updating(w) /\ Carried(w)
  /\ Creating(w) /\ Claiming(w)

WorkerOK(w) == IF job[w] = NoJob THEN Free(w) ELSE Serving(w)

IInv == TypeOK /\ Indexed(said) /\ \A w \in Workers : WorkerOK(w)

-----------------------------------------------------------------------------
(* A step that commits nothing, seen by the workers that do not take it. *)
Same(u) ==
  /\ pc'[u] = pc[u] /\ job'[u] = job[u] /\ seen'[u] = seen[u] /\ gone'[u] = gone[u]
  /\ items'[u] = items[u] /\ line'[u] = line[u] /\ target'[u] = target[u]
  /\ said'[u] = said[u] /\ alone'[u] = alone[u]
  /\ \A x \in Carts \cup Lines : lock'[x] = u <=> lock[x] = u

LEMMA Frame ==
  ASSUME TypeOK, NEW u \in Workers, WorkerOK(u), Same(u), UNCHANGED rowVars
  PROVE  WorkerOK(u)'
<1>. USE DEF Same, rowVars
<1>1. job[u] = NoJob \/ CartOf(u) \in Carts
  BY DEF TypeOK, CartOf, Requests, Job
<1>2. CartOf(u)' = CartOf(u)
  BY DEF CartOf
<1>3. CASE job[u] = NoJob
  BY <1>3 DEF WorkerOK, Free
<1>4. CASE job[u] # NoJob
  <2>. USE <1>4
  <2>1. InHandler(u)' /\ Pointed(u)'
    BY DEF WorkerOK, Serving, InHandler, Pointed, AtLine, InLoop, Finished
  <2>2. Holding(u)' /\ Updating(u)'
    BY DEF WorkerOK, Serving, Holding, Updating
  <2>3. Carried(u)'
    BY <1>2 DEF WorkerOK, Serving, Carried
  <2>4. Creating(u)'
    BY <1>1, <1>2 DEF WorkerOK, Serving, Creating, Announced
  <2>5. Claiming(u)'
    BY <1>1, <1>2 DEF WorkerOK, Serving, Claiming, CartsOf
  <2>. QED  BY <2>1, <2>2, <2>3, <2>4, <2>5 DEF WorkerOK, Serving
<1>. QED  BY <1>3, <1>4

(* What a handler's step changes: its own state, and at most one free row. *)
Local(w) ==
  /\ pc' = [pc EXCEPT ![w] = pc'[w]]
  /\ seen' = [seen EXCEPT ![w] = seen'[w]]
  /\ gone' = [gone EXCEPT ![w] = gone'[w]]
  /\ items' = [items EXCEPT ![w] = items'[w]]
  /\ line' = [line EXCEPT ![w] = line'[w]]
  /\ target' = [target EXCEPT ![w] = target'[w]]
  /\ said' = [said EXCEPT ![w] = said'[w]]
  /\ UNCHANGED <<rowVars, job, alone>>
  /\ lock' = lock \/ \E x \in Carts \cup Lines : Lock(w, x)

Typed(w) ==
  /\ seen[w] \in [Lines -> 0..MaxInt]
  /\ gone[w] \in SUBSET Lines
  /\ items[w] \in [Variants -> 0..MaxInt]
  /\ line[w] \in Lines \cup {NoLine}
  /\ target[w] \in Carts \cup {NoCart}

LEMMA LocalSame ==
  ASSUME IInv, NEW w \in Workers, Local(w), NEW u \in Workers \ {w}
  PROVE  Same(u)
<1>1. \A x \in Carts \cup Lines : lock'[x] = u <=> lock[x] = u
  BY NameAssumption DEF IInv, TypeOK, Local, Lock
<1>2. said'[u] = said[u]
  BY DEF IInv, Indexed, Local
<1>. QED  BY <1>1, <1>2 DEF IInv, TypeOK, Local, Same

LEMMA LocalIInv ==
  ASSUME IInv, NEW w \in Workers, job[w] # NoJob, Local(w), Typed(w)', Serving(w)'
  PROVE  IInv'
<1>1. job'[w] # NoJob /\ WorkerOK(w)'
  BY DEF Local, WorkerOK
<1>2. pc'[w] \in {"start", "insert", "again", "bind", "claim", "merge", "find",
                  "update", "append", "delete", "clear", "written"}
  BY DEF Serving, InHandler
<1>3. TypeOK'
  <2>1. lock' \in [Carts \cup Lines -> Workers \cup {Nobody}]
    <3>1. lock \in [Carts \cup Lines -> Workers \cup {Nobody}]
      BY DEF IInv, TypeOK
    <3>2. lock' = lock \/ \E x \in Carts \cup Lines : lock' = [lock EXCEPT ![x] = w]
      BY DEF Local, Lock
    <3>. QED  BY <3>1, <3>2
  <2>2. pc' \in [Workers -> {"idle", "start", "insert", "again", "bind", "claim",
                             "merge", "find", "update", "append", "delete",
                             "clear", "written"}]
    BY <1>2 DEF IInv, TypeOK, Local
  <2>3. /\ seen' \in [Workers -> [Lines -> 0..MaxInt]]
        /\ gone' \in [Workers -> SUBSET Lines]
    BY DEF IInv, TypeOK, Local, Typed
  <2>4. /\ items' \in [Workers -> [Variants -> 0..MaxInt]]
        /\ line' \in [Workers -> Lines \cup {NoLine}]
        /\ target' \in [Workers -> Carts \cup {NoCart}]
    BY DEF IInv, TypeOK, Local, Typed
  <2>. QED  BY <2>1, <2>2, <2>3, <2>4 DEF IInv, TypeOK, Local, rowVars
<1>4. Indexed(said)'
  BY DEF IInv, Indexed, Local
<1>5. ASSUME NEW u \in Workers \ {w} PROVE WorkerOK(u)'
  BY LocalSame, Frame DEF IInv, Local
<1>. QED  BY <1>1, <1>3, <1>4, <1>5 DEF IInv

(* A request that ends without an effect: its rows are free again. *)
LEMMA LeaveIInv ==
  ASSUME IInv, NEW w \in Workers, Leave(w)
  PROVE  IInv'
<1>. USE DEF Leave, End
<1>1. TypeOK'
  <2>1. lock' \in [Carts \cup Lines -> Workers \cup {Nobody}]
    BY DEF IInv, TypeOK
  <2>2. /\ job' \in [Workers -> Requests \cup {NoJob}]
        /\ gone' \in [Workers -> SUBSET Lines]
        /\ alone' \in [Workers -> BOOLEAN]
    BY DEF IInv, TypeOK
  <2>3. /\ pc' \in [Workers -> {"idle", "start", "insert", "again", "bind", "claim",
                             "merge", "find", "update", "append", "delete",
                             "clear", "written"}]
    BY DEF IInv, TypeOK
  <2>4. /\ seen' \in [Workers -> [Lines -> 0..MaxInt]]
        /\ items' \in [Workers -> [Variants -> 0..MaxInt]]
    BY BoundAssumption DEF IInv, TypeOK, NotSeen, Nothing
  <2>5. /\ line' \in [Workers -> Lines \cup {NoLine}]
        /\ target' \in [Workers -> Carts \cup {NoCart}]
    BY DEF IInv, TypeOK
  <2>. QED  BY <2>1, <2>2, <2>3, <2>4, <2>5 DEF IInv, TypeOK, rowVars
<1>2. Indexed(said)'
  BY DEF IInv, Indexed
<1>3. WorkerOK(w)'
  <2>1. \A x \in Carts \cup Lines : lock'[x] # w
    BY NameAssumption DEF IInv, TypeOK
  <2>2. job'[w] = NoJob /\ pc'[w] = "idle" /\ target'[w] = NoCart /\ said'[w] = {}
    BY DEF IInv, TypeOK, Indexed
  <2>. QED  BY <2>1, <2>2 DEF WorkerOK, Free
<1>4. ASSUME NEW u \in Workers \ {w} PROVE WorkerOK(u)'
  <2>1. \A x \in Carts \cup Lines : lock'[x] = u <=> lock[x] = u
    BY NameAssumption DEF IInv, TypeOK
  <2>2. said'[u] = said[u]
    BY DEF IInv, Indexed
  <2>3. Same(u)
    BY <2>1, <2>2 DEF IInv, TypeOK, Same
  <2>. QED  BY <2>3, Frame DEF IInv
<1>. QED  BY <1>1, <1>2, <1>3, <1>4 DEF IInv

LEMMA InitIInv == Init => IInv
<1>. SUFFICES ASSUME Init PROVE IInv
  OBVIOUS
<1>1. TypeOK
  BY BoundAssumption DEF Init, TypeOK, NotSeen, Nothing
<1>2. Indexed(said)
  BY DEF Init, Indexed
<1>3. ASSUME NEW w \in Workers PROVE WorkerOK(w)
  BY NameAssumption DEF Init, WorkerOK, Free
<1>. QED  BY <1>1, <1>2, <1>3 DEF IInv

(* What the schemas say of a request. *)
LEMMA JobTypes ==
  ASSUME TypeOK, NEW w \in Workers, job[w] # NoJob
  PROVE  /\ CartOf(w) \in Carts
         /\ job[w].customer \in Customers \cup {NoCustomer}
         /\ job[w].op \in {"add", "update", "remove"} => job[w].variant \in Variants
         /\ job[w].op \in {"add", "update"} => job[w].amount \in Nat \ {0}
BY QuantityAssumption DEF TypeOK, CartOf, Requests, Job

-----------------------------------------------------------------------------
LEMMA StartIInv ==
  ASSUME IInv, NEW w \in Workers, Start(w)
  PROVE  IInv'
<1>. USE DEF Start, localVars
<1>1. TypeOK'
  BY DEF IInv, TypeOK, rowVars
<1>2. job'[w] # NoJob /\ pc'[w] = "start" /\ UNCHANGED <<rowVars, lock, said, target, alone>>
  BY JobAssumption DEF IInv, TypeOK
<1>3. Free(w)
  BY DEF IInv, WorkerOK
<1>4. job'[w].op \in {"create", "claim", "add", "update", "remove", "clear"}
  BY <1>1, <1>2 DEF TypeOK, Requests, Job
<1>5. Serving(w)'
  <2>1. InHandler(w)'
    BY <1>2, <1>4 DEF InHandler
  <2>2. Pointed(w)' /\ Holding(w)' /\ Updating(w)' /\ Carried(w)' /\ Claiming(w)'
    BY <1>2, <1>3 DEF Free, Pointed, AtLine, InLoop, Holding, Updating, Carried, Claiming
  <2>3. Creating(w)'
    BY <1>2, <1>3 DEF Free, Creating, Announced
  <2>. QED  BY <2>1, <2>2, <2>3 DEF Serving
<1>6. ASSUME NEW u \in Workers \ {w} PROVE WorkerOK(u)'
  BY Frame DEF IInv, TypeOK, Same, rowVars
<1>. QED  BY <1>1, <1>2, <1>5, <1>6 DEF IInv, Indexed, WorkerOK

(* A step of create_cart, and the UPDATE that binds a cart to its customer. *)
LEMMA CreateIInv ==
  ASSUME IInv, NEW w \in Workers,
         \/ CreateFound(w) \/ CreateMissing(w) \/ CreateInsert(w)
         \/ CreateConflict(w) \/ CreateAgain(w) \/ Bind(w),
         ~Leave(w)
  PROVE  Local(w) /\ IInv'
<1>. USE DEF CreateFound, CreateMissing, CreateInsert, CreateConflict, CreateAgain,
             Bind, At, Goto, Say
<1>1. /\ pc[w] \in {"start", "insert", "again", "bind"}
      /\ job[w].op \in {"create", "claim"}
      /\ job[w].op = "claim" => pc[w] = "bind"
      /\ UNCHANGED <<rowVars, job, alone, seen, gone, items, line, target>>
  BY DEF localVars
<1>2. job[w] # NoJob /\ Serving(w)
  BY <1>1 DEF IInv, WorkerOK, Free
<1>3. CartOf(w) \in Carts /\ CartOf(w) \notin Lines /\ CartOf(w)' = CartOf(w)
  BY <1>1, <1>2, JobTypes, RowAssumption DEF IInv, CartOf
<1>4. /\ pc' = [pc EXCEPT ![w] = pc'[w]]
      /\ pc'[w] \in {"insert", "again", "bind", "written"}
      /\ pc[w] = "bind" => pc'[w] = "written"
  BY DEF IInv, TypeOK
<1>5. lock' = lock \/ Lock(w, CartOf(w))
  BY DEF localVars
<1>6. said' = [said EXCEPT ![w] = said'[w]]
  BY DEF IInv, Indexed, localVars
<1>7. Local(w) /\ Typed(w)'
  BY <1>1, <1>3, <1>4, <1>5, <1>6 DEF IInv, TypeOK, Local, Typed
<1>8. \A l \in Lines : lock'[l] = lock[l]
  BY <1>3, <1>5 DEF Lock, IInv, TypeOK
<1>9. InHandler(w)' /\ Pointed(w)'
  BY <1>1, <1>2, <1>4 DEF Serving, InHandler, Pointed, AtLine, InLoop
<1>10. Holding(w)' /\ Updating(w)' /\ Carried(w)'
  BY <1>1, <1>2, <1>3, <1>4, <1>8, <1>9 DEF Serving, Holding, Updating, Carried, rowVars
<1>11. Creating(w)'
  <2>. SUFFICES ASSUME alone[w]
                PROVE  /\ pc'[w] = "insert" => state[CartOf(w)] # "active"
                       /\ pc'[w] = "again" => state[CartOf(w)] = "deleted"
                       /\ Announced(w)' => /\ lock'[CartOf(w)] = w /\ state[CartOf(w)] = "none"
                                           /\ pc'[w] = "written" /\ target[w] = NoCart
    BY <1>1, <1>3, <1>4 DEF Creating, rowVars
  <2>1. ~Announced(w) /\ target[w] = NoCart /\ state[CartOf(w)] \in {"none", "active", "deleted"}
    BY <1>1, <1>2, <1>3 DEF Serving, Creating, Pointed, InLoop, IInv, TypeOK
  <2>2. CASE CreateInsert(w)
    BY <2>1, <2>2, <1>3 DEF IInv, TypeOK, Lock
  <2>3. CASE Bind(w)
    <3>1. ~Announced(w)'
      BY <2>1, <2>3 DEF Announced, IInv, Indexed, Updated, Event
    <3>. QED  BY <3>1, <2>3 DEF IInv, TypeOK
  <2>4. CASE CreateFound(w) \/ CreateMissing(w) \/ CreateConflict(w)
    <3>1. ~Announced(w)'
      BY <2>1, <2>4 DEF Announced, localVars
    <3>2. /\ pc'[w] = "insert" => state[CartOf(w)] # "active"
          /\ pc'[w] = "again" => state[CartOf(w)] = "deleted"
      BY <1>2, <2>1, <2>4 DEF IInv, TypeOK, Serving, Creating
    <3>. QED  BY <3>1, <3>2
  <2>5. CASE CreateAgain(w)
    BY <1>2, <2>5 DEF Serving, Creating
  <2>. QED  BY <2>2, <2>3, <2>4, <2>5
<1>12. Claiming(w)'
  <2>. SUFFICES ASSUME job[w].op = "claim" PROVE Claiming(w)'
    BY <1>1 DEF Claiming
  <2>1. CASE Bind(w)
    <3>1. lock'[CartOf(w)] = w /\ pc'[w] = "written" /\ pc[w] = "bind"
      BY <1>3, <2>1 DEF Lock, IInv, TypeOK
    <3>2. target[w] = NoCart
      BY <1>2, <3>1 DEF Serving, Pointed, InLoop
    <3>. QED
      BY <1>1, <1>2, <1>3, <3>1, <3>2 DEF Serving, Claiming, CartsOf, rowVars
  <2>. QED  BY <2>1
<1>. QED  BY <1>2, <1>7, <1>9, <1>10, <1>11, <1>12, LocalIInv DEF Serving

(* The first step of the other handlers: the cart is loaded. *)
LEMMA LoadIInv ==
  ASSUME IInv, NEW w \in Workers,
         ClaimLoad(w) \/ AddLoad(w) \/ UpdateLoad(w) \/ RemoveLoad(w) \/ ClearLoad(w)
  PROVE  Local(w) /\ IInv'
<1>. USE DEF ClaimLoad, AddLoad, UpdateLoad, RemoveLoad, ClearLoad, At, Goto
<1>1. /\ pc[w] = "start" /\ job[w].op \in {"claim", "add", "update", "remove", "clear"}
      /\ UNCHANGED <<rowVars, job, alone, lock, gone, target, said>>
  OBVIOUS
<1>2. job[w] # NoJob /\ Serving(w) /\ TypeOK
  BY <1>1 DEF IInv, WorkerOK, Free
<1>3. CartOf(w) \in Carts /\ CartOf(w)' = CartOf(w)
  BY <1>1, <1>2, JobTypes DEF CartOf
<1>4. /\ Load(w)
      /\ seen' = [seen EXCEPT ![w] = [l \in Lines |-> IF l[1] = CartOf(w) THEN qty[l] ELSE 0]]
      /\ items' = [items EXCEPT ![w] = [v \in Variants |-> qty[<<CartOf(w), v>>]]]
  BY DEF Load, Items
<1>5. /\ seen'[w] = [l \in Lines |-> IF l[1] = CartOf(w) THEN qty[l] ELSE 0]
      /\ items'[w] = [v \in Variants |-> qty[<<CartOf(w), v>>]]
  BY <1>2, <1>4 DEF TypeOK
<1>6. \A v \in Variants : /\ <<CartOf(w), v>> \in Lines
                          /\ items'[w][v] = seen'[w][<<CartOf(w), v>>]
  BY <1>3, <1>5 DEF Lines
<1>7. /\ pc' = [pc EXCEPT ![w] = pc'[w]]
      /\ pc'[w] = CASE job[w].op = "claim" -> "claim"
                    [] job[w].op = "add" -> "find"
                    [] job[w].op = "update" -> "update"
                    [] job[w].op = "remove" -> "delete"
                    [] job[w].op = "clear" -> "clear"
  BY <1>2 DEF TypeOK
<1>8. /\ line' = [line EXCEPT ![w] = line'[w]]
      /\ line'[w] = IF job[w].op \in {"add", "update", "remove"}
                    THEN <<CartOf(w), job[w].variant>> ELSE line[w]
  BY <1>2 DEF TypeOK
<1>9. job[w].op \in {"add", "update", "remove"} => line'[w] \in Lines /\ line'[w][1] = CartOf(w)
  BY <1>2, <1>3, <1>8, JobTypes DEF Lines
<1>10. Local(w)
  <2>1. /\ gone' = [gone EXCEPT ![w] = gone'[w]] /\ target' = [target EXCEPT ![w] = target'[w]]
    BY <1>1, <1>2 DEF TypeOK
  <2>2. said' = [said EXCEPT ![w] = said'[w]]
    BY <1>1 DEF IInv, Indexed
  <2>. QED  BY <1>1, <1>4, <1>5, <1>7, <1>8, <2>1, <2>2 DEF Local
<1>11. Typed(w)'
  <2>. HIDE DEF ClaimLoad, AddLoad, UpdateLoad, RemoveLoad, ClearLoad
  <2>1. qty \in [Lines -> 0..MaxInt] /\ 0 \in 0..MaxInt
    BY <1>2, BoundAssumption DEF TypeOK
  <2>2. seen'[w] \in [Lines -> 0..MaxInt]
    BY <1>5, <2>1
  <2>3. items'[w] \in [Variants -> 0..MaxInt]
    BY <1>5, <1>6, <2>1
  <2>. QED  BY <1>1, <1>2, <1>8, <1>9, <2>2, <2>3 DEF Typed, TypeOK
<1>12. InHandler(w)'
  BY <1>1, <1>7 DEF InHandler
<1>13. Pointed(w)'
  BY <1>1, <1>2, <1>7, <1>9 DEF Serving, Pointed, AtLine, InLoop
<1>14. Holding(w)' /\ Carried(w)' /\ Creating(w)'
  <2>1. \A l \in Lines : lock[l] # w
    BY <1>1, <1>2, NameAssumption DEF Serving, Holding
  <2>. QED
    BY <1>1, <1>2, <1>3, <1>6, <1>7, <2>1
       DEF Serving, Holding, Carried, Creating, Announced
<1>15. Updating(w)'
  <2>. SUFFICES ASSUME job[w].op = "update"
                PROVE  seen'[w][line'[w]] > 0 /\ qty[line'[w]] > 0
    BY <1>1 DEF Updating, rowVars
  <2>1. line'[w] = <<CartOf(w), job[w].variant>> /\ qty[line'[w]] > 0
    BY <1>1, <1>8
  <2>2. seen'[w][line'[w]] = qty[line'[w]]
    BY <1>5, <1>9
  <2>. QED  BY <2>1, <2>2
<1>16. Claiming(w)'
  <2>. SUFFICES ASSUME job[w].op = "claim" PROVE Claiming(w)'
    BY <1>1 DEF Claiming
  <2>1. owner[CartOf(w)] # job[w].customer /\ state[CartOf(w)] = "active"
    BY <1>1, <1>4 DEF Load
  <2>2. target[w] = NoCart /\ pc'[w] = "claim"
    BY <1>1, <1>2, <1>7 DEF Serving, Pointed, InLoop
  <2>. QED  BY <1>1, <1>3, <2>1, <2>2 DEF Claiming, rowVars
<1>. QED  BY <1>2, <1>10, <1>11, <1>12, <1>13, <1>14, <1>15, <1>16, LocalIInv DEF Serving

(* The steps of the loops and of _merge_item that write no line. *)
LEMMA LoopIInv ==
  ASSUME IInv, NEW w \in Workers,
         ClaimFind(w) \/ MergeNext(w) \/ ClearNext(w) \/ ClearDone(w) \/ MergeDone(w)
  PROVE  Local(w) /\ IInv'
<1>. USE DEF ClaimFind, MergeNext, ClearNext, ClearDone, MergeDone, At, Goto
<1>1. /\ pc[w] \in {"claim", "merge", "clear"} /\ job[w].op \in {"claim", "clear"}
      /\ UNCHANGED <<rowVars, job, alone, seen, gone, items>>
  OBVIOUS
<1>2. job[w] # NoJob /\ Serving(w) /\ TypeOK
  BY <1>1 DEF IInv, WorkerOK, Free
<1>3. CartOf(w) \in Carts /\ CartOf(w) \notin Lines /\ CartOf(w)' = CartOf(w)
  BY <1>1, <1>2, JobTypes, RowAssumption DEF CartOf
<1>4. /\ pc' = [pc EXCEPT ![w] = pc'[w]]
      /\ pc'[w] \in {"bind", "merge", "find", "delete", "written"}
      /\ pc'[w] = "bind" => pc[w] = "claim"
      /\ pc'[w] = "merge" => pc[w] = "claim"
      /\ pc'[w] = "find" => pc[w] = "merge"
      /\ pc'[w] = "delete" => pc[w] = "clear"
      /\ pc'[w] = "written" => pc[w] \in {"merge", "clear"} /\ Finished(w)
      /\ pc[w] = "claim" => pc'[w] \in {"bind", "merge"}
      /\ pc[w] = "merge" \/ pc[w] = "claim" <=> job[w].op = "claim"
  BY <1>2 DEF TypeOK, Serving, InHandler
<1>5. /\ line' = [line EXCEPT ![w] = line'[w]]
      /\ pc'[w] = "find" => \E v \in Variants : line'[w] = <<target[w], v>> /\ items[w][v] > 0
      /\ pc'[w] = "delete" => \E v \in Variants : line'[w] = <<CartOf(w), v>>
      /\ pc'[w] \notin {"find", "delete"} => line'[w] = line[w]
  BY <1>2 DEF TypeOK
<1>6. /\ target' = [target EXCEPT ![w] = target'[w]]
      /\ target'[w] \in Carts \cup {NoCart}
      /\ pc[w] # "claim" => target'[w] = target[w]
      /\ pc[w] = "claim" => (target'[w] # NoCart <=> pc'[w] = "merge")
  <2>1. pc[w] = "claim" => target[w] = NoCart
    BY <1>2 DEF Serving, Pointed, InLoop
  <2>. QED  BY <1>2, <2>1, NameAssumption DEF TypeOK
<1>7. lock' = lock \/ Lock(w, CartOf(w))
  OBVIOUS
<1>8. \A l \in Lines : lock'[l] = lock[l]
  BY <1>2, <1>3, <1>7 DEF Lock, TypeOK
<1>9. /\ said' = [said EXCEPT ![w] = said'[w]]
      /\ \A e \in said'[w] : e \in said[w] \/ e.type \in {"CartMerged", "CartUpdated"}
  <2>1. Indexed(said)
    BY DEF IInv
  <2>2. CASE UNCHANGED said
    BY <2>1, <2>2 DEF Indexed
  <2>3. CASE ClearDone(w)
    <3>1. said' = [said EXCEPT ![w] = @ \cup {Updated(CartOf(w), 0)}]
      BY <2>3 DEF Say
    <3>2. said'[w] = said[w] \cup {Updated(CartOf(w), 0)}
      BY <2>1, <3>1 DEF Indexed
    <3>. QED  BY <2>1, <3>1, <3>2 DEF Indexed, Updated, Event
  <2>4. CASE MergeDone(w)
    <3>1. PICK n : said' = [said EXCEPT ![w] = @ \cup
                             {Event("CartMerged", target[w], 0), Updated(target[w], n)}]
      BY <2>4 DEF Say
    <3>2. said'[w] = said[w] \cup {Event("CartMerged", target[w], 0), Updated(target[w], n)}
      BY <2>1, <3>1 DEF Indexed
    <3>. QED  BY <2>1, <3>1, <3>2 DEF Indexed, Updated, Event
  <2>. QED  BY <2>2, <2>3, <2>4
<1>. HIDE DEF ClaimFind, MergeNext, ClearNext, ClearDone, MergeDone
<1>10. pc'[w] = "find" => line'[w] \in Lines /\ line'[w][1] = target[w] /\ items[w][line'[w][2]] > 0
  <2>. SUFFICES ASSUME pc'[w] = "find"
                PROVE  line'[w] \in Lines /\ line'[w][1] = target[w] /\ items[w][line'[w][2]] > 0
    OBVIOUS
  <2>1. pc[w] = "merge" /\ job[w].op = "claim"
    BY <1>4
  <2>2. target[w] \in Carts
    BY <1>2, <2>1 DEF TypeOK, Serving, Pointed, InLoop
  <2>3. PICK v \in Variants : line'[w] = <<target[w], v>> /\ items[w][v] > 0
    BY <1>5
  <2>. QED  BY <2>2, <2>3 DEF Lines
<1>11. pc'[w] = "delete" => line'[w] \in Lines
  BY <1>3, <1>5 DEF Lines
<1>12. Local(w)
  <2>1. gone' = [gone EXCEPT ![w] = gone'[w]] /\ seen' = [seen EXCEPT ![w] = seen'[w]]
        /\ items' = [items EXCEPT ![w] = items'[w]]
    BY <1>1, <1>2 DEF TypeOK
  <2>. QED  BY <1>1, <1>3, <1>4, <1>5, <1>6, <1>7, <1>9, <2>1 DEF Local
<1>13. Typed(w)'
  <2>1. line'[w] \in Lines \cup {NoLine}
    BY <1>2, <1>5, <1>10, <1>11 DEF TypeOK
  <2>. QED  BY <1>1, <1>2, <1>6, <2>1 DEF Typed, TypeOK
<1>14. InHandler(w)'
  BY <1>1, <1>2, <1>4 DEF Serving, InHandler
<1>15. Pointed(w)'
  <2>1. AtLine(w)' => pc'[w] \in {"find", "delete"}
    BY <1>4 DEF AtLine
  <2>2. InLoop(w)' <=> job[w].op = "claim" /\ pc'[w] \in {"merge", "find"}
    BY <1>1, <1>4 DEF InLoop
  <2>3. (InLoop(w)' => target'[w] # NoCart)
    BY <1>2, <1>4, <1>6, <2>2 DEF Serving, Pointed, InLoop
  <2>4. target'[w] # NoCart => \/ InLoop(w)'
                               \/ job[w].op = "claim" /\ pc'[w] = "written" /\ Finished(w)
    BY <1>1, <1>2, <1>4, <1>6, <2>2 DEF Serving, Pointed, InLoop
  <2>5. Finished(w)' <=> Finished(w)
    BY <1>1 DEF Finished
  <2>6. AtLine(w)' => line'[w] \in Lines
    BY <1>10, <1>11, <2>1
  <2>7. AtLine(w)' /\ InLoop(w)' => line'[w][1] = target'[w] /\ items'[w][line'[w][2]] > 0
    BY <1>1, <1>4, <1>6, <1>10, <2>1, <2>2
  <2>. QED  BY <1>1, <2>3, <2>4, <2>5, <2>6, <2>7 DEF Pointed
<1>16. Holding(w)' /\ Updating(w)'
  BY <1>1, <1>2, <1>4, <1>8 DEF Serving, Holding, Updating
<1>17. Carried(w)'
  <2>. SUFFICES ASSUME job[w].op = "claim", target'[w] # CartOf(w), NEW v \in Variants,
                       items[w][v] # seen[w][<<CartOf(w), v>>]
                PROVE  /\ items[w][v] = 0 /\ <<target'[w], v>> \in Lines
                       /\ lock'[<<target'[w], v>>] = w
                       /\ seen[w][<<target'[w], v>>] >= seen[w][<<CartOf(w), v>>]
    BY <1>1, <1>3 DEF Carried
  <2>1. CASE pc[w] = "claim"
    <3>1. target[w] = NoCart
      BY <1>2, <2>1 DEF Serving, Pointed, InLoop
    <3>2. <<target[w], v>> \notin Lines
      BY <3>1, NameAssumption DEF Lines
    <3>. QED  BY <1>2, <1>3, <2>1, <3>1, <3>2, NameAssumption DEF Serving, Carried
  <2>2. CASE pc[w] # "claim"
    BY <1>1, <1>2, <1>6, <1>8, <2>2 DEF Serving, Carried
  <2>. QED  BY <2>1, <2>2
<1>18. Creating(w)'
  <2>1. alone[w] => ~Announced(w)'
    BY <1>1, <1>2, <1>9 DEF Serving, Creating, Announced
  <2>. QED  BY <1>1, <1>4, <2>1 DEF Creating
<1>19. Claiming(w)'
  <2>. SUFFICES ASSUME job[w].op = "claim", alone[w] PROVE Claiming(w)'
    BY <1>1 DEF Claiming
  <2>. DEFINE found == CartsOf(job[w].customer)
  <2>1. /\ state[CartOf(w)] = "active" /\ owner[CartOf(w)] # job[w].customer
        /\ found' = found /\ pc[w] \in {"claim", "merge"}
    BY <1>1, <1>2, <1>4 DEF Serving, Claiming, CartsOf, rowVars
  <2>2. CASE pc[w] = "claim"
    <3>1. ClaimFind(w)
      BY <2>2 DEF MergeNext, ClearNext, ClearDone, MergeDone
    <3>2. \/ found = {} /\ pc'[w] = "bind" /\ target'[w] = NoCart
          \/ found = {target'[w]} /\ pc'[w] = "merge" /\ target'[w] # NoCart
      <4>1. target[w] = NoCart
        BY <1>2, <2>2 DEF Serving, Pointed, InLoop
      <4>. QED  BY <1>2, <3>1, <4>1, NameAssumption DEF ClaimFind, TypeOK
    <3>. QED  BY <1>1, <1>3, <2>1, <3>2 DEF Claiming, rowVars
  <2>3. CASE pc[w] = "merge"
    <3>1. target'[w] = target[w] /\ target[w] # NoCart /\ found = {target[w]}
      BY <1>2, <1>6, <2>3 DEF Serving, Pointed, InLoop, Claiming
    <3>2. pc'[w] = "written" => lock'[CartOf(w)] = w
      BY <1>2, <1>3, <1>4, <2>3 DEF ClaimFind, MergeNext, ClearNext, ClearDone, MergeDone,
                                    Lock, TypeOK
    <3>. QED  BY <1>1, <1>3, <2>1, <3>1, <3>2 DEF Claiming, rowVars
  <2>. QED  BY <2>1, <2>2, <2>3
<1>. QED  BY <1>2, <1>12, <1>13, <1>14, <1>15, <1>16, <1>17, <1>18, <1>19, LocalIInv DEF Serving

LEMMA FindIInv ==
  ASSUME IInv, NEW w \in Workers, Find(w)
  PROVE  Local(w) /\ IInv'
<1>. DEFINE l == line[w]
<1>1. /\ pc[w] = "find" /\ UNCHANGED <<rowVars, job, alone, lock, items, line, target, said>>
      /\ seen' = [seen EXCEPT ![w][l] = IF Known(w, l) THEN @ ELSE qty[l]]
      /\ gone' = gone \/ gone' = [gone EXCEPT ![w] = @ \ {l}]
      /\ pc' = [pc EXCEPT ![w] = IF qty[l] > 0 THEN "update" ELSE "append"]
  BY DEF Find, Goto
<1>2. job[w] # NoJob /\ Serving(w) /\ TypeOK
  BY <1>1 DEF IInv, WorkerOK, Free
<1>3. l \in Lines /\ job[w].op \in {"claim", "add"}
  BY <1>1, <1>2 DEF Serving, Pointed, AtLine, InHandler
<1>4. /\ seen' = [seen EXCEPT ![w] = seen'[w]]
      /\ seen'[w] = [seen[w] EXCEPT ![l] = seen'[w][l]]
      /\ seen'[w][l] \in 0..MaxInt
      /\ seen'[w] \in [Lines -> 0..MaxInt]
  <2>1. seen[w] \in [Lines -> 0..MaxInt] /\ qty[l] \in 0..MaxInt
    BY <1>2, <1>3 DEF TypeOK
  <2>2. PICK q \in 0..MaxInt : seen' = [seen EXCEPT ![w][l] = q]
    BY <1>1, <1>2, <1>3, <2>1 DEF TypeOK
  <2>3. seen'[w] = [seen[w] EXCEPT ![l] = q]
    BY <1>2, <2>2 DEF TypeOK
  <2>. QED  BY <1>2, <1>3, <2>1, <2>2, <2>3 DEF TypeOK
<1>5. /\ pc' = [pc EXCEPT ![w] = pc'[w]] /\ pc'[w] \in {"update", "append"}
      /\ gone' = [gone EXCEPT ![w] = gone'[w]] /\ gone'[w] \in SUBSET Lines
  BY <1>1, <1>2 DEF TypeOK
<1>6. /\ items' = [items EXCEPT ![w] = items'[w]] /\ line' = [line EXCEPT ![w] = line'[w]]
      /\ target' = [target EXCEPT ![w] = target'[w]] /\ said' = [said EXCEPT ![w] = said'[w]]
  BY <1>1, <1>2 DEF IInv, Indexed, TypeOK
<1>7. Local(w) /\ Typed(w)'
  BY <1>1, <1>2, <1>4, <1>5, <1>6 DEF TypeOK, Local, Typed
<1>8. InHandler(w)' /\ Holding(w)' /\ Updating(w)' /\ Creating(w)'
  BY <1>1, <1>2, <1>3, <1>5 DEF Serving, InHandler, Holding, Updating, Creating, Announced
<1>9. Pointed(w)'
  BY <1>1, <1>2, <1>5 DEF Serving, Pointed, AtLine, InLoop
<1>10. Claiming(w)'
  <2>1. CartOf(w)' = CartOf(w) /\ CartsOf(job[w].customer)' = CartsOf(job[w].customer)
    BY <1>1 DEF CartOf, CartsOf, rowVars
  <2>. QED  BY <1>1, <1>2, <1>5, <2>1 DEF Serving, Claiming, rowVars
<1>11. Carried(w)'
  <2>1. CartOf(w)' = CartOf(w)
    BY <1>1 DEF CartOf
  <2>. SUFFICES ASSUME job[w].op = "claim", target[w] # CartOf(w), NEW v \in Variants,
                       items[w][v] # seen'[w][<<CartOf(w), v>>]
                PROVE  /\ items[w][v] = 0 /\ <<target[w], v>> \in Lines
                       /\ lock[<<target[w], v>>] = w
                       /\ seen'[w][<<target[w], v>>] >= seen'[w][<<CartOf(w), v>>]
    BY <1>1, <2>1 DEF Carried
  <2>2. CartOf(w) \in Carts /\ <<CartOf(w), v>> \in Lines
    BY <1>2, JobTypes DEF Lines
  <2>3. l[1] = target[w] /\ items[w][l[2]] > 0
    BY <1>1, <1>2 DEF Serving, Pointed, AtLine, InLoop
  <2>4. seen'[w][<<CartOf(w), v>>] = seen[w][<<CartOf(w), v>>]
    BY <1>2, <1>3, <1>4, <2>2, <2>3 DEF TypeOK
  <2>5. /\ items[w][v] = 0 /\ <<target[w], v>> \in Lines
        /\ lock[<<target[w], v>>] = w
        /\ seen[w][<<target[w], v>>] >= seen[w][<<CartOf(w), v>>]
    BY <1>1, <1>2, <2>4 DEF Serving, Carried
  <2>6. seen'[w][<<target[w], v>>] = seen[w][<<target[w], v>>]
    BY <1>2, <1>3, <1>4, <2>3, <2>5 DEF TypeOK
  <2>. QED  BY <2>4, <2>5, <2>6
<1>. QED  BY <1>2, <1>7, <1>8, <1>9, <1>10, <1>11, LocalIInv DEF Serving

(* The amount of a request that writes a line. *)
LEMMA QuantityTypes ==
  ASSUME IInv, NEW w \in Workers, pc[w] \in {"update", "append"}
  PROVE  /\ line[w] \in Lines /\ Amount(w) \in Nat \ {0} /\ NewQuantity(w) \in Nat
         /\ job[w].op \in {"claim", "add", "update"}
         /\ job[w].op # "update" => NewQuantity(w) = seen[w][line[w]] + Amount(w)
         /\ job[w].op = "claim" => /\ Amount(w) = items[w][line[w][2]]
                                   /\ line[w] = <<target[w], line[w][2]>>
                                   /\ line[w][2] \in Variants
<1>1. job[w] # NoJob /\ Serving(w) /\ TypeOK
  BY DEF IInv, WorkerOK, Free
<1>2. line[w] \in Lines /\ job[w].op \in {"claim", "add", "update"}
  BY <1>1 DEF Serving, Pointed, AtLine, InHandler
<1>3. line[w] = <<line[w][1], line[w][2]>> /\ line[w][2] \in Variants
  BY <1>2 DEF Lines
<1>4. job[w].op = "claim" => line[w][1] = target[w] /\ items[w][line[w][2]] > 0
  BY <1>1 DEF Serving, Pointed, AtLine, InLoop
<1>5. seen[w][line[w]] \in Nat /\ items[w][line[w][2]] \in Nat
  BY <1>1, <1>2, <1>3, BoundAssumption DEF TypeOK
<1>6. Amount(w) \in Nat \ {0} /\ (job[w].op = "claim" => Amount(w) = items[w][line[w][2]])
  BY <1>1, <1>2, <1>4, <1>5, JobTypes DEF Amount
<1>. QED  BY <1>2, <1>3, <1>4, <1>5, <1>6 DEF NewQuantity

(* The flush of a line: the row is locked unless it needs no change, and what
   a merge still has to carry over gets less. *)
LEMMA LineIInv ==
  ASSUME IInv, NEW w \in Workers, LineUpdate(w) \/ LineInsert(w) \/ LineDelete(w)
  PROVE  Local(w) /\ IInv'
<1>. DEFINE l == line[w]
<1>1. /\ pc[w] \in {"update", "append", "delete"}
      /\ UNCHANGED <<rowVars, job, alone, gone, line, target>>
  BY DEF LineUpdate, LineInsert, LineDelete, LineDone, Goto
<1>2. job[w] # NoJob /\ Serving(w) /\ TypeOK
  BY <1>1 DEF IInv, WorkerOK, Free
<1>3. /\ l \in Lines /\ CartOf(w) \in Carts /\ CartOf(w)' = CartOf(w)
      /\ job[w].op \in {"claim", "add", "update", "remove", "clear"}
      /\ pc[w] = "delete" <=> job[w].op \in {"remove", "clear"}
  BY <1>1, <1>2, JobTypes DEF Serving, Pointed, AtLine, InHandler, CartOf
<1>4. seen[w] \in [Lines -> 0..MaxInt] /\ qty \in [Lines -> 0..MaxInt]
  BY <1>2 DEF TypeOK
<1>5. /\ seen' = [seen EXCEPT ![w] = seen'[w]]
      /\ seen'[w] \in [Lines -> 0..MaxInt]
      /\ pc[w] = "delete" => seen'[w] = [seen[w] EXCEPT ![l] = 0]
      /\ pc[w] # "delete" => seen'[w][l] = NewQuantity(w)
      /\ \A k \in Lines \ {l} : \/ seen'[w][k] = seen[w][k]
                                \/ k[1] = target[w] /\ seen[w][k] = 0
  <2>1. CASE LineUpdate(w)
    <3>1. seen' = [seen EXCEPT ![w][l] = NewQuantity(w)] /\ pc[w] = "update"
          /\ NewQuantity(w) \in 0..MaxInt
      BY <2>1, QuantityTypes DEF LineUpdate, Fits
    <3>2. seen'[w] = [seen[w] EXCEPT ![l] = NewQuantity(w)]
      BY <1>2, <3>1 DEF TypeOK
    <3>. QED  BY <1>2, <1>3, <1>4, <3>1, <3>2 DEF TypeOK
  <2>2. CASE LineInsert(w)
    <3>. DEFINE merged == [k \in Lines |->
                  IF k = l THEN NewQuantity(w)
                  ELSE IF k[1] = target[w] /\ seen[w][k] = 0 THEN qty[k]
                  ELSE seen[w][k]]
    <3>1. pc[w] = "append" /\ NewQuantity(w) \in 0..MaxInt
      BY <2>2, QuantityTypes DEF LineInsert, Fits
    <3>2. seen' = [seen EXCEPT ![w] = merged]
      BY <2>2, <1>2 DEF LineInsert, TypeOK
    <3>3. seen'[w] = merged
      BY <1>2, <3>2 DEF TypeOK
    <3>4. merged \in [Lines -> 0..MaxInt]
      BY <1>4, <3>1
    <3>. QED  BY <1>2, <1>3, <3>1, <3>2, <3>3, <3>4
  <2>3. CASE LineDelete(w)
    <3>1. seen' = [seen EXCEPT ![w][l] = 0] /\ pc[w] = "delete" /\ 0 \in 0..MaxInt
      BY <2>3, BoundAssumption DEF LineDelete
    <3>2. seen'[w] = [seen[w] EXCEPT ![l] = 0]
      BY <1>2, <3>1 DEF TypeOK
    <3>. QED  BY <1>2, <1>3, <1>4, <3>1, <3>2 DEF TypeOK
  <2>. QED  BY <2>1, <2>2, <2>3
<1>6. /\ lock' = lock \/ Lock(w, l)
      /\ job[w].op = "claim" => Lock(w, l)
      /\ job[w].op = "update" /\ lock' # lock => l \notin gone[w]
  <2>1. CASE LineUpdate(w)
    <3>1. \/ lock' = lock /\ NewQuantity(w) = seen[w][l]
          \/ Lock(w, l) /\ l \notin gone[w]
      BY <2>1 DEF LineUpdate, Matches
    <3>2. job[w].op = "claim" => NewQuantity(w) # seen[w][l]
      BY <1>3, <1>4, <2>1, QuantityTypes, BoundAssumption DEF LineUpdate
    <3>. QED  BY <3>1, <3>2
  <2>2. CASE LineInsert(w)
    BY <1>2, <2>2 DEF LineInsert, Serving, InHandler
  <2>3. CASE LineDelete(w)
    BY <1>2, <2>3 DEF LineDelete, Serving, InHandler
  <2>. QED  BY <2>1, <2>2, <2>3
<1>7. \A x \in Carts \cup Lines : lock'[x] = IF lock' # lock /\ x = l THEN w ELSE lock[x]
  BY <1>2, <1>3, <1>6 DEF Lock, TypeOK
<1>8. LineDone(w)
  BY DEF LineUpdate, LineInsert, LineDelete
<1>9. /\ items' = [items EXCEPT ![w] = items'[w]]
      /\ Looping(w) => items'[w] = [items[w] EXCEPT ![l[2]] = 0]
      /\ ~Looping(w) => items'[w] = items[w]
  BY <1>2, <1>8 DEF LineDone, TypeOK
<1>10. /\ pc' = [pc EXCEPT ![w] = pc'[w]]
       /\ pc'[w] = IF ~Looping(w) THEN "written"
                   ELSE IF job[w].op = "claim" THEN "merge" ELSE "clear"
  BY <1>2, <1>8 DEF LineDone, Goto, TypeOK
<1>11. /\ said' = [said EXCEPT ![w] = said'[w]]
       /\ \A e \in said'[w] : e \in said[w] \/ e.type = "CartUpdated"
  <2>1. CASE UNCHANGED said
    BY <2>1 DEF IInv, Indexed
  <2>2. CASE Say(w, {Updated(CartOf(w), Count(items[w]))})
    <3>1. said'[w] = said[w] \cup {Updated(CartOf(w), Count(items[w]))}
      BY <2>2 DEF IInv, Indexed, Say
    <3>2. Updated(CartOf(w), Count(items[w])).type = "CartUpdated"
      BY DEF Updated, Event
    <3>. QED  BY <2>2, <3>1, <3>2 DEF IInv, Indexed, Say
  <2>. QED  BY <1>8, <2>1, <2>2 DEF LineDone
<1>12. Local(w)
  <2>1. /\ gone' = [gone EXCEPT ![w] = gone'[w]] /\ line' = [line EXCEPT ![w] = line'[w]]
        /\ target' = [target EXCEPT ![w] = target'[w]]
    BY <1>1, <1>2 DEF TypeOK
  <2>. QED  BY <1>1, <1>3, <1>5, <1>6, <1>9, <1>10, <1>11, <2>1 DEF Local
<1>13. Typed(w)'
  <2>1. items'[w] \in [Variants -> 0..MaxInt]
    BY <1>2, <1>9, BoundAssumption DEF TypeOK
  <2>. QED  BY <1>1, <1>2, <1>5, <2>1 DEF Typed, TypeOK
<1>14. InHandler(w)' /\ Pointed(w)'
  BY <1>1, <1>2, <1>3, <1>10 DEF Serving, InHandler, Pointed, AtLine, InLoop, Looping
<1>15. Holding(w)'
  <2>. SUFFICES ASSUME NEW k \in Lines, lock'[k] = w
                PROVE  /\ pc'[w] # "start" /\ job[w].op # "create"
                       /\ job[w].op = "update" => pc'[w] = "written" /\ qty[k] > 0
                       /\ job[w].op \in {"remove", "clear"} => seen'[w][k] = 0
    BY <1>1 DEF Holding, rowVars
  <2>1. lock[k] = w \/ (k = l /\ lock' # lock)
    BY <1>7
  <2>2. job[w].op = "update" => pc[w] = "update" /\ k = l /\ l \notin gone[w]
    BY <1>1, <1>2, <1>3, <1>6, <2>1 DEF Serving, Holding, InHandler
  <2>3. job[w].op = "update" => pc'[w] = "written" /\ qty[k] > 0
    BY <1>2, <1>10, <2>2 DEF Serving, Updating, Looping
  <2>4. job[w].op \in {"remove", "clear"} => seen'[w][k] = 0
    BY <1>2, <1>3, <1>4, <1>5, <2>1 DEF Serving, Holding
  <2>. QED  BY <1>3, <1>10, <2>3, <2>4
<1>16. Updating(w)' /\ Creating(w)'
  <2>1. alone[w] => ~Announced(w)'
    BY <1>1, <1>2, <1>11 DEF Serving, Creating, Announced
  <2>. QED  BY <1>1, <1>10, <2>1 DEF Updating, Creating
<1>17. Carried(w)'
  <2>. SUFFICES ASSUME job[w].op = "claim", target[w] # CartOf(w), NEW v \in Variants,
                       items'[w][v] # seen'[w][<<CartOf(w), v>>]
                PROVE  /\ items'[w][v] = 0 /\ <<target[w], v>> \in Lines
                       /\ lock'[<<target[w], v>>] = w
                       /\ seen'[w][<<target[w], v>>] >= seen'[w][<<CartOf(w), v>>]
    BY <1>1, <1>3 DEF Carried
  <2>. DEFINE from == <<CartOf(w), v>>
              to == <<target[w], v>>
  <2>1. /\ pc[w] \in {"update", "append"} /\ Looping(w) /\ from \in Lines
        /\ l = <<target[w], l[2]>> /\ l[2] \in Variants /\ Amount(w) = items[w][l[2]]
        /\ NewQuantity(w) = seen[w][l] + Amount(w) /\ Amount(w) \in Nat \ {0}
        /\ lock'[l] = w
    <3>1. pc[w] \in {"update", "append"} /\ Looping(w) /\ from \in Lines
      BY <1>1, <1>3 DEF Looping, Lines
    <3>2. lock'[l] = w
      BY <1>2, <1>3, <1>6 DEF Lock, TypeOK
    <3>. QED  BY <3>1, <3>2, QuantityTypes
  <2>2. seen'[w][from] = seen[w][from]
    BY <1>5, <2>1
  <2>3. CASE v = l[2]
    <3>1. items[w][v] = seen[w][from]
      BY <1>1, <1>2, <2>1, <2>3 DEF Serving, Carried
    <3>2. seen'[w][to] = seen[w][to] + seen[w][from] /\ seen[w][to] \in Nat
      BY <1>3, <1>4, <1>5, <2>1, <2>3, <3>1, BoundAssumption
    <3>3. items'[w][v] = 0
      BY <1>2, <1>9, <2>1, <2>3 DEF TypeOK
    <3>4. seen[w][from] \in Nat
      BY <1>4, <2>1, BoundAssumption
    <3>. QED  BY <1>3, <2>1, <2>2, <2>3, <3>2, <3>3, <3>4
  <2>4. CASE v # l[2]
    <3>1. items'[w][v] = items[w][v]
      BY <1>2, <1>9, <2>1, <2>4 DEF TypeOK
    <3>2. /\ items[w][v] = 0 /\ to \in Lines /\ lock[to] = w
          /\ seen[w][to] >= seen[w][from]
      BY <1>1, <1>2, <2>2, <3>1 DEF Serving, Carried
    <3>3. lock'[to] = w
      BY <1>7, <3>2
    <3>4. to # l
      BY <2>1, <2>4
    <3>5. seen'[w][to] >= seen[w][from]
      <4>1. seen'[w][to] \in Nat /\ seen[w][from] \in Nat
        BY <1>4, <1>5, <2>1, <3>2, BoundAssumption
      <4>2. seen'[w][to] = seen[w][to] \/ seen[w][to] = 0
        BY <1>5, <3>2, <3>4
      <4>. QED  BY <3>2, <4>1, <4>2
    <3>. QED  BY <2>2, <3>1, <3>2, <3>3, <3>5
  <2>. QED  BY <2>3, <2>4
<1>18. Claiming(w)'
  <2>1. CartsOf(job[w].customer)' = CartsOf(job[w].customer)
    BY <1>1 DEF CartsOf, rowVars
  <2>2. job[w].op = "claim" => pc[w] \in {"update", "append"} /\ pc'[w] = "merge"
                               /\ target[w] # NoCart
    BY <1>1, <1>2, <1>3, <1>10 DEF Serving, Pointed, InLoop, Looping
  <2>. QED  BY <1>1, <1>2, <1>3, <2>1, <2>2 DEF Serving, Claiming, rowVars
<1>. QED  BY <1>2, <1>12, <1>13, <1>14, <1>15, <1>16, <1>17, <1>18, LocalIInv DEF Serving

(* A commit, seen by the other workers: it writes no row they hold, they learn
   of the lines that were deleted, and are not alone if anything was written. *)
LEMMA CommitFrame ==
  ASSUME IInv, NEW w \in Workers, Commit(w), NEW u \in Workers \ {w}
  PROVE  WorkerOK(u)'
<1>1. /\ \A x \in Carts \cup Lines : lock'[x] = u <=> lock[x] = u
      /\ \A l \in Lines : qty'[l] = IF lock[l] = w THEN seen[w][l] ELSE qty[l]
  BY NameAssumption DEF IInv, TypeOK, Commit, End, InstallLines, Wrote
<1>2. /\ pc'[u] = pc[u] /\ job'[u] = job[u] /\ seen'[u] = seen[u] /\ items'[u] = items[u]
      /\ line'[u] = line[u] /\ target'[u] = target[u] /\ said'[u] = said[u]
  BY DEF IInv, TypeOK, Indexed, Commit, End
<1>3. gone'[u] = gone[u] \cup {l \in Deleted(w) : seen[u][l] # 0}
  BY DEF Commit
<1>4. job[u] # NoJob /\ alone'[u] => alone[u] /\ \A x \in Carts \cup Lines : lock[x] # w
  BY DEF IInv, TypeOK, Commit, Wrote
<1>5. CASE job[u] = NoJob
  BY <1>1, <1>2, <1>5 DEF IInv, WorkerOK, Free
<1>6. CASE job[u] # NoJob
  <2>. USE <1>6
  <2>1. Serving(u) /\ CartOf(u) \in Carts /\ CartOf(u)' = CartOf(u)
    BY <1>2, JobTypes DEF IInv, WorkerOK, CartOf
  <2>2. alone'[u] => alone[u] /\ UNCHANGED <<state, owner>>
    <3>1. job[w] # NoJob
      BY DEF Commit, IInv, WorkerOK, Free
    <3>2. CartOf(w) \in Carts
      BY <3>1, JobTypes DEF IInv
    <3>. QED  BY <1>4, <3>2 DEF Commit, InstallCart, Wrote
  <2>3. InHandler(u)' /\ Pointed(u)'
    BY <1>2, <2>1 DEF Serving, InHandler, Pointed, AtLine, InLoop, Finished
  <2>4. Holding(u)'
    BY <1>1, <1>2, <2>1 DEF Serving, Holding
  <2>5. Updating(u)'
    <3>. SUFFICES ASSUME job[u].op = "update", pc[u] = "update"
                  PROVE  seen[u][line[u]] > 0 /\ (line[u] \in gone'[u] \/ qty'[line[u]] > 0)
      BY <1>2 DEF Updating
    <3>1. line[u] \in Lines /\ seen[u][line[u]] > 0 /\ (line[u] \in gone[u] \/ qty[line[u]] > 0)
      BY <2>1 DEF Serving, Updating, Pointed, AtLine
    <3>2. CASE lock[line[u]] = w /\ seen[w][line[u]] = 0
      <4>1. line[u] \in Deleted(w)
        BY <3>1, <3>2 DEF Deleted, Wrote
      <4>. QED  BY <1>3, <3>1, <4>1
    <3>3. CASE lock[line[u]] = w /\ seen[w][line[u]] # 0
      <4>1. seen[w][line[u]] \in Nat
        BY <3>1, BoundAssumption DEF IInv, TypeOK
      <4>. QED  BY <1>1, <3>1, <3>3, <4>1
    <3>4. CASE lock[line[u]] # w
      BY <1>1, <1>3, <3>1, <3>4
    <3>. QED  BY <3>2, <3>3, <3>4
  <2>6. Carried(u)'
    <3>. SUFFICES ASSUME job[u].op = "claim", pc[u] # "start", target[u] # CartOf(u),
                         NEW v \in Variants, items[u][v] # seen[u][<<CartOf(u), v>>]
                  PROVE  /\ items[u][v] = 0 /\ <<target[u], v>> \in Lines
                         /\ lock'[<<target[u], v>>] = u
                         /\ seen[u][<<target[u], v>>] >= seen[u][<<CartOf(u), v>>]
      BY <1>2, <2>1 DEF Carried
    <3>. QED  BY <1>1, <2>1 DEF Serving, Carried
  <2>7. Creating(u)' /\ Claiming(u)'
    <3>1. alone'[u] => CartsOf(job[u].customer)' = CartsOf(job[u].customer)
      BY <1>2, <2>2 DEF CartsOf
    <3>. QED  BY <1>1, <1>2, <2>1, <2>2, <3>1 DEF Serving, Creating, Claiming, Announced
  <2>. QED  BY <1>2, <2>3, <2>4, <2>5, <2>6, <2>7 DEF WorkerOK, Serving
<1>. QED  BY <1>5, <1>6

LEMMA CommitIInv ==
  ASSUME IInv, NEW w \in Workers, Commit(w)
  PROVE  IInv'
<1>1. job[w] # NoJob
  BY DEF IInv, WorkerOK, Free, Commit
<1>2. CartOf(w) \in Carts /\ job[w].customer \in Customers \cup {NoCustomer}
  BY <1>1, JobTypes DEF IInv
<1>3. TypeOK'
  <2>1. /\ state' \in [Carts -> {"none", "active", "deleted"}]
        /\ owner' \in [Carts -> Customers \cup {NoCustomer}]
    BY <1>2 DEF IInv, TypeOK, Commit, InstallCart
  <2>2. qty' \in [Lines -> 0..MaxInt]
    BY DEF IInv, TypeOK, Commit, InstallLines
  <2>3. lock' \in [Carts \cup Lines -> Workers \cup {Nobody}]
    BY DEF IInv, TypeOK, Commit, End
  <2>4. /\ job' \in [Workers -> Requests \cup {NoJob}]
        /\ pc' \in [Workers -> {"idle", "start", "insert", "again", "bind", "claim",
                                "merge", "find", "update", "append", "delete",
                                "clear", "written"}]
    BY DEF IInv, TypeOK, Commit, End
  <2>5. /\ seen' \in [Workers -> [Lines -> 0..MaxInt]]
        /\ items' \in [Workers -> [Variants -> 0..MaxInt]]
    BY BoundAssumption DEF IInv, TypeOK, Commit, End, NotSeen, Nothing
  <2>6. /\ gone' \in [Workers -> SUBSET Lines]
        /\ line' \in [Workers -> Lines \cup {NoLine}]
        /\ target' \in [Workers -> Carts \cup {NoCart}]
    BY DEF IInv, TypeOK, Commit, End, Deleted
  <2>7. alone' \in [Workers -> BOOLEAN]
    BY DEF IInv, TypeOK, Commit
  <2>. QED  BY <2>1, <2>2, <2>3, <2>4, <2>5, <2>6, <2>7 DEF TypeOK
<1>4. Indexed(said)'
  BY DEF IInv, Indexed, Commit, End
<1>5. WorkerOK(w)'
  <2>1. \A x \in Carts \cup Lines : lock'[x] # w
    BY NameAssumption DEF IInv, TypeOK, Commit, End
  <2>2. job'[w] = NoJob /\ pc'[w] = "idle" /\ target'[w] = NoCart /\ said'[w] = {}
    BY DEF IInv, TypeOK, Indexed, Commit, End
  <2>. QED  BY <2>1, <2>2 DEF WorkerOK, Free
<1>. QED  BY <1>3, <1>4, <1>5, CommitFrame DEF IInv

-----------------------------------------------------------------------------
(* What a worker may do: end without an effect, take a step of its own, or
   commit. *)
LEMMA Steps ==
  ASSUME NEW w \in Workers, Start(w) \/ Handle(w) \/ Abort(w)
  PROVE  \/ Leave(w) \/ Start(w) \/ Commit(w)
         \/ CreateFound(w) \/ CreateMissing(w) \/ CreateInsert(w)
         \/ CreateConflict(w) \/ CreateAgain(w) \/ Bind(w)
         \/ ClaimLoad(w) \/ AddLoad(w) \/ UpdateLoad(w) \/ RemoveLoad(w) \/ ClearLoad(w)
         \/ ClaimFind(w) \/ MergeNext(w) \/ ClearNext(w) \/ ClearDone(w) \/ MergeDone(w)
         \/ Find(w) \/ LineUpdate(w) \/ LineInsert(w) \/ LineDelete(w)
BY DEF Handle, NotFound, Create, CreateLost, Claim, ClaimAgain, ClaimMany, Edit, ItemNotFound,
       Write, Unavailable, LineStale, LineOverflow, LineConflict, DeadlockVictim, Abort

LEMMA NextIInv == IInv /\ [Next]_vars => IInv'
<1>. SUFFICES ASSUME IInv, [Next]_vars PROVE IInv'
  OBVIOUS
<1>1. ASSUME NEW w \in Workers, Start(w) \/ Handle(w) \/ Abort(w) PROVE IInv'
  BY <1>1, Steps, LeaveIInv, StartIInv, CommitIInv, CreateIInv, LoadIInv, LoopIInv, FindIInv,
     LineIInv
<1>2. CASE UNCHANGED vars
  <2>1. TypeOK' /\ Indexed(said)' /\ UNCHANGED rowVars
    BY <1>2 DEF vars, localVars, rowVars, IInv, TypeOK, Indexed
  <2>2. ASSUME NEW u \in Workers PROVE Same(u)
    BY <1>2 DEF vars, localVars, Same
  <2>. QED  BY <2>1, <2>2, Frame DEF IInv
<1>. QED  BY <1>1, <1>2 DEF Next

(* The carts and their lines are changed only by a commit. *)
LEMMA OnlyCommitWrites ==
  ASSUME [Next]_vars, ~UNCHANGED rowVars
  PROVE  \E w \in Workers : Commit(w)
<1>1. PICK w \in Workers : Start(w) \/ Handle(w) \/ Abort(w)
  BY DEF Next, vars, rowVars
<1>2. ASSUME ~Commit(w) PROVE UNCHANGED rowVars
  BY <1>1, <1>2, Steps
     DEF Leave, Start, CreateFound, CreateMissing, CreateInsert, CreateConflict, CreateAgain,
         Bind, ClaimLoad, AddLoad, UpdateLoad, RemoveLoad, ClearLoad, ClaimFind, MergeNext,
         ClearNext, ClearDone, MergeDone, Find, LineUpdate, LineInsert, LineDelete, LineDone, Goto
<1>. QED  BY <1>2

(* What a commit does to the rows, in terms of the request. *)
LEMMA CommitEffect ==
  ASSUME IInv, NEW w \in Workers, Commit(w)
  PROVE  /\ job[w] # NoJob /\ Serving(w) /\ pc[w] = "written" /\ CartOf(w) \in Carts
         /\ \A c \in Carts : c # CartOf(w) \/ lock[c] # w =>
              state'[c] = state[c] /\ owner'[c] = owner[c]
         /\ lock[CartOf(w)] = w /\ target[w] # NoCart =>
              state'[CartOf(w)] = "deleted" /\ owner'[CartOf(w)] = owner[CartOf(w)]
         /\ lock[CartOf(w)] = w /\ target[w] = NoCart =>
              /\ state'[CartOf(w)] = IF state[CartOf(w)] = "none" THEN "active"
                                     ELSE state[CartOf(w)]
              /\ owner'[CartOf(w)] = job[w].customer
         /\ \A l \in Lines : qty'[l] = IF lock[l] = w THEN seen[w][l] ELSE qty[l]
<1>1. job[w] # NoJob /\ Serving(w) /\ pc[w] = "written"
  BY DEF IInv, WorkerOK, Free, Commit
<1>2. CartOf(w) \in Carts
  BY <1>1, JobTypes DEF IInv
<1>. QED  BY <1>1, <1>2 DEF IInv, TypeOK, Commit, InstallCart, InstallLines, Wrote

-----------------------------------------------------------------------------
THEOREM Inductive == Spec => []IInv
<1>. QED  BY InitIInv, NextIInv, PTL DEF Spec

(* Every quantity fits its column, whatever the requests that ran before it
   added. *)
THEOREM TypeCorrect == Spec => []TypeOK
<1>1. IInv => TypeOK
  BY DEF IInv
<1>. QED  BY <1>1, Inductive, PTL

(* The soft deletion of a merged cart is never undone, also not by a request
   that loaded the cart before: the UPDATE of _claim_simple leaves deleted_at
   alone. *)
THEOREM DeletedStaysDeleted == Spec => DeletionIsFinal
<1>1. ASSUME IInv, [Next]_vars, NEW c \in Carts, state[c] = "deleted"
      PROVE  state'[c] = "deleted"
  <2>1. CASE UNCHANGED rowVars
    BY <1>1, <2>1 DEF rowVars
  <2>2. CASE ~UNCHANGED rowVars
    <3>1. PICK w \in Workers : Commit(w)
      BY <1>1, <2>2, OnlyCommitWrites
    <3>. QED  BY <1>1, <3>1, CommitEffect
  <2>. QED  BY <2>1, <2>2
<1>2. IInv /\ [Next]_vars =>
        [\A c \in Carts : state[c] = "deleted" => state'[c] = "deleted"]_vars
  BY <1>1
<1>. QED  BY <1>2, Inductive, PTL DEF DeletionIsFinal, Spec

(* claim_cart empties a cart into another one: whatever is committed meanwhile,
   the transaction that soft-deletes the first puts into the second every unit
   it loaded. *)
THEOREM MergesCarryUnits == Spec => DeletionCarriesUnits
<1>1. ASSUME IInv, [Next]_vars, NEW c \in Carts, state[c] = "active", state'[c] = "deleted"
      PROVE  \E w \in Workers :
               /\ Committing(w) /\ CartOf(w) = c
               /\ target[w] = c \/ \A v \in Variants :
                    qty'[<<target[w], v>>] >= seen[w][<<c, v>>]
  <2>1. PICK w \in Workers : Commit(w)
    BY <1>1, OnlyCommitWrites DEF rowVars
  <2>2. c = CartOf(w) /\ target[w] # NoCart
    BY <1>1, <2>1, CommitEffect
  <2>3. job[w].op = "claim" /\ pc[w] = "written" /\ Finished(w) /\ Carried(w)
        /\ target[w] \in Carts
    <3>1. Serving(w) /\ pc[w] = "written"
      BY <1>1, <2>1, CommitEffect
    <3>. QED  BY <1>1, <2>2, <3>1 DEF Serving, Pointed, InLoop, IInv, TypeOK
  <2>4. ASSUME NEW v \in Variants, target[w] # c
        PROVE  qty'[<<target[w], v>>] >= seen[w][<<c, v>>]
    <3>. DEFINE from == <<c, v>>
                to == <<target[w], v>>
    <3>1. from \in Lines /\ to \in Lines /\ items[w][v] = 0
      BY <2>3 DEF Lines, Finished
    <3>2. \/ seen[w][from] = 0
          \/ lock[to] = w /\ seen[w][to] >= seen[w][from]
      BY <2>2, <2>3, <2>4, <3>1 DEF Carried
    <3>3. qty'[to] = IF lock[to] = w THEN seen[w][to] ELSE qty[to]
      BY <1>1, <2>1, <3>1, CommitEffect
    <3>4. seen[w] \in [Lines -> 0..MaxInt] /\ qty \in [Lines -> 0..MaxInt]
      BY <1>1 DEF IInv, TypeOK
    <3>5. seen[w][from] \in Nat /\ seen[w][to] \in Nat /\ qty[to] \in Nat
      BY <3>1, <3>4, BoundAssumption
    <3>. QED  BY <3>2, <3>3, <3>5
  <2>. QED  BY <2>1, <2>2, <2>4 DEF Committing
<1>2. IInv /\ [Next]_vars =>
        [\A c \in Carts : state[c] = "active" /\ state'[c] = "deleted" =>
           \E w \in Workers :
             /\ Committing(w) /\ CartOf(w) = c
             /\ target[w] = c \/ \A v \in Variants :
                  qty'[<<target[w], v>>] >= seen[w][<<c, v>>]]_vars
  BY <1>1
<1>. QED  BY <1>2, Inductive, PTL DEF DeletionCarriesUnits, Spec

(* Two claims and an edit may interleave in any way; when nothing was committed
   between the lookup and the commit of a claim, its customer has exactly one
   cart afterwards. *)
THEOREM ClaimsLeaveOneCart == Spec => ClaimLeavesOneCart
<1>1. ASSUME IInv, [Next]_vars, NEW w \in Workers, NEW u \in Customers,
             Committing(w), alone[w], job[w].op = "claim", job[w].customer = u
      PROVE  Cardinality(CartsOf(u)') = 1
  <2>1. Commit(w) /\ Claiming(w) /\ pc[w] = "written" /\ CartOf(w) \in Carts
        /\ target[w] \in Carts \cup {NoCart}
    BY <1>1, CommitEffect DEF Committing, Serving, IInv, TypeOK
  <2>2. /\ state[CartOf(w)] = "active" /\ owner[CartOf(w)] # u /\ lock[CartOf(w)] = w
        /\ target[w] # NoCart => CartsOf(u) = {target[w]}
        /\ target[w] = NoCart => CartsOf(u) = {}
    BY <1>1, <2>1 DEF Claiming
  <2>3. \A c \in Carts \ {CartOf(w)} : state'[c] = state[c] /\ owner'[c] = owner[c]
    BY <1>1, <2>1, CommitEffect
  <2>4. CASE target[w] = NoCart
    <3>1. state'[CartOf(w)] = "active" /\ owner'[CartOf(w)] = u
      BY <1>1, <2>1, <2>2, <2>4, CommitEffect
    <3>2. CartsOf(u)' = {CartOf(w)}
      BY <2>1, <2>2, <2>3, <2>4, <3>1 DEF CartsOf
    <3>. QED  BY <3>2, FS_Singleton
  <2>5. CASE target[w] # NoCart
    <3>1. state'[CartOf(w)] = "deleted"
      BY <1>1, <2>1, <2>2, <2>5, CommitEffect
    <3>2. CartsOf(u)' = {target[w]}
      BY <2>1, <2>2, <2>3, <2>5, <3>1 DEF CartsOf
    <3>. QED  BY <3>2, FS_Singleton
  <2>. QED  BY <2>4, <2>5
<1>2. IInv /\ [Next]_vars =>
        [\A w \in Workers, u \in Customers :
           /\ Committing(w) /\ alone[w]
           /\ job[w].op = "claim" /\ job[w].customer = u
           => Cardinality(CartsOf(u)') = 1]_vars
  BY <1>1
<1>. QED  BY <1>2, Inductive, PTL DEF ClaimLeavesOneCart, Spec

(* update_cart_item never brings back a line that was removed while it waited
   for the row. *)
THEOREM UpdatesNeverRevive == Spec => UpdateNeverRevives
<1>1. ASSUME IInv, [Next]_vars, NEW l \in Lines, qty[l] = 0, qty'[l] > 0
      PROVE  \E w \in Workers : Committing(w) /\ job[w].op \in {"add", "claim"}
  <2>1. PICK w \in Workers : Commit(w)
    BY <1>1, OnlyCommitWrites DEF rowVars
  <2>2. Serving(w) /\ lock[l] = w /\ qty'[l] = seen[w][l]
    BY <1>1, <2>1, CommitEffect
  <2>3. job[w].op \in {"create", "claim", "add", "update", "remove", "clear"}
    BY <2>2 DEF Serving, InHandler
  <2>4. job[w].op \notin {"create", "update", "remove", "clear"}
    BY <1>1, <2>2 DEF Serving, Holding
  <2>. QED  BY <2>1, <2>3, <2>4 DEF Committing
<1>2. IInv /\ [Next]_vars =>
        [\A l \in Lines : qty[l] = 0 /\ qty'[l] > 0 =>
           \E w \in Workers : Committing(w) /\ job[w].op \in {"add", "claim"}]_vars
  BY <1>1
<1>. QED  BY <1>2, Inductive, PTL DEF UpdateNeverRevives, Spec

(* CartCreated is announced for a new cart, unless another request committed
   something in between, as one does that makes the same cart first. *)
THEOREM AnnouncedCartsAreNew == Spec => CreatedMeansNew
<1>1. ASSUME IInv, [Next]_vars, NEW w \in Workers, Committing(w), alone[w], Announced(w)
      PROVE  state[CartOf(w)] = "none" /\ state'[CartOf(w)] = "active"
  <2>1. Commit(w) /\ Creating(w)
    BY <1>1, CommitEffect DEF Committing, Serving
  <2>2. lock[CartOf(w)] = w /\ state[CartOf(w)] = "none" /\ target[w] = NoCart
    BY <1>1, <2>1 DEF Creating
  <2>. QED  BY <1>1, <2>1, <2>2, CommitEffect
<1>2. IInv /\ [Next]_vars =>
        [\A w \in Workers :
           /\ Committing(w) /\ alone[w]
           /\ \E e \in said[w] : e.type = "CartCreated"
           => state[CartOf(w)] = "none" /\ state'[CartOf(w)] = "active"]_vars
  BY <1>1 DEF Announced
<1>. QED  BY <1>2, Inductive, PTL DEF CreatedMeansNew, Spec

-----------------------------------------------------------------------------
(* Units of a variant are moved from cart to cart.  The second inductive
   invariant is about a claim while nothing else commits: the variants it has
   moved are its own uncommitted lines of the target, which hold what both
   carts held, and the others it has still to move. *)
Moved(w, v) == <<target[w], v>> \in Lines /\ lock[<<target[w], v>>] = w

Moving(w, v) ==
  LET from == <<CartOf(w), v>>
      to == <<target[w], v>> IN
  /\ seen[w][from] = qty[from]
  /\ IF Moved(w, v)
     THEN items[w][v] = 0 /\ qty[from] > 0 /\ seen[w][to] = qty[to] + qty[from]
     ELSE items[w][v] = qty[from]

Unloaded(w) == job[w] = NoJob \/ pc[w] = "start" => gone[w] = {} /\ seen[w] = NotSeen
Certain(w) == alone[w] => gone[w] = {}

HoldsTarget(w) ==
  job[w] # NoJob /\ job[w].op = "claim" => \A l \in Lines : lock[l] = w => l[1] = target[w]

Merging(w) ==
  job[w] # NoJob /\ job[w].op = "claim" /\ pc[w] # "start" /\ alone[w] =>
    /\ \A l \in Lines : lock[l] # w => seen[w][l] \in {0, qty[l]}
    /\ \A v \in Variants : Moving(w, v)
    /\ pc[w] \in {"update", "append"} => seen[w][line[w]] = qty[line[w]]

MovesUnits(w) == Unloaded(w) /\ Certain(w) /\ HoldsTarget(w) /\ Merging(w)

UInv == IsFiniteSet(ActiveCarts) /\ \A w \in Workers : MovesUnits(w)

LEMMA FrameUnits ==
  ASSUME TypeOK, NEW u \in Workers, MovesUnits(u), Same(u), UNCHANGED rowVars
  PROVE  MovesUnits(u)'
<1>. USE DEF Same, rowVars
<1>1. CartOf(u)' = CartOf(u)
  BY DEF CartOf
<1>2. Unloaded(u)' /\ Certain(u)' /\ HoldsTarget(u)'
  BY DEF MovesUnits, Unloaded, Certain, HoldsTarget
<1>3. ASSUME NEW v \in Variants, Moving(u, v) PROVE Moving(u, v)'
  BY <1>1, <1>3 DEF Moving, Moved
<1>4. Merging(u)'
  BY <1>3 DEF MovesUnits, Merging
<1>. QED  BY <1>2, <1>4 DEF MovesUnits

LEMMA LocalUnits ==
  ASSUME IInv, UInv, NEW w \in Workers, Local(w), MovesUnits(w)'
  PROVE  UInv'
<1>1. ASSUME NEW u \in Workers \ {w} PROVE MovesUnits(u)'
  BY LocalSame, FrameUnits DEF IInv, UInv, Local
<1>2. ActiveCarts' = ActiveCarts
  BY DEF Local, rowVars, ActiveCarts
<1>. QED  BY <1>1, <1>2 DEF UInv

LEMMA OtherRequests ==
  ASSUME IInv, UInv, NEW w \in Workers, Local(w), job[w] # NoJob, job[w].op # "claim",
         gone'[w] \subseteq gone[w], pc'[w] # "start"
  PROVE  UInv'
<1>1. job'[w] = job[w] /\ alone'[w] = alone[w] /\ MovesUnits(w)
  BY DEF Local, UInv
<1>2. MovesUnits(w)'
  BY <1>1 DEF MovesUnits, Unloaded, Certain, HoldsTarget, Merging
<1>. QED  BY <1>2, LocalUnits

LEMMA LeaveUnits ==
  ASSUME IInv, UInv, NEW w \in Workers, Leave(w) PROVE UInv'
<1>. USE DEF Leave, End
<1>1. job'[w] = NoJob /\ gone'[w] = {} /\ seen'[w] = NotSeen
  BY DEF IInv, TypeOK
<1>2. MovesUnits(w)'
  BY <1>1 DEF MovesUnits, Unloaded, Certain, HoldsTarget, Merging
<1>3. ASSUME NEW u \in Workers \ {w} PROVE MovesUnits(u)'
  <2>1. \A x \in Carts \cup Lines : lock'[x] = u <=> lock[x] = u
    BY NameAssumption DEF IInv, TypeOK
  <2>2. said'[u] = said[u]
    BY DEF IInv, Indexed
  <2>3. Same(u)
    BY <2>1, <2>2 DEF IInv, TypeOK, Same
  <2>. QED  BY <2>3, FrameUnits DEF IInv, UInv
<1>4. ActiveCarts' = ActiveCarts
  BY DEF rowVars, ActiveCarts
<1>. QED  BY <1>2, <1>3, <1>4 DEF UInv

LEMMA StartUnits ==
  ASSUME IInv, UInv, NEW w \in Workers, Start(w) PROVE UInv'
<1>. USE DEF Start, localVars
<1>1. pc'[w] = "start" /\ UNCHANGED <<rowVars, lock, seen, gone, target, alone>>
  BY DEF IInv, TypeOK
<1>2. Free(w) /\ MovesUnits(w) /\ job[w] = NoJob
  BY DEF IInv, UInv, WorkerOK
<1>3. MovesUnits(w)'
  BY <1>1, <1>2 DEF Free, MovesUnits, Unloaded, Certain, HoldsTarget, Merging
<1>4. ASSUME NEW u \in Workers \ {w} PROVE MovesUnits(u)'
  BY FrameUnits DEF IInv, UInv, TypeOK, Same, rowVars
<1>5. ActiveCarts' = ActiveCarts
  BY <1>1 DEF rowVars, ActiveCarts
<1>. QED  BY <1>3, <1>4, <1>5 DEF UInv

(* A claim begins: everything is still to be moved. *)
LEMMA ClaimLoadUnits ==
  ASSUME IInv, UInv, NEW w \in Workers, ClaimLoad(w) PROVE UInv'
<1>1. /\ pc[w] = "start" /\ job[w].op = "claim" /\ Load(w)
      /\ UNCHANGED <<rowVars, job, alone, lock, gone, target>>
  BY DEF ClaimLoad, At, Goto
<1>2. job[w] # NoJob /\ Serving(w) /\ TypeOK /\ MovesUnits(w) /\ Local(w)
  BY <1>1, LoadIInv DEF IInv, UInv, WorkerOK, Free
<1>3. CartOf(w) \in Carts /\ CartOf(w)' = CartOf(w)
  BY <1>1, <1>2, JobTypes DEF CartOf
<1>4. target[w] = NoCart /\ pc'[w] = "claim" /\ \A l \in Lines : lock[l] # w
  BY <1>1, <1>2, NameAssumption
     DEF TypeOK, Serving, Pointed, InLoop, Holding, ClaimLoad, Goto
<1>5. /\ seen'[w] = [l \in Lines |-> IF l[1] = CartOf(w) THEN qty[l] ELSE 0]
      /\ items'[w] = [v \in Variants |-> qty[<<CartOf(w), v>>]]
  BY <1>1, <1>2 DEF TypeOK, Load, Items
<1>6. ASSUME NEW v \in Variants PROVE Moving(w, v)'
  <2>1. <<CartOf(w), v>> \in Lines /\ <<NoCart, v>> \notin Lines
    BY <1>3, NameAssumption DEF Lines
  <2>2. ~Moved(w, v)'
    BY <1>1, <1>4, <2>1 DEF Moved
  <2>. QED  BY <1>1, <1>3, <1>5, <2>1, <2>2 DEF Moving, rowVars
<1>7. Merging(w)'
  BY <1>1, <1>4, <1>5, <1>6 DEF Merging, rowVars
<1>8. Unloaded(w)' /\ Certain(w)' /\ HoldsTarget(w)'
  BY <1>1, <1>2, <1>4 DEF MovesUnits, Unloaded, Certain, HoldsTarget
<1>. QED  BY <1>2, <1>7, <1>8, LocalUnits DEF MovesUnits

(* The steps of a claim that write no line. *)
LEMMA ClaimLoopUnits ==
  ASSUME IInv, UInv, NEW w \in Workers, job[w].op = "claim",
         ClaimFind(w) \/ MergeNext(w) \/ MergeDone(w) \/ Bind(w)
  PROVE  UInv'
<1>1. /\ pc[w] \in {"claim", "merge", "bind"}
      /\ UNCHANGED <<rowVars, job, alone, seen, gone, items>>
      /\ pc[w] # "claim" => target' = target
      /\ lock' = lock \/ Lock(w, CartOf(w))
  BY DEF ClaimFind, MergeNext, MergeDone, Bind, At, Goto
<1>2. job[w] # NoJob /\ Serving(w) /\ TypeOK /\ MovesUnits(w)
  BY <1>1 DEF IInv, UInv, WorkerOK, Free
<1>3. CartOf(w) \in Carts /\ CartOf(w) \notin Lines /\ CartOf(w)' = CartOf(w)
  BY <1>1, <1>2, JobTypes, RowAssumption DEF CartOf
<1>4. \A l \in Lines : lock'[l] = lock[l]
  BY <1>1, <1>2, <1>3 DEF Lock, TypeOK
<1>5. pc'[w] \in {"bind", "merge", "find", "written"}
  BY <1>2 DEF TypeOK, ClaimFind, MergeNext, MergeDone, Bind, Goto
<1>6. Local(w)
  <2>1. CASE Bind(w)
    <3>1. ~Leave(w)
      BY <1>1, <1>2 DEF Leave, End, TypeOK
    <3>. QED  BY <2>1, <3>1, CreateIInv
  <2>. QED  BY <2>1, LoopIInv
<1>7. pc[w] = "claim" => \A l \in Lines : lock[l] # w
  <2>1. pc[w] = "claim" => target[w] = NoCart
    BY <1>2 DEF Serving, Pointed, InLoop
  <2>2. \A l \in Lines : l[1] # NoCart
    BY NameAssumption DEF Lines
  <2>. QED  BY <1>2, <2>1, <2>2 DEF MovesUnits, HoldsTarget
<1>8. HoldsTarget(w)' /\ Certain(w)' /\ Unloaded(w)'
  BY <1>1, <1>2, <1>4, <1>5, <1>7 DEF MovesUnits, HoldsTarget, Certain, Unloaded
<1>9. Merging(w)'
  <2>. SUFFICES ASSUME alone[w] PROVE Merging(w)'
    BY <1>1 DEF Merging
  <2>1. /\ \A l \in Lines : lock[l] # w => seen[w][l] \in {0, qty[l]}
        /\ \A v \in Variants : Moving(w, v)
    BY <1>1, <1>2 DEF MovesUnits, Merging
  <2>2. ASSUME NEW v \in Variants PROVE Moved(w, v)' <=> Moved(w, v)
    BY <1>1, <1>4, <1>7 DEF Moved
  <2>3. ASSUME NEW v \in Variants PROVE Moving(w, v)'
    <3>1. CASE Moved(w, v)
      <4>1. target'[w] = target[w]
        BY <1>1, <1>7, <3>1 DEF Moved
      <4>. QED  BY <1>1, <1>3, <2>1, <2>2, <3>1, <4>1 DEF Moving, rowVars
    <3>2. CASE ~Moved(w, v)
      BY <1>1, <1>3, <2>1, <2>2, <3>2 DEF Moving, rowVars
    <3>. QED  BY <3>1, <3>2
  <2>. QED  BY <1>1, <1>4, <1>5, <2>1, <2>3 DEF Merging, rowVars
<1>. QED  BY <1>6, <1>8, <1>9, LocalUnits DEF MovesUnits

(* While nothing else commits, a claim merges into another cart than its own. *)
LEMMA MergesElsewhere ==
  ASSUME IInv, NEW w \in Workers, job[w] # NoJob, job[w].op = "claim", pc[w] # "start",
         alone[w], target[w] # NoCart
  PROVE  /\ target[w] \in Carts /\ target[w] # CartOf(w)
         /\ state[target[w]] = "active" /\ CartOf(w) \in Carts
<1>1. Claiming(w) /\ CartOf(w) \in Carts
  BY JobTypes DEF IInv, WorkerOK, Serving
<1>2. target[w] \in CartsOf(job[w].customer) /\ owner[CartOf(w)] # job[w].customer
  BY <1>1 DEF Claiming
<1>. QED  BY <1>1, <1>2 DEF CartsOf

LEMMA FindUnits ==
  ASSUME IInv, UInv, NEW w \in Workers, Find(w) PROVE UInv'
<1>. DEFINE l == line[w]
<1>1. /\ pc[w] = "find" /\ UNCHANGED <<rowVars, job, alone, lock, items, line, target, said>>
      /\ seen' = [seen EXCEPT ![w][l] = IF Known(w, l) THEN @ ELSE qty[l]]
      /\ gone' = gone \/ gone' = [gone EXCEPT ![w] = @ \ {l}]
      /\ pc' = [pc EXCEPT ![w] = IF qty[l] > 0 THEN "update" ELSE "append"]
  BY DEF Find, Goto
<1>2. job[w] # NoJob /\ Serving(w) /\ TypeOK /\ MovesUnits(w) /\ Local(w)
  BY <1>1, FindIInv DEF IInv, UInv, WorkerOK, Free
<1>3. gone'[w] \subseteq gone[w] /\ pc'[w] \in {"update", "append"} /\ l \in Lines
  BY <1>1, <1>2 DEF TypeOK, Serving, Pointed, AtLine
<1>4. CASE job[w].op # "claim"
  BY <1>2, <1>3, <1>4, OtherRequests
<1>5. CASE job[w].op = "claim"
  <2>1. Unloaded(w)' /\ Certain(w)' /\ HoldsTarget(w)'
    BY <1>1, <1>2, <1>3 DEF MovesUnits, Unloaded, Certain, HoldsTarget
  <2>2. Merging(w)'
    <3>. SUFFICES ASSUME alone[w] PROVE Merging(w)'
      BY <1>1 DEF Merging
    <3>1. /\ gone[w] = {}
          /\ \A k \in Lines : lock[k] # w => seen[w][k] \in {0, qty[k]}
          /\ \A v \in Variants : Moving(w, v)
      BY <1>1, <1>2, <1>5 DEF MovesUnits, Certain, Merging
    <3>2. target[w] # NoCart /\ l[1] = target[w] /\ items[w][l[2]] > 0
      BY <1>1, <1>2, <1>5 DEF Serving, Pointed, AtLine, InLoop
    <3>3. target[w] # CartOf(w) /\ CartOf(w)' = CartOf(w) /\ CartOf(w) \in Carts
      BY <1>1, <1>2, <1>5, <3>2, MergesElsewhere DEF CartOf
    <3>4. l = <<target[w], l[2]>> /\ l[2] \in Variants
      BY <1>3, <3>2 DEF Lines
    <3>5. lock[l] # w
      <4>1. Moving(w, l[2]) /\ items[w][l[2]] # 0
        BY <1>2, <3>1, <3>2, <3>4 DEF TypeOK
      <4>2. ~Moved(w, l[2])
        BY <4>1 DEF Moving
      <4>. QED  BY <1>3, <3>4, <4>2 DEF Moved
    <3>6. /\ seen'[w][l] = qty[l]
          /\ \A k \in Lines \ {l} : seen'[w][k] = seen[w][k]
      <4>1. Known(w, l) => seen[w][l] = qty[l]
        BY <1>3, <3>1, <3>5 DEF Known
      <4>2. seen[w] \in [Lines -> 0..MaxInt] /\ seen' = [seen EXCEPT ![w][l] = qty[l]]
        BY <1>1, <1>2, <1>3, <4>1 DEF TypeOK
      <4>. QED  BY <1>2, <1>3, <4>2 DEF TypeOK
    <3>7. ASSUME NEW v \in Variants PROVE Moving(w, v)'
      <4>1. <<CartOf(w), v>> \in Lines \ {l}
        BY <3>2, <3>3 DEF Lines
      <4>2. Moved(w, v) => <<target[w], v>> \in Lines \ {l}
        BY <3>5 DEF Moved
      <4>3. Moved(w, v)' <=> Moved(w, v)
        BY <1>1 DEF Moved
      <4>. QED  BY <1>1, <3>1, <3>3, <3>6, <4>1, <4>2, <4>3 DEF Moving, rowVars
    <3>. QED  BY <1>1, <1>3, <3>1, <3>6, <3>7 DEF Merging, rowVars
  <2>. QED  BY <1>2, <2>1, <2>2, LocalUnits DEF MovesUnits
<1>. QED  BY <1>4, <1>5

(* The line of a merge: what was still to be moved of it now lies in the line
   of the target. *)
LEMMA LineUnits ==
  ASSUME IInv, UInv, NEW w \in Workers, LineUpdate(w) \/ LineInsert(w) \/ LineDelete(w)
  PROVE  UInv'
<1>. DEFINE l == line[w]
<1>1. /\ pc[w] \in {"update", "append", "delete"}
      /\ UNCHANGED <<rowVars, job, alone, gone, line, target>> /\ LineDone(w)
  BY DEF LineUpdate, LineInsert, LineDelete, LineDone, Goto
<1>2. job[w] # NoJob /\ Serving(w) /\ TypeOK /\ MovesUnits(w) /\ Local(w)
  BY <1>1, LineIInv DEF IInv, UInv, WorkerOK, Free
<1>3. pc'[w] \in {"merge", "clear", "written"}
  BY <1>1, <1>2 DEF LineDone, Goto, TypeOK
<1>4. CASE job[w].op # "claim"
  BY <1>1, <1>2, <1>3, <1>4, OtherRequests
<1>5. CASE job[w].op = "claim"
  <2>1. /\ l \in Lines /\ l = <<target[w], l[2]>> /\ l[2] \in Variants
        /\ items[w][l[2]] > 0 /\ items[w][l[2]] \in Nat
        /\ NewQuantity(w) = seen[w][l] + items[w][l[2]]
        /\ pc[w] \in {"update", "append"} /\ target[w] # NoCart
    <3>1. pc[w] \in {"update", "append"}
      BY <1>1, <1>2, <1>5 DEF Serving, InHandler
    <3>2. target[w] # NoCart
      BY <1>2, <1>5, <3>1 DEF Serving, Pointed, InLoop
    <3>. QED  BY <1>5, <3>1, <3>2, QuantityTypes
  <2>2. seen[w] \in [Lines -> 0..MaxInt] /\ seen[w][l] \in Nat /\ qty[l] \in Nat
    BY <1>2, <2>1, BoundAssumption DEF TypeOK
  <2>3. /\ seen'[w][l] = NewQuantity(w)
        /\ \A k \in Lines \ {l} : \/ seen'[w][k] = seen[w][k]
                                  \/ seen[w][k] = 0 /\ seen'[w][k] = qty[k] /\ k[1] = target[w]
    <3>1. CASE LineUpdate(w)
      <4>1. seen' = [seen EXCEPT ![w][l] = NewQuantity(w)]
        BY <3>1 DEF LineUpdate
      <4>. QED  BY <1>2, <2>1, <2>2, <4>1 DEF TypeOK
    <3>2. CASE LineInsert(w)
      <4>. DEFINE merged == [k \in Lines |->
                    IF k = l THEN NewQuantity(w)
                    ELSE IF k[1] = target[w] /\ seen[w][k] = 0 THEN qty[k]
                    ELSE seen[w][k]]
      <4>1. seen' = [seen EXCEPT ![w] = merged]
        BY <1>2, <3>2 DEF LineInsert, TypeOK
      <4>2. seen'[w] = merged
        BY <1>2, <4>1 DEF TypeOK
      <4>. QED  BY <2>1, <4>2
    <3>3. CASE LineDelete(w)
      BY <2>1, <3>3 DEF LineDelete
    <3>. QED  BY <3>1, <3>2, <3>3
  <2>4. Lock(w, l)
    BY <2>1, <2>2 DEF LineUpdate, LineInsert, LineDelete
  <2>5. \A k \in Lines : lock'[k] = IF k = l THEN w ELSE lock[k]
    BY <1>2, <2>1, <2>4 DEF Lock, TypeOK
  <2>6. Unloaded(w)' /\ Certain(w)' /\ HoldsTarget(w)'
    <3>1. l[1] = target[w]
      BY <2>1
    <3>. QED  BY <1>1, <1>2, <1>3, <2>5, <3>1 DEF MovesUnits, Unloaded, Certain, HoldsTarget
  <2>7. Merging(w)'
    <3>. SUFFICES ASSUME alone[w] PROVE Merging(w)'
      BY <1>1 DEF Merging
    <3>1. /\ \A k \in Lines : lock[k] # w => seen[w][k] \in {0, qty[k]}
          /\ \A v \in Variants : Moving(w, v)
          /\ seen[w][l] = qty[l]
      BY <1>1, <1>2, <1>5, <2>1 DEF MovesUnits, Merging
    <3>2. target[w] # CartOf(w) /\ CartOf(w)' = CartOf(w) /\ CartOf(w) \in Carts
      BY <1>1, <1>2, <1>5, <2>1, MergesElsewhere DEF CartOf
    <3>3. items'[w] = [items[w] EXCEPT ![l[2]] = 0]
      BY <1>1, <1>2, <1>5 DEF LineDone, Looping, TypeOK
    <3>4. ASSUME NEW v \in Variants PROVE Moving(w, v)'
      <4>. DEFINE from == <<CartOf(w), v>>
                  to == <<target[w], v>>
      <4>1. from \in Lines \ {l} /\ from[1] # target[w] /\ (v # l[2] => to # l) /\ (v = l[2] => to = l)
        BY <2>1, <3>2 DEF Lines
      <4>2. seen'[w][from] = qty[from]
        BY <2>3, <3>1, <4>1 DEF Moving
      <4>3. CASE v = l[2]
        <5>0. to = l /\ target'[w] = target[w]
          BY <1>1, <4>1, <4>3
        <5>1. Moved(w, v)' /\ ~Moved(w, v)
          <6>1. Moved(w, v)'
            BY <2>1, <2>5, <5>0 DEF Moved
          <6>2. Moving(w, v) /\ items[w][v] # 0
            BY <2>1, <3>1, <4>3
          <6>. QED  BY <6>1, <6>2 DEF Moving
        <5>2. items[w][v] = qty[from]
          BY <3>1, <5>1 DEF Moving
        <5>3. items'[w][v] = 0 /\ seen'[w][to] = qty[to] + qty[from] /\ qty[from] > 0
          <6>1. items'[w][v] = 0
            BY <1>2, <2>1, <3>3, <4>3 DEF TypeOK
          <6>2. seen'[w][l] = qty[l] + items[w][l[2]]
            BY <2>1, <2>3, <3>1
          <6>. QED  BY <2>1, <4>3, <5>0, <5>2, <6>1, <6>2
        <5>. QED  BY <1>1, <3>2, <4>2, <5>1, <5>3 DEF Moving, rowVars
      <4>4. CASE v # l[2]
        <5>1. items'[w][v] = items[w][v]
          BY <1>2, <3>3, <4>4 DEF TypeOK
        <5>2. Moved(w, v)' <=> Moved(w, v)
          BY <1>1, <2>5, <4>1, <4>4 DEF Moved
        <5>3. Moved(w, v) => seen'[w][to] = seen[w][to]
          <6>. SUFFICES ASSUME Moved(w, v) PROVE seen'[w][to] = seen[w][to]
            OBVIOUS
          <6>1. to \in Lines /\ qty[from] > 0 /\ seen[w][to] = qty[to] + qty[from]
            BY <3>1 DEF Moving, Moved
          <6>2. qty[to] \in Nat /\ qty[from] \in Nat
            BY <1>2, <4>1, <6>1, BoundAssumption DEF TypeOK
          <6>3. seen[w][to] # 0
            BY <6>1, <6>2
          <6>. QED  BY <2>3, <4>1, <4>4, <6>1, <6>3
        <5>. QED  BY <1>1, <3>1, <3>2, <4>2, <5>1, <5>2, <5>3 DEF Moving, rowVars
      <4>. QED  BY <4>3, <4>4
    <3>5. \A k \in Lines : lock'[k] # w => seen'[w][k] \in {0, qty[k]}
      BY <2>3, <2>5, <3>1
    <3>. QED  BY <1>1, <1>3, <3>4, <3>5 DEF Merging, rowVars
  <2>. QED  BY <1>2, <2>6, <2>7, LocalUnits DEF MovesUnits
<1>. QED  BY <1>4, <1>5

(* A commit makes at most one cart active; who else is served is not alone any
   more, if anything was written. *)
LEMMA CommitUnits ==
  ASSUME IInv, UInv, NEW w \in Workers, Commit(w) PROVE UInv'
<1>1. IsFiniteSet(ActiveCarts)'
  <2>1. ActiveCarts' \subseteq ActiveCarts \cup {CartOf(w)}
    BY CommitEffect DEF ActiveCarts
  <2>2. IsFiniteSet(ActiveCarts \cup {CartOf(w)})
    BY FS_AddElement DEF UInv
  <2>. QED  BY <2>1, <2>2, FS_Subset
<1>2. MovesUnits(w)'
  <2>1. job'[w] = NoJob /\ gone'[w] = {} /\ seen'[w] = NotSeen
    BY DEF IInv, TypeOK, Commit, End
  <2>. QED  BY <2>1 DEF MovesUnits, Unloaded, Certain, HoldsTarget, Merging
<1>3. ASSUME NEW u \in Workers \ {w} PROVE MovesUnits(u)'
  <2>1. /\ \A x \in Carts \cup Lines : lock'[x] = u <=> lock[x] = u
        /\ \A l \in Lines : qty'[l] = IF lock[l] = w THEN seen[w][l] ELSE qty[l]
    BY NameAssumption DEF IInv, TypeOK, Commit, End, InstallLines, Wrote
  <2>2. /\ pc'[u] = pc[u] /\ job'[u] = job[u] /\ seen'[u] = seen[u] /\ items'[u] = items[u]
        /\ line'[u] = line[u] /\ target'[u] = target[u]
    BY DEF IInv, TypeOK, Commit, End
  <2>3. gone'[u] = gone[u] \cup {l \in Deleted(w) : seen[u][l] # 0}
    BY DEF Commit
  <2>4. job[u] # NoJob /\ alone'[u] => alone[u] /\ \A x \in Carts \cup Lines : lock[x] # w
    BY DEF IInv, TypeOK, Commit, Wrote
  <2>5. MovesUnits(u)
    BY DEF UInv
  <2>6. Unloaded(u)'
    BY <2>2, <2>3, <2>5 DEF MovesUnits, Unloaded, NotSeen, Deleted
  <2>7. Certain(u)'
    <3>1. CASE job[u] = NoJob
      BY <2>2, <2>6, <3>1 DEF Unloaded, Certain
    <3>2. CASE job[u] # NoJob
      BY <2>3, <2>4, <2>5, <3>2 DEF MovesUnits, Certain, Deleted, Wrote
    <3>. QED  BY <3>1, <3>2
  <2>8. HoldsTarget(u)'
    BY <2>1, <2>2, <2>5 DEF MovesUnits, HoldsTarget
  <2>9. Merging(u)'
    <3>. SUFFICES ASSUME job[u] # NoJob, job[u].op = "claim", pc[u] # "start", alone'[u]
                  PROVE  Merging(u)'
      BY <2>2 DEF Merging
    <3>1. /\ \A l \in Lines : lock[l] # u => seen[u][l] \in {0, qty[l]}
          /\ \A v \in Variants : Moving(u, v)
          /\ pc[u] \in {"update", "append"} => seen[u][line[u]] = qty[line[u]]
      BY <2>4, <2>5 DEF MovesUnits, Merging
    <3>2. (\A l \in Lines : qty'[l] = qty[l]) /\ CartOf(u)' = CartOf(u) /\ CartOf(u) \in Carts
      BY <2>1, <2>2, <2>4, JobTypes DEF CartOf, IInv
    <3>3. ASSUME NEW v \in Variants PROVE Moving(u, v)'
      <4>1. <<CartOf(u), v>> \in Lines
        BY <3>2 DEF Lines
      <4>2. Moved(u, v)' <=> Moved(u, v)
        BY <2>1, <2>2 DEF Moved
      <4>3. Moved(u, v) => <<target[u], v>> \in Lines
        BY DEF Moved
      <4>. QED  BY <2>2, <3>1, <3>2, <4>1, <4>2, <4>3 DEF Moving
    <3>4. pc[u] \in {"update", "append"} => line[u] \in Lines
      BY DEF IInv, WorkerOK, Serving, Pointed, AtLine
    <3>. QED  BY <2>1, <2>2, <3>1, <3>2, <3>3, <3>4 DEF Merging
  <2>. QED  BY <2>6, <2>7, <2>8, <2>9 DEF MovesUnits
<1>. QED  BY <1>1, <1>2, <1>3 DEF UInv

LEMMA NextUnits == IInv /\ UInv /\ [Next]_vars => UInv'
<1>. SUFFICES ASSUME IInv, UInv, [Next]_vars PROVE UInv'
  OBVIOUS
<1>1. ASSUME NEW w \in Workers, Start(w) \/ Handle(w) \/ Abort(w) PROVE UInv'
  <2>1. CASE Leave(w) \/ Start(w) \/ Commit(w)
    BY <2>1, LeaveUnits, StartUnits, CommitUnits
  <2>2. CASE Find(w) \/ LineUpdate(w) \/ LineInsert(w) \/ LineDelete(w)
    BY <2>2, FindUnits, LineUnits
  <2>3. CASE ClaimLoad(w)
    BY <2>3, ClaimLoadUnits
  <2>4. CASE ClaimFind(w) \/ MergeNext(w) \/ MergeDone(w) \/ (Bind(w) /\ job[w].op = "claim")
    <3>1. job[w].op = "claim"
      BY <2>4 DEF ClaimFind, MergeNext, MergeDone, At
    <3>. QED  BY <2>4, <3>1, ClaimLoopUnits
  <2>5. CASE /\ ~Leave(w)
             /\ \/ CreateFound(w) \/ CreateMissing(w) \/ CreateInsert(w) \/ CreateConflict(w)
                \/ CreateAgain(w) \/ (Bind(w) /\ job[w].op # "claim")
    <3>1. Local(w)
      BY <2>5, CreateIInv
    <3>2. /\ job[w].op # "claim" /\ gone' = gone /\ pc'[w] # "start"
          /\ pc[w] # "idle"
      BY <2>5 DEF IInv, TypeOK, CreateFound, CreateMissing, CreateInsert, CreateConflict,
                  CreateAgain, Bind, At, Goto, localVars
    <3>3. job[w] # NoJob
      BY <3>2 DEF IInv, WorkerOK, Free
    <3>. QED  BY <3>1, <3>2, <3>3, OtherRequests
  <2>6. CASE AddLoad(w) \/ UpdateLoad(w) \/ RemoveLoad(w) \/ ClearLoad(w)
             \/ ClearNext(w) \/ ClearDone(w)
    <3>1. Local(w)
      BY <2>6, LoadIInv, LoopIInv
    <3>2. /\ job[w].op # "claim" /\ gone' = gone /\ pc'[w] # "start"
          /\ pc[w] # "idle"
      BY <2>6 DEF IInv, TypeOK, AddLoad, UpdateLoad, RemoveLoad, ClearLoad, ClearNext,
                  ClearDone, At, Goto
    <3>3. job[w] # NoJob
      BY <3>2 DEF IInv, WorkerOK, Free
    <3>. QED  BY <3>1, <3>2, <3>3, OtherRequests
  <2>. QED  BY <1>1, <2>1, <2>2, <2>3, <2>4, <2>5, <2>6, Steps
<1>2. CASE UNCHANGED vars
  <2>1. IInv' /\ UNCHANGED rowVars /\ ActiveCarts' = ActiveCarts
    BY <1>2, NextIInv DEF vars, rowVars, ActiveCarts
  <2>2. ASSUME NEW u \in Workers PROVE Same(u)
    BY <1>2 DEF vars, localVars, Same
  <2>. QED  BY <2>1, <2>2, FrameUnits DEF IInv, UInv
<1>. QED  BY <1>1, <1>2 DEF Next

THEOREM UnitsInductive == Spec => []UInv
<1>1. Init => UInv
  <2>. SUFFICES ASSUME Init PROVE UInv
    OBVIOUS
  <2>1. ActiveCarts = {}
    BY DEF Init, ActiveCarts
  <2>2. \A w \in Workers : MovesUnits(w)
    BY DEF Init, MovesUnits, Unloaded, Certain, HoldsTarget, Merging
  <2>. QED  BY <2>1, <2>2, FS_EmptySet DEF UInv
<1>. QED  BY <1>1, NextUnits, Inductive, PTL DEF Spec

(* claim_cart moves every unit of the cart it empties into the customer's, and
   neither makes nor loses any, unless something else was committed while it
   ran. *)
THEOREM ClaimsConserveUnits == Spec => ClaimConservesUnits
<1>1. ASSUME IInv, UInv, [Next]_vars, NEW w \in Workers, NEW v \in Variants,
             Committing(w), alone[w], job[w].op = "claim"
      PROVE  Units(v)' = Units(v)
  <2>. DEFINE f == [c \in Carts |-> qty[<<c, v>>]]
              g == [c \in Carts |-> qty'[<<c, v>>]]
              A == ActiveCarts
              B == ActiveCarts'
              from == CartOf(w)
              to == target[w]
  <2>1. /\ Commit(w) /\ job[w] # NoJob /\ Serving(w) /\ pc[w] = "written" /\ from \in Carts
        /\ TypeOK /\ MovesUnits(w) /\ IsFiniteSet(A)
    BY <1>1, CommitEffect DEF Committing, IInv, UInv
  <2>2. /\ state[from] = "active" /\ lock[from] = w
        /\ to # NoCart => to \in Carts /\ to # from /\ state[to] = "active"
    BY <1>1, <2>1, MergesElsewhere DEF Serving, Claiming
  <2>3. \A l \in Lines : qty'[l] = IF lock[l] = w THEN seen[w][l] ELSE qty[l]
    BY <1>1, <2>1, CommitEffect
  <2>4. \A l \in Lines : lock[l] = w => l[1] = to
    BY <1>1, <2>1 DEF MovesUnits, HoldsTarget
  <2>5. \A c \in Carts : <<c, v>> \in Lines /\ qty[<<c, v>>] \in Int /\ qty'[<<c, v>>] \in Int
    <3>1. \A c \in Carts : <<c, v>> \in Lines
      BY DEF Lines
    <3>. QED  BY <1>1, <2>1, <2>3, <3>1, BoundAssumption DEF TypeOK
  <2>6. Units(v) = SumFunctionOnSet(f, A) /\ Units(v)' = SumFunctionOnSet(g, B)
    BY DEF Units
  <2>7. A \subseteq Carts /\ B \subseteq Carts
        /\ \A c \in Carts \ {to} : g[c] = f[c]
    BY <2>3, <2>4, <2>5 DEF ActiveCarts
  <2>8. CASE to = NoCart
    <3>1. B = A
      BY <1>1, <2>1, <2>2, <2>8, CommitEffect DEF ActiveCarts
    <3>2. \A c \in A : g[c] = f[c]
      BY <2>7, <2>8, NameAssumption
    <3>. HIDE DEF f, g, A, B
    <3>. QED  BY <2>1, <2>6, <3>1, <3>2, SumIsLocal
  <2>9. CASE to # NoCart
    <3>. DEFINE C == (A \ {from}) \ {to}
    <3>1. B = A \ {from} /\ from \in A /\ to \in A \ {from}
      <4>1. state'[from] = "deleted"
        BY <1>1, <2>1, <2>2, <2>9, CommitEffect
      <4>2. \A c \in Carts \ {from} : state'[c] = state[c]
        BY <1>1, <2>1, CommitEffect
      <4>. QED  BY <2>1, <2>2, <2>9, <4>1, <4>2 DEF ActiveCarts
    <3>2. g[to] = f[to] + f[from]
      <4>1. Moving(w, v) /\ items[w][v] = 0
        BY <1>1, <2>1, <2>9
           DEF MovesUnits, Merging, Serving, Pointed, InLoop, Finished
      <4>2. to \in Carts /\ <<to, v>> \in Lines
        BY <2>2, <2>5, <2>9
      <4>3. qty'[<<to, v>>] = qty[<<to, v>>] + qty[<<from, v>>]
        BY <2>1, <2>3, <2>5, <4>1, <4>2 DEF Moving, Moved
      <4>. QED  BY <2>1, <4>2, <4>3
    <3>3. (\A c \in A : f[c] \in Int) /\ (\A c \in A : g[c] \in Int) /\ \A c \in C : g[c] = f[c]
      BY <2>5, <2>7
    <3>. HIDE DEF f, g, A, B, C
    <3>4. IsFiniteSet(A \ {from}) /\ IsFiniteSet(C)
      BY <2>1, FS_Subset DEF C
    <3>5. SumFunctionOnSet(f, A) = f[from] + SumFunctionOnSet(f, A \ {from})
      BY <2>1, <3>1, <3>3, SumTakesOut
    <3>6. SumFunctionOnSet(f, A \ {from}) = f[to] + SumFunctionOnSet(f, C)
      BY <3>1, <3>3, <3>4, SumTakesOut DEF C
    <3>7. SumFunctionOnSet(g, A \ {from}) = g[to] + SumFunctionOnSet(g, C)
      BY <3>1, <3>3, <3>4, SumTakesOut DEF C
    <3>8. SumFunctionOnSet(g, C) = SumFunctionOnSet(f, C)
      BY <3>3, <3>4, SumIsLocal
    <3>9. SumFunctionOnSet(f, C) \in Int /\ f[to] \in Int /\ f[from] \in Int
      <4>1. \A c \in C : f[c] \in Int
        BY <3>3 DEF C
      <4>. QED  BY <3>1, <3>3, <3>4, <4>1, SumIsInt
    <3>. QED  BY <2>6, <3>1, <3>2, <3>5, <3>6, <3>7, <3>8, <3>9
  <2>. QED  BY <2>8, <2>9
<1>2. IInv /\ UInv /\ [Next]_vars =>
        [\A w \in Workers : \A v \in Variants :
           Committing(w) /\ alone[w] /\ job[w].op = "claim" => Units(v)' = Units(v)]_vars
  BY <1>1
<1>. QED  BY <1>2, Inductive, UnitsInductive, PTL DEF ClaimConservesUnits, Spec

-----------------------------------------------------------------------------
(* What a request writes: the rows it holds, and the line it is about. *)
OfOneLine(w) == job[w].op \in {"add", "update", "remove"}

HoldsOwn(w) ==
  /\ \A c \in Carts : lock[c] = w => job[w].op \in {"create", "claim"}
  /\ \A l \in Lines : lock[l] = w =>
       /\ OfOneLine(w) => l = line[w] /\ pc[w] = "written"
       /\ job[w].op = "clear" => l[1] = CartOf(w)
       /\ job[w].op = "claim" => seen[w][l] > 0 /\ items[w][l[2]] = 0
       /\ job[w].op = "add" => seen[w][l] >= job[w].amount
       /\ job[w].op = "update" => seen[w][l] = job[w].amount

Aiming(w) ==
  /\ OfOneLine(w) /\ pc[w] # "start" => line[w] = <<CartOf(w), job[w].variant>>
  /\ job[w].op = "clear" /\ pc[w] = "delete" =>
       line[w][1] = CartOf(w) /\ items[w][line[w][2]] > 0
  /\ job[w].op = "clear" /\ pc[w] = "written" => Finished(w)
  /\ job[w].op = "claim" /\ pc[w] # "start" => state[CartOf(w)] # "none"
  /\ job[w].op = "claim" /\ pc[w] = "written" => lock[CartOf(w)] = w

(* As long as nothing else committed: a cart is created or bound as it was
   found, and what a request is about to write is computed from what is there. *)
CreatesAlone(w) ==
  job[w].op = "create" =>
    /\ pc[w] = "bind" => state[CartOf(w)] = "active" /\ Unclaimed(w)
    /\ pc[w] = "written" => /\ lock[CartOf(w)] = w
                            /\ \/ state[CartOf(w)] = "none"
                               \/ state[CartOf(w)] = "active" /\ Unclaimed(w)

LineAlone(w) ==
  OfOneLine(w) /\ pc[w] # "start" =>
    /\ pc[w] # "written" => seen[w][line[w]] = qty[line[w]]
    /\ job[w].op \in {"update", "remove"} => qty[line[w]] > 0
    /\ pc[w] = "written" =>
         /\ job[w].op = "add" => seen[w][line[w]] = qty[line[w]] + job[w].amount
         /\ job[w].op \in {"add", "remove"} => lock[line[w]] = w
         /\ job[w].op = "update" => lock[line[w]] = w \/ qty[line[w]] = job[w].amount

Cleared(w, v) ==
  LET l == <<CartOf(w), v>> IN
  \/ items[w][v] = qty[l] /\ lock[l] # w
  \/ items[w][v] = 0 /\ lock[l] = w

EditsAlone(w) ==
  job[w].op \notin {"create", "claim"} /\ pc[w] # "start" =>
    /\ state[CartOf(w)] = "active"
    /\ job[w].op = "clear" => \A v \in Variants : Cleared(w, v)

Edits(w) ==
  job[w] # NoJob =>
    /\ HoldsOwn(w) /\ Aiming(w)
    /\ alone[w] => CreatesAlone(w) /\ LineAlone(w) /\ EditsAlone(w)

EInv == \A w \in Workers : Edits(w)

LEMMA FrameEdits ==
  ASSUME TypeOK, NEW u \in Workers, WorkerOK(u), Edits(u), Same(u), UNCHANGED rowVars
  PROVE  Edits(u)'
<1>. USE DEF Same, rowVars
<1>. SUFFICES ASSUME job[u] # NoJob PROVE Edits(u)'
  BY DEF Edits
<1>1. CartOf(u)' = CartOf(u) /\ CartOf(u) \in Carts
  BY JobTypes DEF CartOf
<1>2. HoldsOwn(u)'
  BY <1>1 DEF Edits, HoldsOwn, OfOneLine
<1>3. Aiming(u)'
  BY <1>1 DEF Edits, Aiming, OfOneLine, Finished
<1>4. alone[u] => CreatesAlone(u)'
  BY <1>1 DEF Edits, CreatesAlone, Unclaimed
<1>5. alone[u] => LineAlone(u)'
  <2>. SUFFICES ASSUME alone[u], OfOneLine(u), pc[u] # "start" PROVE LineAlone(u)'
    BY DEF LineAlone, OfOneLine
  <2>1. line[u] \in Lines
    <3>1. line[u] = <<CartOf(u), job[u].variant>>
      BY DEF Edits, Aiming
    <3>2. job[u].variant \in Variants
      BY JobTypes DEF OfOneLine
    <3>. QED  BY <1>1, <3>1, <3>2 DEF Lines
  <2>2. LineAlone(u)
    BY DEF Edits
  <2>. QED  BY <2>1, <2>2 DEF LineAlone, OfOneLine
<1>6. alone[u] => EditsAlone(u)'
  <2>1. \A v \in Variants : <<CartOf(u), v>> \in Lines
    BY <1>1 DEF Lines
  <2>. QED  BY <1>1, <2>1 DEF Edits, EditsAlone, Cleared
<1>. QED  BY <1>2, <1>3, <1>4, <1>5, <1>6 DEF Edits

LEMMA LocalEdits ==
  ASSUME IInv, EInv, NEW w \in Workers, Local(w), Edits(w)'
  PROVE  EInv'
<1>1. ASSUME NEW u \in Workers \ {w} PROVE Edits(u)'
  BY LocalSame, FrameEdits DEF IInv, EInv, Local
<1>. QED  BY <1>1 DEF EInv

LEMMA LeaveEdits ==
  ASSUME IInv, EInv, NEW w \in Workers, Leave(w) PROVE EInv'
<1>. USE DEF Leave, End
<1>1. Edits(w)'
  BY DEF IInv, TypeOK, Edits
<1>2. ASSUME NEW u \in Workers \ {w} PROVE Edits(u)'
  <2>1. \A x \in Carts \cup Lines : lock'[x] = u <=> lock[x] = u
    BY NameAssumption DEF IInv, TypeOK
  <2>2. said'[u] = said[u]
    BY DEF IInv, Indexed
  <2>3. Same(u)
    BY <2>1, <2>2 DEF IInv, TypeOK, Same
  <2>. QED  BY <2>3, FrameEdits DEF IInv, EInv
<1>. QED  BY <1>1, <1>2 DEF EInv

LEMMA StartEdits ==
  ASSUME IInv, EInv, NEW w \in Workers, Start(w) PROVE EInv'
<1>. USE DEF Start, localVars
<1>1. pc'[w] = "start" /\ UNCHANGED <<rowVars, lock, seen, gone, target, alone>>
  BY DEF IInv, TypeOK
<1>2. Free(w)
  BY DEF IInv, WorkerOK
<1>3. Edits(w)'
  BY <1>1, <1>2 DEF Free, Edits, HoldsOwn, Aiming, CreatesAlone, LineAlone, EditsAlone
<1>4. ASSUME NEW u \in Workers \ {w} PROVE Edits(u)'
  BY FrameEdits DEF IInv, EInv, TypeOK, Same, rowVars
<1>. QED  BY <1>3, <1>4 DEF EInv

(* The steps of create_cart, and the binding of a cart. *)
LEMMA CreateEdits ==
  ASSUME IInv, EInv, NEW w \in Workers,
         \/ CreateFound(w) \/ CreateMissing(w) \/ CreateInsert(w)
         \/ CreateConflict(w) \/ CreateAgain(w) \/ Bind(w),
         ~Leave(w)
  PROVE  EInv'
<1>. USE DEF CreateFound, CreateMissing, CreateInsert, CreateConflict, CreateAgain,
             Bind, At, Goto
<1>1. /\ pc[w] \in {"start", "insert", "again", "bind"}
      /\ job[w].op \in {"create", "claim"}
      /\ UNCHANGED <<rowVars, job, alone, seen, gone, items, line, target>>
      /\ lock' = lock \/ Lock(w, CartOf(w))
  BY DEF localVars
<1>2. job[w] # NoJob /\ Serving(w) /\ TypeOK /\ Edits(w)
  BY <1>1 DEF IInv, EInv, WorkerOK, Free
<1>3. CartOf(w) \in Carts /\ CartOf(w) \notin Lines /\ CartOf(w)' = CartOf(w)
  BY <1>1, <1>2, JobTypes, RowAssumption DEF CartOf
<1>4. /\ \A l \in Lines : lock'[l] = lock[l]
      /\ Lock(w, CartOf(w)) => lock'[CartOf(w)] = w
  BY <1>1, <1>2, <1>3 DEF Lock, TypeOK
<1>5. Local(w)
  BY CreateIInv
<1>6. HoldsOwn(w)'
  BY <1>1, <1>2, <1>3, <1>4 DEF Edits, HoldsOwn, OfOneLine
<1>7. Aiming(w)'
  <2>1. job[w].op = "claim" => Bind(w)
    BY <1>1
  <2>2. Bind(w) => pc[w] = "bind" /\ lock'[CartOf(w)] = w
    BY <1>4
  <2>. QED  BY <1>1, <1>2, <1>3, <2>1, <2>2 DEF Edits, Aiming, OfOneLine, rowVars
<1>8. alone[w] => CreatesAlone(w)'
  <2>. SUFFICES ASSUME alone[w], job[w].op = "create" PROVE CreatesAlone(w)'
    BY <1>1 DEF CreatesAlone
  <2>1. Unclaimed(w)' <=> Unclaimed(w)
    BY <1>1, <1>3 DEF Unclaimed, rowVars
  <2>2. ~CreateAgain(w)
    BY <1>2 DEF Serving, Creating
  <2>3. CASE CreateInsert(w)
    BY <1>1, <1>2, <1>3, <1>4, <2>3 DEF CreatesAlone, TypeOK, rowVars
  <2>4. CASE Bind(w)
    BY <1>1, <1>2, <1>3, <1>4, <2>1, <2>4 DEF CreatesAlone, Edits, TypeOK, rowVars
  <2>5. CASE CreateFound(w) \/ CreateMissing(w) \/ CreateConflict(w)
    BY <1>1, <1>2, <1>3, <2>1, <2>5 DEF CreatesAlone, TypeOK, rowVars
  <2>. QED  BY <2>2, <2>3, <2>4, <2>5
<1>9. LineAlone(w)' /\ EditsAlone(w)'
  BY <1>1 DEF LineAlone, EditsAlone, OfOneLine
<1>10. Edits(w)'
  BY <1>1, <1>2, <1>6, <1>7, <1>8, <1>9 DEF Edits
<1>. QED  BY <1>5, <1>10, LocalEdits

(* A cart is loaded: what was seen of it is what is there. *)
LEMMA LoadEdits ==
  ASSUME IInv, EInv, NEW w \in Workers,
         ClaimLoad(w) \/ AddLoad(w) \/ UpdateLoad(w) \/ RemoveLoad(w) \/ ClearLoad(w)
  PROVE  EInv'
<1>. USE DEF ClaimLoad, AddLoad, UpdateLoad, RemoveLoad, ClearLoad, At, Goto
<1>1. /\ pc[w] = "start" /\ job[w].op \in {"claim", "add", "update", "remove", "clear"}
      /\ UNCHANGED <<rowVars, job, alone, lock, gone, target, said>> /\ Load(w)
  OBVIOUS
<1>2. job[w] # NoJob /\ Serving(w) /\ TypeOK /\ Edits(w) /\ Local(w)
  BY <1>1, LoadIInv DEF IInv, EInv, WorkerOK, Free
<1>3. CartOf(w) \in Carts /\ CartOf(w)' = CartOf(w)
  BY <1>1, <1>2, JobTypes DEF CartOf
<1>4. \A v \in Variants : <<CartOf(w), v>> \in Lines
  BY <1>3 DEF Lines
<1>5. /\ seen'[w] = [l \in Lines |-> IF l[1] = CartOf(w) THEN qty[l] ELSE 0]
      /\ items'[w] = [v \in Variants |-> qty[<<CartOf(w), v>>]]
      /\ state[CartOf(w)] = "active"
  BY <1>1, <1>2 DEF TypeOK, Load, Items
<1>6. \A l \in Lines : lock[l] # w
  BY <1>1, <1>2, NameAssumption DEF Serving, Holding
<1>7. /\ OfOneLine(w) => line'[w] = <<CartOf(w), job[w].variant>>
      /\ job[w].op \in {"update", "remove"} => qty[<<CartOf(w), job[w].variant>>] > 0
      /\ pc'[w] \in {"claim", "find", "update", "delete", "clear"}
      /\ job[w].op = "clear" => pc'[w] = "clear"
      /\ job[w].op = "claim" => pc'[w] = "claim"
  BY <1>1, <1>2 DEF TypeOK, OfOneLine
<1>8. HoldsOwn(w)'
  BY <1>1, <1>2, <1>6 DEF Edits, HoldsOwn
<1>9. Aiming(w)'
  BY <1>1, <1>3, <1>5, <1>7 DEF Aiming, OfOneLine, rowVars
<1>10. LineAlone(w)'
  <2>. SUFFICES ASSUME OfOneLine(w) PROVE LineAlone(w)'
    BY <1>1 DEF LineAlone, OfOneLine
  <2>1. line'[w] = <<CartOf(w), job[w].variant>> /\ line'[w] \in Lines /\ line'[w][1] = CartOf(w)
    BY <1>2, <1>4, <1>7, JobTypes DEF OfOneLine
  <2>2. seen'[w][line'[w]] = qty[line'[w]]
    BY <1>5, <2>1
  <2>. QED  BY <1>1, <1>7, <2>1, <2>2 DEF LineAlone, rowVars
<1>11. EditsAlone(w)' /\ CreatesAlone(w)'
  BY <1>1, <1>3, <1>4, <1>5, <1>6 DEF EditsAlone, Cleared, CreatesAlone, rowVars
<1>12. Edits(w)'
  BY <1>8, <1>9, <1>10, <1>11 DEF Edits
<1>. QED  BY <1>2, <1>12, LocalEdits

LEMMA LoopEdits ==
  ASSUME IInv, EInv, NEW w \in Workers,
         ClaimFind(w) \/ MergeNext(w) \/ ClearNext(w) \/ ClearDone(w) \/ MergeDone(w)
  PROVE  EInv'
<1>. USE DEF ClaimFind, MergeNext, ClearNext, ClearDone, MergeDone, At, Goto
<1>1. /\ pc[w] \in {"claim", "merge", "clear"} /\ job[w].op \in {"claim", "clear"}
      /\ UNCHANGED <<rowVars, job, alone, seen, gone, items>>
      /\ lock' = lock \/ Lock(w, CartOf(w))
      /\ lock' = lock \/ job[w].op = "claim"
  OBVIOUS
<1>2. job[w] # NoJob /\ Serving(w) /\ TypeOK /\ Edits(w) /\ Local(w)
  BY <1>1, LoopIInv DEF IInv, EInv, WorkerOK, Free
<1>3. CartOf(w) \in Carts /\ CartOf(w) \notin Lines /\ CartOf(w)' = CartOf(w)
  BY <1>1, <1>2, JobTypes, RowAssumption DEF CartOf
<1>4. /\ \A l \in Lines : lock'[l] = lock[l]
      /\ \A c \in Carts : lock'[c] = w => lock[c] = w \/ job[w].op = "claim"
  BY <1>1, <1>2, <1>3 DEF Lock, TypeOK
<1>5. /\ pc'[w] = "delete" => \E v \in Variants : line'[w] = <<CartOf(w), v>> /\ items[w][v] > 0
      /\ job[w].op = "claim" /\ pc'[w] = "written" => lock'[CartOf(w)] = w
      /\ job[w].op = "clear" /\ pc'[w] = "written" => Finished(w)
      /\ pc'[w] # "start"
  BY <1>2, <1>3 DEF TypeOK, Lock
<1>. HIDE DEF ClaimFind, MergeNext, ClearNext, ClearDone, MergeDone
<1>6. HoldsOwn(w)'
  BY <1>1, <1>2, <1>3, <1>4 DEF Edits, HoldsOwn, OfOneLine
<1>7. Aiming(w)'
  <2>1. pc[w] # "start"
    BY <1>1
  <2>2. job[w].op = "claim" => state[CartOf(w)] # "none"
    BY <1>2, <2>1 DEF Edits, Aiming
  <2>3. pc'[w] = "delete" => line'[w][1] = CartOf(w) /\ items[w][line'[w][2]] > 0
    BY <1>5
  <2>. QED  BY <1>1, <1>3, <1>5, <2>2, <2>3 DEF Aiming, OfOneLine, Finished, rowVars
<1>8. LineAlone(w)' /\ CreatesAlone(w)'
  BY <1>1 DEF LineAlone, CreatesAlone, OfOneLine
<1>9. alone[w] => EditsAlone(w)'
  <2>1. \A v \in Variants : <<CartOf(w), v>> \in Lines
    BY <1>3 DEF Lines
  <2>2. pc[w] # "start"
    BY <1>1
  <2>. QED  BY <1>1, <1>2, <1>3, <1>4, <2>1, <2>2 DEF Edits, EditsAlone, Cleared, rowVars
<1>10. Edits(w)'
  BY <1>1, <1>6, <1>7, <1>8, <1>9 DEF Edits
<1>. QED  BY <1>2, <1>10, LocalEdits

(* What is read of a line now is what is there now; while nothing else commits
   that is what was loaded. *)
LEMMA FindEdits ==
  ASSUME IInv, EInv, UInv, NEW w \in Workers, Find(w) PROVE EInv'
<1>. DEFINE l == line[w]
<1>1. /\ pc[w] = "find" /\ UNCHANGED <<rowVars, job, alone, lock, items, line, target, said>>
      /\ seen' = [seen EXCEPT ![w][l] = IF Known(w, l) THEN @ ELSE qty[l]]
      /\ pc' = [pc EXCEPT ![w] = IF qty[l] > 0 THEN "update" ELSE "append"]
  BY DEF Find, Goto
<1>2. job[w] # NoJob /\ Serving(w) /\ TypeOK /\ Edits(w) /\ Local(w) /\ MovesUnits(w)
  BY <1>1, FindIInv DEF IInv, EInv, UInv, WorkerOK, Free
<1>3. l \in Lines /\ job[w].op \in {"claim", "add"} /\ CartOf(w)' = CartOf(w)
  BY <1>1, <1>2 DEF Serving, Pointed, AtLine, InHandler, CartOf
<1>4. /\ \A k \in Lines \ {l} : seen'[w][k] = seen[w][k]
      /\ seen'[w][l] = IF Known(w, l) THEN seen[w][l] ELSE qty[l]
      /\ pc'[w] \in {"update", "append"}
  BY <1>1, <1>2, <1>3 DEF TypeOK
<1>5. lock[l] # w
  <2>1. job[w].op = "add" => lock[l] # w
    BY <1>1, <1>2, <1>3 DEF Edits, HoldsOwn, OfOneLine
  <2>2. job[w].op = "claim" => items[w][l[2]] > 0
    BY <1>1, <1>2 DEF Serving, Pointed, AtLine, InLoop
  <2>3. job[w].op = "claim" /\ lock[l] = w => items[w][l[2]] = 0
    BY <1>2, <1>3 DEF Edits, HoldsOwn
  <2>. QED  BY <1>3, <2>1, <2>2, <2>3
<1>6. HoldsOwn(w)'
  BY <1>1, <1>2, <1>3, <1>4, <1>5 DEF Edits, HoldsOwn, OfOneLine
<1>7. Aiming(w)'
  BY <1>1, <1>2, <1>3, <1>4 DEF Edits, Aiming, OfOneLine, rowVars
<1>8. alone[w] => LineAlone(w)'
  <2>. SUFFICES ASSUME alone[w], OfOneLine(w) PROVE LineAlone(w)'
    BY <1>1 DEF LineAlone, OfOneLine
  <2>1. job[w].op = "add" /\ seen[w][l] = qty[l]
    BY <1>1, <1>2, <1>3 DEF Edits, LineAlone, OfOneLine
  <2>. QED  BY <1>1, <1>4, <2>1 DEF LineAlone, rowVars
<1>9. alone[w] => EditsAlone(w)' /\ CreatesAlone(w)'
  <2>. SUFFICES ASSUME alone[w] PROVE EditsAlone(w)' /\ CreatesAlone(w)'
    OBVIOUS
  <2>1. EditsAlone(w)
    BY <1>2 DEF Edits
  <2>. QED  BY <1>1, <1>3, <1>4, <2>1 DEF EditsAlone, CreatesAlone, rowVars
<1>10. Edits(w)'
  BY <1>1, <1>6, <1>7, <1>8, <1>9 DEF Edits
<1>. QED  BY <1>2, <1>10, LocalEdits

(* A line is written: its row is locked, unless it holds already what is to be
   written, or is gone. *)
LEMMA LineEdits ==
  ASSUME IInv, EInv, UInv, NEW w \in Workers, LineUpdate(w) \/ LineInsert(w) \/ LineDelete(w)
  PROVE  EInv'
<1>. DEFINE l == line[w]
<1>1. /\ pc[w] \in {"update", "append", "delete"}
      /\ UNCHANGED <<rowVars, job, alone, gone, line, target>> /\ LineDone(w)
  BY DEF LineUpdate, LineInsert, LineDelete, LineDone, Goto
<1>2. job[w] # NoJob /\ Serving(w) /\ TypeOK /\ Edits(w) /\ Local(w) /\ MovesUnits(w)
  BY <1>1, LineIInv DEF IInv, EInv, UInv, WorkerOK, Free
<1>3. /\ l \in Lines /\ CartOf(w) \in Carts /\ CartOf(w)' = CartOf(w) /\ CartOf(w) \notin Lines
      /\ job[w].op \in {"claim", "add", "update", "remove", "clear"}
      /\ pc[w] = "delete" <=> job[w].op \in {"remove", "clear"}
      /\ job[w].op = "update" => pc[w] = "update"
      /\ l = <<l[1], l[2]>> /\ l[2] \in Variants
  <2>1. l \in Lines
    BY <1>1, <1>2 DEF Serving, Pointed, AtLine
  <2>2. l = <<l[1], l[2]>> /\ l[2] \in Variants
    BY <2>1 DEF Lines
  <2>. QED
    BY <1>1, <1>2, <2>1, <2>2, JobTypes, RowAssumption DEF Serving, InHandler, CartOf
<1>4. seen[w] \in [Lines -> 0..MaxInt] /\ qty[l] \in Nat /\ seen[w][l] \in Nat
  BY <1>2, <1>3, BoundAssumption DEF TypeOK
<1>5. /\ pc[w] = "delete" => seen'[w][l] = 0
      /\ pc[w] # "delete" => seen'[w][l] = NewQuantity(w)
      /\ \A k \in Lines \ {l} : seen'[w][k] = seen[w][k] \/ seen[w][k] = 0
  <2>1. CASE LineUpdate(w)
    <3>1. seen' = [seen EXCEPT ![w][l] = NewQuantity(w)] /\ pc[w] = "update"
      BY <2>1 DEF LineUpdate
    <3>. QED  BY <1>2, <1>3, <1>4, <3>1 DEF TypeOK
  <2>2. CASE LineInsert(w)
    <3>. DEFINE merged == [k \in Lines |->
                  IF k = l THEN NewQuantity(w)
                  ELSE IF k[1] = target[w] /\ seen[w][k] = 0 THEN qty[k]
                  ELSE seen[w][k]]
    <3>1. seen' = [seen EXCEPT ![w] = merged] /\ pc[w] = "append"
      BY <2>2, <1>2 DEF LineInsert, TypeOK
    <3>2. seen'[w] = merged
      BY <1>2, <3>1 DEF TypeOK
    <3>. QED  BY <1>3, <3>1, <3>2
  <2>3. CASE LineDelete(w)
    <3>1. seen' = [seen EXCEPT ![w][l] = 0] /\ pc[w] = "delete"
      BY <2>3 DEF LineDelete
    <3>. QED  BY <1>2, <1>3, <1>4, <3>1 DEF TypeOK
  <2>. QED  BY <2>1, <2>2, <2>3
<1>6. /\ Lock(w, l) \/ (lock' = lock /\ job[w].op # "claim")
      /\ Lock(w, l) \/ l \in gone[w]
           \/ (pc[w] = "update" /\ NewQuantity(w) = seen[w][l])
  <2>1. CASE LineUpdate(w)
    <3>1. \/ lock' = lock /\ NewQuantity(w) = seen[w][l] /\ pc[w] = "update"
          \/ Lock(w, l)
      BY <2>1 DEF LineUpdate
    <3>2. job[w].op = "claim" => NewQuantity(w) # seen[w][l]
      BY <1>4, <2>1, QuantityTypes DEF LineUpdate
    <3>. QED  BY <3>1, <3>2
  <2>2. CASE LineInsert(w)
    BY <2>2 DEF LineInsert
  <2>3. CASE LineDelete(w)
    BY <1>3, <2>3 DEF LineDelete, Matches
  <2>. QED  BY <2>1, <2>2, <2>3
<1>7. /\ \A x \in Carts \cup Lines : x # l => lock'[x] = lock[x]
      /\ Lock(w, l) => lock'[l] = w
      /\ lock' = lock \/ lock'[l] = w
  BY <1>2, <1>3, <1>6 DEF Lock, TypeOK
<1>8. \A c \in Carts : lock'[c] = lock[c]
  BY <1>3, <1>7, RowAssumption
<1>9. /\ Looping(w) => items'[w] = [items[w] EXCEPT ![l[2]] = 0]
      /\ ~Looping(w) => items'[w] = items[w]
      /\ pc'[w] = IF ~Looping(w) THEN "written"
                  ELSE IF job[w].op = "claim" THEN "merge" ELSE "clear"
  BY <1>1, <1>2 DEF LineDone, Goto, TypeOK
<1>10. OfOneLine(w) => /\ pc[w] # "written" /\ pc[w] # "start" /\ pc'[w] = "written"
                       /\ l = <<CartOf(w), job[w].variant>>
                       /\ \A k \in Lines : lock[k] # w
  BY <1>1, <1>2, <1>9 DEF Edits, Aiming, HoldsOwn, OfOneLine, Looping
<1>11. /\ job[w].op \in {"add", "update"} => job[w].amount \in Nat \ {0}
       /\ job[w].op = "add" => NewQuantity(w) = seen[w][l] + job[w].amount
       /\ job[w].op = "update" => NewQuantity(w) = job[w].amount
       /\ job[w].op = "claim" => NewQuantity(w) > 0 /\ items[w][l[2]] > 0
  BY <1>1, <1>2, <1>3, <1>4, QuantityTypes, JobTypes DEF NewQuantity, Amount
<1>12. HoldsOwn(w)'
  <2>. SUFFICES ASSUME NEW k \in Lines, lock'[k] = w
                PROVE  /\ OfOneLine(w) => k = l /\ pc'[w] = "written"
                       /\ job[w].op = "clear" => k[1] = CartOf(w)
                       /\ job[w].op = "claim" => seen'[w][k] > 0 /\ items'[w][k[2]] = 0
                       /\ job[w].op = "add" => seen'[w][k] >= job[w].amount
                       /\ job[w].op = "update" => seen'[w][k] = job[w].amount
    BY <1>1, <1>2, <1>3, <1>8 DEF Edits, HoldsOwn, OfOneLine
  <2>1. CASE k = l
    <3>1. job[w].op = "clear" => k[1] = CartOf(w)
      BY <1>1, <1>2, <1>3, <2>1 DEF Edits, Aiming
    <3>2. job[w].op = "claim" => items'[w][k[2]] = 0
      BY <1>2, <1>3, <1>9, <2>1 DEF Looping, TypeOK
    <3>. QED  BY <1>3, <1>4, <1>5, <1>10, <1>11, <2>1, <3>1, <3>2
  <2>2. CASE k # l
    <3>1. lock[k] = w
      BY <1>7, <2>2
    <3>2. ~OfOneLine(w)
      BY <1>10, <3>1
    <3>3. /\ job[w].op = "clear" => k[1] = CartOf(w)
          /\ job[w].op = "claim" => seen[w][k] > 0 /\ items[w][k[2]] = 0
      BY <1>2, <3>1 DEF Edits, HoldsOwn
    <3>4. job[w].op = "claim" => seen'[w][k] > 0
      BY <1>5, <2>2, <3>3
    <3>5. job[w].op = "claim" => items'[w][k[2]] = 0
      <4>1. k[2] \in Variants /\ items[w] \in [Variants -> 0..MaxInt]
        BY <1>2 DEF Lines, TypeOK
      <4>. QED  BY <1>3, <1>9, <3>3, <4>1 DEF Looping
    <3>. QED  BY <3>2, <3>3, <3>4, <3>5 DEF OfOneLine
  <2>. QED  BY <2>1, <2>2
<1>13. Aiming(w)'
  <2>1. job[w].op = "claim" => state[CartOf(w)] # "none"
    BY <1>1, <1>2 DEF Edits, Aiming
  <2>. QED  BY <1>1, <1>3, <1>9, <1>10, <2>1 DEF Aiming, OfOneLine, Looping, rowVars
<1>14. alone[w] => LineAlone(w)'
  <2>. SUFFICES ASSUME alone[w], OfOneLine(w) PROVE LineAlone(w)'
    BY <1>1 DEF LineAlone, OfOneLine
  <2>1. seen[w][l] = qty[l] /\ (job[w].op \in {"update", "remove"} => qty[l] > 0)
    BY <1>2, <1>10 DEF Edits, LineAlone
  <2>2. l \notin gone[w]
    BY <1>2 DEF MovesUnits, Certain
  <2>3. /\ job[w].op = "add" => seen'[w][l] = qty[l] + job[w].amount /\ lock'[l] = w
        /\ job[w].op = "remove" => lock'[l] = w
        /\ job[w].op = "update" => lock'[l] = w \/ qty[l] = job[w].amount
    BY <1>3, <1>4, <1>5, <1>6, <1>7, <1>11, <2>1, <2>2
  <2>. QED  BY <1>1, <1>10, <2>1, <2>3 DEF LineAlone, rowVars
<1>15. alone[w] => EditsAlone(w)'
  <2>. SUFFICES ASSUME alone[w], job[w].op # "claim" PROVE EditsAlone(w)'
    BY <1>1 DEF EditsAlone
  <2>1. state[CartOf(w)] = "active"
    BY <1>1, <1>2, <1>3 DEF Edits, EditsAlone
  <2>2. ASSUME job[w].op = "clear", NEW v \in Variants PROVE Cleared(w, v)'
    <3>. DEFINE k == <<CartOf(w), v>>
    <3>1. Cleared(w, v) /\ l[1] = CartOf(w) /\ pc[w] = "delete" /\ k \in Lines
      BY <1>1, <1>2, <1>3, <2>2 DEF Edits, EditsAlone, Aiming, Lines
    <3>2. lock'[l] = w
      BY <1>2, <1>6, <1>7, <3>1 DEF MovesUnits, Certain
    <3>3. items'[w][v] = IF v = l[2] THEN 0 ELSE items[w][v]
      BY <1>2, <1>3, <1>9, <2>2 DEF Looping, TypeOK
    <3>4. CASE v = l[2]
      <4>1. k = l
        BY <1>3, <3>1, <3>4
      <4>. QED  BY <1>3, <3>2, <3>3, <3>4, <4>1 DEF Cleared
    <3>5. CASE v # l[2]
      <4>1. lock'[k] = lock[k]
        BY <1>3, <1>7, <3>1, <3>5
      <4>. QED  BY <1>1, <1>3, <3>1, <3>3, <3>5, <4>1 DEF Cleared, rowVars
    <3>. QED  BY <3>4, <3>5
  <2>. QED  BY <1>1, <1>3, <2>1, <2>2 DEF EditsAlone, rowVars
<1>16. CreatesAlone(w)'
  BY <1>1, <1>3 DEF CreatesAlone
<1>17. Edits(w)'
  BY <1>1, <1>12, <1>13, <1>14, <1>15, <1>16 DEF Edits
<1>. QED  BY <1>2, <1>17, LocalEdits

(* A commit that wrote anything leaves nobody alone; what others hold it did
   not write, and no cart loses its row. *)
LEMMA CommitEdits ==
  ASSUME IInv, EInv, NEW w \in Workers, Commit(w) PROVE EInv'
<1>1. Edits(w)'
  BY DEF IInv, TypeOK, Commit, End, Edits
<1>2. ASSUME NEW u \in Workers \ {w} PROVE Edits(u)'
  <2>1. \A x \in Carts \cup Lines : lock'[x] = u <=> lock[x] = u
    BY NameAssumption DEF IInv, TypeOK, Commit, End
  <2>2. /\ pc'[u] = pc[u] /\ job'[u] = job[u] /\ seen'[u] = seen[u] /\ items'[u] = items[u]
        /\ line'[u] = line[u] /\ target'[u] = target[u]
    BY DEF IInv, TypeOK, Commit, End
  <2>. SUFFICES ASSUME job[u] # NoJob PROVE Edits(u)'
    BY <2>2 DEF Edits
  <2>3. alone'[u] => alone[u] /\ \A x \in Carts \cup Lines : lock[x] # w
    BY DEF IInv, TypeOK, Commit, Wrote
  <2>4. Edits(u) /\ CartOf(u)' = CartOf(u) /\ CartOf(u) \in Carts
    BY <2>2, JobTypes DEF EInv, IInv, CartOf
  <2>5. state[CartOf(u)] # "none" => state'[CartOf(u)] # "none"
    BY <2>4, CommitEffect
  <2>6. HoldsOwn(u)'
    BY <2>1, <2>2, <2>4 DEF Edits, HoldsOwn, OfOneLine
  <2>7. Aiming(u)'
    BY <2>1, <2>2, <2>4, <2>5 DEF Edits, Aiming, OfOneLine, Finished
  <2>8. alone'[u] => /\ state'[CartOf(u)] = state[CartOf(u)] /\ owner'[CartOf(u)] = owner[CartOf(u)]
                     /\ \A l \in Lines : qty'[l] = qty[l]
    BY <2>3, <2>4, CommitEffect
  <2>9. alone'[u] => CreatesAlone(u)'
    BY <2>1, <2>2, <2>3, <2>4, <2>8 DEF Edits, CreatesAlone, Unclaimed
  <2>10. alone'[u] => LineAlone(u)'
    <3>. SUFFICES ASSUME alone'[u], OfOneLine(u), pc[u] # "start" PROVE LineAlone(u)'
      BY <2>2 DEF LineAlone, OfOneLine
    <3>1. line[u] = <<CartOf(u), job[u].variant>>
      BY <2>4 DEF Edits, Aiming
    <3>2. line[u] \in Lines
      BY <2>4, <3>1, JobTypes DEF Lines, OfOneLine, IInv
    <3>3. LineAlone(u)
      BY <2>3, <2>4 DEF Edits
    <3>. QED  BY <2>1, <2>2, <2>8, <3>2, <3>3 DEF LineAlone, OfOneLine
  <2>11. alone'[u] => EditsAlone(u)'
    <3>1. \A v \in Variants : <<CartOf(u), v>> \in Lines
      BY <2>4 DEF Lines
    <3>. QED  BY <2>1, <2>2, <2>3, <2>4, <2>8, <3>1 DEF Edits, EditsAlone, Cleared
  <2>. QED  BY <2>6, <2>7, <2>9, <2>10, <2>11 DEF Edits
<1>. QED  BY <1>1, <1>2 DEF EInv

LEMMA NextEdits == IInv /\ UInv /\ EInv /\ [Next]_vars => EInv'
<1>. SUFFICES ASSUME IInv, UInv, EInv, [Next]_vars PROVE EInv'
  OBVIOUS
<1>1. ASSUME NEW w \in Workers, Start(w) \/ Handle(w) \/ Abort(w) PROVE EInv'
  BY <1>1, Steps, LeaveEdits, StartEdits, CommitEdits, CreateEdits, LoadEdits, LoopEdits,
     FindEdits, LineEdits
<1>2. CASE UNCHANGED vars
  <2>1. UNCHANGED rowVars
    BY <1>2 DEF vars, rowVars
  <2>2. ASSUME NEW u \in Workers PROVE Same(u)
    BY <1>2 DEF vars, localVars, Same
  <2>. QED  BY <2>1, <2>2, FrameEdits DEF IInv, EInv
<1>. QED  BY <1>1, <1>2 DEF Next

THEOREM EditsInductive == Spec => []EInv
<1>1. Init => EInv
  BY DEF Init, EInv, Edits
<1>. QED  BY <1>1, NextEdits, Inductive, UnitsInductive, PTL DEF Spec

-----------------------------------------------------------------------------
(* The refinement: a commit is the one step in which a request takes effect. *)
LEMMA CommitRows ==
  ASSUME IInv, NEW w \in Workers, Commit(w)
  PROVE  /\ lock[CartOf(w)] # w => UNCHANGED <<state, owner>>
         /\ lock[CartOf(w)] = w /\ target[w] = NoCart =>
              /\ state' = [state EXCEPT ![CartOf(w)] = IF @ = "none" THEN "active" ELSE @]
              /\ owner' = [owner EXCEPT ![CartOf(w)] = job[w].customer]
         /\ lock[CartOf(w)] = w /\ target[w] # NoCart =>
              state' = [state EXCEPT ![CartOf(w)] = "deleted"] /\ owner' = owner
         /\ qty' = [l \in Lines |-> IF lock[l] = w THEN seen[w][l] ELSE qty[l]]
         /\ (\A l \in Lines : lock[l] # w) => qty' = qty
<1>1. /\ lock[CartOf(w)] # w => UNCHANGED <<state, owner>>
      /\ lock[CartOf(w)] = w /\ target[w] = NoCart =>
           /\ state' = [state EXCEPT ![CartOf(w)] = IF @ = "none" THEN "active" ELSE @]
           /\ owner' = [owner EXCEPT ![CartOf(w)] = job[w].customer]
      /\ lock[CartOf(w)] = w /\ target[w] # NoCart =>
           state' = [state EXCEPT ![CartOf(w)] = "deleted"] /\ owner' = owner
  BY DEF Commit, InstallCart, Wrote
<1>2. qty' = [l \in Lines |-> IF lock[l] = w THEN seen[w][l] ELSE qty[l]]
  BY DEF Commit, InstallLines, Wrote
<1>3. (\A l \in Lines : lock[l] # w) => qty' = qty
  BY <1>2 DEF IInv, TypeOK
<1>. QED  BY <1>1, <1>2, <1>3

(* A request that nothing else was committed into is one operation. *)
LEMMA AlonePerforms ==
  ASSUME IInv, UInv, EInv, NEW w \in Workers, Commit(w), alone[w]
  PROVE  Account!Perform(w)
<1>1. /\ job[w] # NoJob /\ pc[w] = "written" /\ Serving(w) /\ Edits(w) /\ MovesUnits(w)
      /\ TypeOK /\ CartOf(w) \in Carts /\ state[CartOf(w)] \in {"none", "active", "deleted"}
  BY CommitEffect DEF IInv, UInv, EInv, TypeOK
<1>2. Account!Cart(w) = CartOf(w) /\ Account!Lines = Lines
      /\ Account!Line(w) = <<CartOf(w), job[w].variant>>
  BY DEF Account!Cart, Account!Lines, Account!Line, CartOf, Lines
<1>3. CASE job[w].op = "create"
  <2>1. target[w] = NoCart /\ \A l \in Lines : lock[l] # w
    BY <1>1, <1>3 DEF Serving, Pointed, InLoop, Holding
  <2>2. /\ lock[CartOf(w)] = w
        /\ \/ state[CartOf(w)] = "none"
           \/ state[CartOf(w)] = "active" /\ Unclaimed(w)
    BY <1>1, <1>3 DEF Edits, CreatesAlone
  <2>3. /\ owner' = [owner EXCEPT ![CartOf(w)] = job[w].customer] /\ qty' = qty
        /\ state' = [state EXCEPT ![CartOf(w)] = IF @ = "none" THEN "active" ELSE @]
    BY <2>1, <2>2, CommitRows
  <2>4. state[CartOf(w)] = "active" => state' = state
    BY <1>1, <2>3 DEF TypeOK
  <2>5. Account!Create(w)
    BY <1>2, <1>3, <2>2, <2>3, <2>4 DEF Account!Create, Unclaimed
  <2>. QED  BY <2>5 DEF Account!Perform
<1>4. CASE job[w].op = "claim"
  <2>. DEFINE found == CartsOf(job[w].customer)
  <2>1. /\ state[CartOf(w)] = "active" /\ owner[CartOf(w)] # job[w].customer
        /\ lock[CartOf(w)] = w
        /\ target[w] # NoCart => found = {target[w]}
        /\ target[w] = NoCart => found = {}
    BY <1>1, <1>4 DEF Serving, Claiming
  <2>2. Account!Claimable(w) /\ Account!CartsOf(job[w].customer) = found
    BY <1>2, <1>4, <2>1 DEF Account!Claimable, Account!CartsOf, CartsOf
  <2>3. \A l \in Lines : lock[l] = w => l[1] = target[w]
    BY <1>1, <1>4 DEF MovesUnits, HoldsTarget
  <2>4. CASE target[w] = NoCart
    <3>1. \A l \in Lines : lock[l] # w
      BY <2>3, <2>4, NameAssumption DEF Lines
    <3>2. owner' = [owner EXCEPT ![CartOf(w)] = job[w].customer] /\ qty' = qty
          /\ state' = [state EXCEPT ![CartOf(w)] = IF @ = "none" THEN "active" ELSE @]
      BY <2>1, <2>4, <3>1, CommitRows
    <3>3. state' = state
      BY <1>1, <2>1, <3>2 DEF TypeOK
    <3>4. Account!Bind(w)
      BY <1>2, <2>1, <2>2, <2>4, <3>2, <3>3 DEF Account!Bind
    <3>. QED  BY <3>4 DEF Account!Perform
  <2>5. CASE target[w] # NoCart
    <3>. DEFINE d == target[w]
    <3>1. d \in Carts /\ found = {d}
      BY <1>1, <2>1, <2>5 DEF TypeOK
    <3>2. state' = [state EXCEPT ![CartOf(w)] = "deleted"] /\ owner' = owner
          /\ qty' = [l \in Lines |-> IF lock[l] = w THEN seen[w][l] ELSE qty[l]]
      BY <2>1, <2>5, CommitRows
    <3>3. ASSUME NEW l \in Lines
          PROVE  (IF lock[l] = w THEN seen[w][l] ELSE qty[l]) =
                 IF l[1] = d THEN qty[l] + qty[<<CartOf(w), l[2]>>] ELSE qty[l]
      <4>1. CASE l[1] # d
        BY <2>3, <4>1
      <4>2. CASE l[1] = d
        <5>1. l = <<d, l[2]>> /\ l[2] \in Variants /\ <<CartOf(w), l[2]>> \in Lines
          BY <1>1, <4>2 DEF Lines
        <5>2. Moving(w, l[2]) /\ items[w][l[2]] = 0
          BY <1>1, <1>4, <2>5, <5>1
             DEF MovesUnits, Merging, Serving, Pointed, InLoop, Finished
        <5>3. Moved(w, l[2]) <=> lock[l] = w
          BY <5>1 DEF Moved
        <5>4. qty[l] \in Nat
          BY <1>1, BoundAssumption DEF TypeOK
        <5>. QED  BY <4>2, <5>1, <5>2, <5>3, <5>4 DEF Moving
      <4>. QED  BY <4>1, <4>2
    <3>4. qty' = [l \in Lines |-> IF l[1] = d THEN qty[l] + qty[<<CartOf(w), l[2]>>] ELSE qty[l]]
      BY <3>2, <3>3
    <3>5. Account!Merge(w)
      BY <1>2, <2>2, <3>1, <3>2, <3>4 DEF Account!Merge
    <3>. QED  BY <3>5 DEF Account!Perform
  <2>. QED  BY <2>4, <2>5
<1>5. CASE job[w].op \in {"add", "update", "remove", "clear"}
  <2>. DEFINE l == line[w]
  <2>1. lock[CartOf(w)] # w /\ state[CartOf(w)] = "active"
    BY <1>1, <1>5 DEF Edits, HoldsOwn, EditsAlone
  <2>2. UNCHANGED <<state, owner>>
        /\ qty' = [k \in Lines |-> IF lock[k] = w THEN seen[w][k] ELSE qty[k]]
    BY <2>1, CommitRows
  <2>3. CASE job[w].op = "clear"
    <3>1. ASSUME NEW k \in Lines
          PROVE  (IF lock[k] = w THEN seen[w][k] ELSE qty[k]) =
                 IF k[1] = CartOf(w) THEN 0 ELSE qty[k]
      <4>1. lock[k] = w => k[1] = CartOf(w) /\ seen[w][k] = 0
        BY <1>1, <2>3 DEF Edits, HoldsOwn, Serving, Holding
      <4>2. k[1] = CartOf(w) => lock[k] = w \/ qty[k] = 0
        <5>1. k = <<k[1], k[2]>> /\ k[2] \in Variants
          BY DEF Lines
        <5>2. Cleared(w, k[2])
          BY <1>1, <2>3, <5>1 DEF Edits, EditsAlone
        <5>3. items[w][k[2]] = 0
          BY <1>1, <2>3, <5>1 DEF Edits, Aiming, Finished
        <5>. QED  BY <5>1, <5>2, <5>3 DEF Cleared
      <4>. QED  BY <4>1, <4>2
    <3>2. qty' = [k \in Lines |-> IF k[1] = CartOf(w) THEN 0 ELSE qty[k]]
      BY <2>2, <3>1
    <3>3. Account!Edit(w)
      BY <1>2, <2>1, <2>2, <2>3, <3>2 DEF Account!Edit
    <3>. QED  BY <3>3 DEF Account!Perform
  <2>4. CASE OfOneLine(w)
    <3>1. l = <<CartOf(w), job[w].variant>> /\ l \in Lines
      <4>1. l = <<CartOf(w), job[w].variant>>
        BY <1>1, <2>4 DEF Edits, Aiming
      <4>2. job[w].variant \in Variants
        BY <1>1, <2>4, JobTypes DEF OfOneLine
      <4>. QED  BY <1>1, <4>1, <4>2 DEF Lines
    <3>2. \A k \in Lines : lock[k] = w => k = l
      BY <1>1, <2>4 DEF Edits, HoldsOwn
    <3>3. qty' = [qty EXCEPT ![l] = IF lock[l] = w THEN seen[w][l] ELSE qty[l]]
      BY <1>1, <2>2, <3>1, <3>2 DEF TypeOK
    <3>4. /\ job[w].op \in {"update", "remove"} => qty[l] > 0
          /\ job[w].op = "add" => seen[w][l] = qty[l] + job[w].amount
          /\ job[w].op \in {"add", "remove"} => lock[l] = w
          /\ job[w].op = "update" => lock[l] = w \/ qty[l] = job[w].amount
      BY <1>1, <2>4 DEF Edits, LineAlone
    <3>5. /\ job[w].op = "update" /\ lock[l] = w => seen[w][l] = job[w].amount
          /\ job[w].op = "remove" /\ lock[l] = w => seen[w][l] = 0
      BY <1>1, <3>1 DEF Edits, HoldsOwn, Serving, Holding
    <3>6. qty' = [qty EXCEPT ![l] = IF job[w].op = "add" THEN qty[l] + job[w].amount
                                    ELSE IF job[w].op = "update" THEN job[w].amount ELSE 0]
      BY <2>4, <3>3, <3>4, <3>5 DEF OfOneLine
    <3>7. Account!Edit(w)
      BY <1>2, <2>1, <2>2, <2>4, <3>1, <3>4, <3>6 DEF Account!Edit, OfOneLine
    <3>. QED  BY <3>7 DEF Account!Perform
  <2>. QED  BY <1>5, <2>3, <2>4 DEF OfOneLine
<1>. QED  BY <1>1, <1>3, <1>4, <1>5 DEF Serving, InHandler

(* One that was disturbed still writes only what requests of its kind write. *)
LEMMA LatePerforms ==
  ASSUME IInv, UInv, EInv, NEW w \in Workers, Commit(w)
  PROVE  Account!PerformLate(w)
<1>1. /\ job[w] # NoJob /\ pc[w] = "written" /\ Serving(w) /\ Edits(w) /\ MovesUnits(w)
      /\ TypeOK /\ CartOf(w) \in Carts
  BY CommitEffect DEF IInv, UInv, EInv
<1>2. Account!Cart(w) = CartOf(w) /\ Account!Lines = Lines
      /\ Account!Line(w) = <<CartOf(w), job[w].variant>>
  BY DEF Account!Cart, Account!Lines, Account!Line, CartOf, Lines
<1>3. \A l \in Lines : qty'[l] # qty[l] => lock[l] = w /\ qty'[l] = seen[w][l]
  BY CommitEffect
<1>4. CASE job[w].op = "create" \/ (job[w].op = "claim" /\ target[w] = NoCart)
  <2>1. \A l \in Lines : lock[l] # w
    BY <1>1, <1>4, NameAssumption DEF Serving, Holding, MovesUnits, HoldsTarget, Lines
  <2>2. target[w] = NoCart
    BY <1>1, <1>4 DEF Serving, Pointed, InLoop
  <2>3. CASE lock[CartOf(w)] = w
    <3>1. owner' = [owner EXCEPT ![CartOf(w)] = job[w].customer] /\ qty' = qty
          /\ state' = [state EXCEPT ![CartOf(w)] = IF @ = "none" THEN "active" ELSE @]
      BY <2>1, <2>2, <2>3, CommitRows
    <3>2. job[w].op = "claim" => state[CartOf(w)] # "none"
      BY <1>1 DEF Edits, Aiming
    <3>3. job[w].op = "claim" => state' = state
      BY <1>1, <3>1, <3>2 DEF TypeOK
    <3>4. Account!BindLate(w)
      BY <1>2, <1>4, <3>1, <3>3 DEF Account!BindLate
    <3>. QED  BY <3>4 DEF Account!PerformLate
  <2>4. CASE lock[CartOf(w)] # w
    <3>1. UNCHANGED <<state, owner, qty>>
      BY <2>1, <2>4, CommitRows
    <3>. QED  BY <3>1 DEF Account!PerformLate, Account!rows
  <2>. QED  BY <2>3, <2>4
<1>5. CASE job[w].op = "claim" /\ target[w] # NoCart
  <2>1. lock[CartOf(w)] = w /\ target[w] \in Carts
    BY <1>1, <1>5 DEF Edits, Aiming, TypeOK
  <2>2. state' = [state EXCEPT ![CartOf(w)] = "deleted"] /\ owner' = owner
    BY <1>5, <2>1, CommitRows
  <2>3. \A l \in Lines : lock[l] = w => l[1] = target[w] /\ seen[w][l] > 0
    BY <1>1, <1>5 DEF MovesUnits, HoldsTarget, Edits, HoldsOwn
  <2>4. \A l \in Lines : Account!Changes(l) => l[1] = target[w] /\ qty'[l] > 0
    BY <1>3, <2>3 DEF Account!Changes
  <2>5. Account!MergeLate(w)
    BY <1>2, <1>5, <2>1, <2>2, <2>4 DEF Account!MergeLate
  <2>. QED  BY <2>5 DEF Account!PerformLate
<1>6. CASE job[w].op \in {"add", "update", "remove", "clear"}
  <2>1. lock[CartOf(w)] # w
    BY <1>1, <1>6 DEF Edits, HoldsOwn
  <2>2. UNCHANGED <<state, owner>>
    BY <2>1, CommitRows
  <2>3. ASSUME NEW l \in Lines, qty'[l] # qty[l]
        PROVE  /\ IF job[w].op = "clear" THEN l[1] = CartOf(w)
                  ELSE l = <<CartOf(w), job[w].variant>>
               /\ job[w].op = "add" => qty'[l] >= job[w].amount
               /\ job[w].op = "update" => qty[l] > 0 /\ qty'[l] = job[w].amount
               /\ job[w].op \in {"remove", "clear"} => qty'[l] = 0
    <3>1. lock[l] = w /\ qty'[l] = seen[w][l]
      BY <1>3, <2>3
    <3>2. /\ job[w].op = "clear" => l[1] = CartOf(w)
          /\ OfOneLine(w) => l = line[w] /\ line[w] = <<CartOf(w), job[w].variant>>
          /\ job[w].op = "add" => seen[w][l] >= job[w].amount
          /\ job[w].op = "update" => seen[w][l] = job[w].amount
      BY <1>1, <3>1 DEF Edits, HoldsOwn, Aiming
    <3>3. /\ job[w].op = "update" => qty[l] > 0
          /\ job[w].op \in {"remove", "clear"} => seen[w][l] = 0
      BY <1>1, <3>1 DEF Serving, Holding
    <3>. QED  BY <1>6, <3>1, <3>2, <3>3 DEF OfOneLine
  <2>4. Account!EditLate(w)
    BY <1>2, <1>6, <2>2, <2>3 DEF Account!EditLate, Account!Changes
  <2>. QED  BY <2>4 DEF Account!PerformLate
<1>. QED  BY <1>1, <1>4, <1>5, <1>6 DEF Serving, InHandler

LEMMA CommitServes ==
  ASSUME IInv, IInv', UInv, EInv, NEW w \in Workers, Commit(w)
  PROVE  Account!Serve(w)
<1>1. job[w] # NoJob /\ CartOf(w) \in Carts
  BY CommitEffect
<1>2. IF alone[w] THEN Account!Perform(w) ELSE Account!PerformLate(w)
  BY AlonePerforms, LatePerforms
<1>3. qty' \in [Account!Lines -> 0..MaxInt] /\ job' = [job EXCEPT ![w] = NoJob]
  BY DEF IInv, TypeOK, Lines, Account!Lines, Commit, End
<1>4. \E wrote \in BOOLEAN :
        /\ wrote \/ UNCHANGED Account!rows
        /\ alone' = [v \in Workers |-> v = w \/ job[v] = NoJob \/ (alone[v] /\ ~wrote)]
  <2>1. CASE \E x \in Carts \cup Lines : lock[x] = w
    <3>1. alone' = [v \in Workers |-> v = w \/ job[v] = NoJob \/ (alone[v] /\ ~TRUE)]
      BY <2>1 DEF IInv, TypeOK, Commit, Wrote
    <3>. QED  BY <3>1
  <2>2. CASE \A x \in Carts \cup Lines : lock[x] # w
    <3>1. alone' = [v \in Workers |-> v = w \/ job[v] = NoJob \/ (alone[v] /\ ~FALSE)]
      BY <2>2 DEF IInv, TypeOK, Commit, Wrote
    <3>2. UNCHANGED Account!rows
      BY <1>1, <2>2, CommitRows DEF Account!rows
    <3>. QED  BY <3>1, <3>2
  <2>. QED  BY <2>1, <2>2
<1>. QED  BY <1>1, <1>2, <1>3, <1>4 DEF Account!Serve

(* Only a request that is served is handled. *)
LEMMA HandledIsServed ==
  ASSUME IInv, NEW w \in Workers, Handle(w) \/ Abort(w)
  PROVE  job[w] # NoJob
<1>. SUFFICES ASSUME pc[w] = "idle", ~Abort(w) PROVE FALSE
  BY DEF IInv, WorkerOK, Free, Abort
<1>1. ~NotFound(w) /\ ~Create(w)
  BY DEF NotFound, Create, At, CreateFound, CreateMissing, CreateInsert, CreateConflict,
         CreateAgain, CreateLost
<1>2. ~Claim(w)
  BY DEF Claim, At, ClaimLoad, ClaimAgain, ClaimFind, ClaimMany, Bind, MergeNext, MergeDone
<1>3. ~Edit(w)
  BY DEF Edit, At, AddLoad, UpdateLoad, RemoveLoad, ItemNotFound, ClearLoad, ClearNext, ClearDone
<1>4. ~Write(w) /\ ~Commit(w)
  BY DEF Write, At, Find, Unavailable, LineUpdate, LineStale, LineOverflow, LineInsert,
         LineConflict, LineDelete, Commit
<1>5. ~DeadlockVictim(w)
  <2>1. Wanted(w) = {}
    BY DEF Wanted
  <2>. QED  BY <2>1 DEF DeadlockVictim
<1>. QED  BY <1>1, <1>2, <1>3, <1>4, <1>5 DEF Handle

LEMMA StepImplements ==
  ASSUME IInv, IInv', UInv, EInv, [Next]_vars
  PROVE  [Account!Next]_(Account!accountVars)
<1>1. ASSUME NEW w \in Workers, Start(w) PROVE Account!Submit(w)
  BY <1>1 DEF Start, Account!Submit, Account!rows, rowVars
<1>2. ASSUME NEW w \in Workers, Leave(w), job[w] # NoJob PROVE Account!Decline(w)
  BY <1>2 DEF Leave, End, Account!Decline, Account!rows, rowVars
<1>3. ASSUME NEW w \in Workers, Start(w) \/ Handle(w) \/ Abort(w)
      PROVE  Start(w) \/ job[w] # NoJob
  BY <1>3, HandledIsServed
<1>4. ASSUME NEW w \in Workers, Start(w) \/ Handle(w) \/ Abort(w),
             ~Leave(w), ~Start(w), ~Commit(w)
      PROVE  UNCHANGED Account!accountVars
  <2>1. Local(w)
    BY <1>4, Steps, CreateIInv, LoadIInv, LoopIInv, FindIInv, LineIInv
  <2>. QED  BY <2>1 DEF Local, Account!accountVars, rowVars
<1>5. CASE UNCHANGED vars
  BY <1>5 DEF vars, Account!accountVars
<1>. QED  BY <1>1, <1>2, <1>3, <1>4, <1>5, CommitServes DEF Next, Account!Next

(* The handlers of CartService, with whatever is interleaved between their
   statements, do what the account says: a request that nothing else committed
   into is one operation on the carts. *)
THEOREM HandlersImplementAccount == Spec => ImplementsAccount
<1>1. Init => Account!Init
  BY DEF Init, Account!Init, NotSeen, Lines, Account!Lines
<1>2. IInv /\ IInv' /\ UInv /\ EInv /\ [Next]_vars => [Account!Next]_(Account!accountVars)
  BY StepImplements
<1>. QED  BY <1>1, <1>2, Inductive, UnitsInductive, EditsInductive, PTL
          DEF ImplementsAccount, Account!Spec, Spec
=============================================================================
