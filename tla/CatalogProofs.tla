---------------------------- MODULE CatalogProofs -----------------------------
(***************************************************************************)
(* Proofs about Catalog, for any finite set of categories, and any keys,   *)
(* definitions, requests and sellers.                                      *)
(*                                                                         *)
(* First the types and the foreign keys: a row that another row refers to, *)
(* or that a walk has reached, is there, deleted or not.                   *)
(*                                                                         *)
(* Then what a walk collects.  A request that nothing interfered with has  *)
(* a history: the path f its walk took, of which the rows still admit      *)
(* every step.  When the walk ends, that path met no category twice, so    *)
(* that it is no longer than there are categories and is the ancestry of   *)
(* the reference; and what was collected on the way is nearest along it.   *)
(***************************************************************************)
EXTENDS Catalog, FiniteSetTheorems, TLAPS

Statuses == {"absent", "live", "deleted"}
Links == Categories \cup {None}

Typed ==
  /\ category \in [Categories -> [status : Statuses, parent : Links]]
  /\ attribute \in [Categories -> [Keys -> Definitions \cup {Removed, None}]]
  /\ product \in [status : Statuses, category : Links]
  /\ variant \in [status : Statuses, attributes : Sent \cup {Empty}]
  /\ job \in [Sellers -> Requests \cup {None}]
  /\ pc \in [Sellers -> {"idle", "load", "resolve", "collect", "climb", "check", "write"}]
  /\ current \in [Sellers -> Links]
  /\ schema \in [Sellers -> [Keys -> Definitions \cup {None}]]
  /\ held \in [Sellers -> BOOLEAN]

(* The foreign keys. *)
References ==
  /\ \A c \in Categories : /\ Refers(category[c].parent)
                           /\ attribute[c] # Empty => Exists(category[c])
  /\ Refers(product.category)
  /\ Exists(variant) => Exists(product)

(* A walk stands at a category; what is created belongs to a product, and what
   is changed was there. *)
Grounded(op) == IF op = "create" THEN Exists(product) ELSE Exists(variant)

Walking(s) ==
  /\ pc[s] = "idle" <=> job[s] = None
  /\ Refers(current[s])
  /\ pc[s] \in {"collect", "climb"} => current[s] # None
  /\ job[s] # None /\ pc[s] # "load" => Grounded(job[s].op)

IInv == Typed /\ References /\ \A s \in Sellers : Walking(s)

-----------------------------------------------------------------------------
LEMMA InitIInv == Init => IInv
<1>. SUFFICES ASSUME Init PROVE IInv
  OBVIOUS
<1>1. Typed
  BY DEF Init, Typed, NoCategory, NoProduct, NoVariant, Empty, Statuses, Links
<1>2. References
  BY DEF Init, References, Refers, Exists, NoCategory, NoProduct, NoVariant
<1>3. ASSUME NEW s \in Sellers PROVE Walking(s)
  BY DEF Init, Walking, Refers
<1>. QED  BY <1>1, <1>2, <1>3 DEF IInv

(* What is referred to stays there while rows are only added, changed and
   soft-deleted. *)
LEMMA StillThere ==
  ASSUME IInv, NEW s \in Sellers,
         \A c \in Categories : Exists(category[c]) => Exists(category[c])',
         Exists(product) => Exists(product)', Exists(variant) => Exists(variant)',
         pc'[s] = pc[s], job'[s] = job[s], current'[s] = current[s]
  PROVE  Walking(s)'
<1>1. current[s] \in Links /\ Walking(s)
  BY DEF IInv, Typed
<1>2. Refers(current[s])'
  BY <1>1 DEF Walking, Refers, Links
<1>. QED  BY <1>1, <1>2 DEF Walking, Grounded

(* The rows an administrator may leave behind. *)
Rows ==
  /\ category \in [Categories -> [status : Statuses, parent : Links]]
  /\ attribute \in [Categories -> [Keys -> Definitions \cup {Removed, None}]]
  /\ product \in [status : Statuses, category : Links]

Grown ==
  /\ \A c \in Categories : Exists(category[c]) => Exists(category[c])'
  /\ Exists(product) => Exists(product)'

LEMMA CategoryRows ==
  ASSUME IInv, NEW c \in Categories, CategoryCreate(c) \/ CategoryUpdate(c) \/ CategoryDelete(c)
  PROVE  Rows' /\ Grown /\ References'
<1>1. UNCHANGED <<attribute, product, variant>>
  BY DEF CategoryCreate, CategoryUpdate, CategoryDelete, Committed
<1>2. category[c] \in [status : Statuses, parent : Links] /\ Refers(category[c].parent)
  BY DEF IInv, Typed, References
<1>3. PICK r \in [status : {"live", "deleted"}, parent : Links] :
        category' = [category EXCEPT ![c] = r] /\ Refers(r.parent)
  <2>1. CASE CategoryCreate(c)
    <3>1. PICK p \in Parents : category' = [category EXCEPT ![c] = [status |-> "live", parent |-> p]]
      BY <2>1 DEF CategoryCreate
    <3>2. p \in Links /\ Refers(p)
      BY <3>1 DEF Parents, Links, Refers
    <3>3. [status |-> "live", parent |-> p] \in [status : {"live", "deleted"}, parent : Links]
      BY <3>2
    <3>. QED  BY <3>1, <3>2, <3>3
  <2>2. CASE CategoryUpdate(c)
    <3>1. PICK p \in Parents : category' = [category EXCEPT ![c].parent = p]
      BY <2>2 DEF CategoryUpdate
    <3>2. p \in Links /\ Refers(p)
      BY <3>1 DEF Parents, Links, Refers
    <3>. DEFINE r == [category[c] EXCEPT !.parent = p]
    <3>3. category[c].status \in {"live", "deleted"}
      BY <1>2, <2>2 DEF CategoryUpdate, Exists, Statuses
    <3>4. r \in [status : {"live", "deleted"}, parent : Links] /\ r.parent = p
      BY <1>2, <3>2, <3>3
    <3>5. category' = [category EXCEPT ![c] = r]
      BY <3>1
    <3>. QED  BY <3>2, <3>4, <3>5
  <2>3. CASE CategoryDelete(c)
    <3>. DEFINE r == [category[c] EXCEPT !.status = "deleted"]
    <3>1. category' = [category EXCEPT ![c] = r]
      BY <2>3 DEF CategoryDelete
    <3>2. r \in [status : {"live", "deleted"}, parent : Links] /\ r.parent = category[c].parent
      BY <1>2
    <3>. QED  BY <1>2, <3>1, <3>2
  <2>. QED  BY <2>1, <2>2, <2>3
<1>4. r.parent \in Links /\ r.status \in Statuses /\ r.status # "absent"
  BY DEF Statuses
<1>5. category' \in [Categories -> [status : Statuses, parent : Links]]
  BY <1>3 DEF IInv, Typed, Statuses
<1>6. Rows'
  BY <1>1, <1>5 DEF IInv, Typed, Rows
<1>7. \A d \in Categories : category'[d] = IF d = c THEN r ELSE category[d]
  BY <1>3 DEF IInv, Typed
<1>8. Grown
  BY <1>1, <1>4, <1>7 DEF Grown, Exists
<1>9. \A p \in Links : p # None /\ category[p].status # "absent" => category'[p].status # "absent"
  BY <1>8 DEF Exists, Grown, Links
<1>10. ASSUME NEW d \in Categories
       PROVE  /\ Refers(category[d].parent)'
              /\ attribute'[d] # Empty => Exists(category[d])'
  <2>1. /\ category[d].parent \in Links /\ Refers(category[d].parent)
        /\ attribute[d] # Empty => Exists(category[d])
    BY DEF IInv, Typed, References
  <2>. DEFINE p == category'[d].parent
  <2>2. p \in Links /\ (p # None => category[p].status # "absent")
    BY <1>3, <1>4, <1>7, <2>1 DEF Refers, Exists
  <2>3. p # None => category'[p].status # "absent"
    BY <1>9, <2>2
  <2>4. Refers(category[d].parent)'
    BY <2>3 DEF Refers, Exists
  <2>5. Exists(category[d]) => Exists(category[d])'
    BY <1>8 DEF Grown
  <2>6. attribute'[d] # Empty => Exists(category[d])'
    BY <1>1, <2>1, <2>5
  <2>. QED  BY <2>4, <2>6
<1>11. Refers(product.category)' /\ (Exists(variant)' => Exists(product)')
  <2>1. product.category \in Links /\ Refers(product.category) /\ (Exists(variant) => Exists(product))
    BY DEF IInv, Typed, References
  <2>. QED  BY <1>1, <1>9, <2>1 DEF Refers, Exists
<1>12. References'
  BY <1>10, <1>11 DEF References, Empty
<1>. QED  BY <1>6, <1>8, <1>12

LEMMA AttributeRowsTyped ==
  ASSUME IInv, NEW c \in Categories, NEW k \in Keys, NEW l \in Keys,
         \/ AttributeCreate(c, k) \/ AttributeUpdate(c, k) \/ AttributeDelete(c, k)
         \/ AttributeRename(c, k, l)
  PROVE  Rows' /\ Grown /\ References'
<1>1. UNCHANGED <<category, product, variant>>
  BY DEF AttributeCreate, AttributeUpdate, AttributeDelete, AttributeRename, Committed
<1>2. attribute[c][k] \in Definitions \cup {Removed, None}
  BY DEF IInv, Typed
<1>3. /\ attribute' \in [Categories -> [Keys -> Definitions \cup {Removed, None}]]
      /\ \A d \in Categories \ {c} : attribute'[d] = attribute[d]
  <2>1. CASE AttributeCreate(c, k) \/ AttributeUpdate(c, k) \/ AttributeDelete(c, k)
    <3>1. PICK x \in Definitions \cup {Removed} : attribute' = [attribute EXCEPT ![c][k] = x]
      BY <2>1 DEF AttributeCreate, AttributeUpdate, AttributeDelete
    <3>. QED  BY <3>1 DEF IInv, Typed
  <2>2. CASE AttributeRename(c, k, l)
    BY <1>2, <2>2 DEF AttributeRename, IInv, Typed
  <2>. QED  BY <2>1, <2>2
<1>4. Exists(category[c])
  <2>1. CASE AttributeCreate(c, k)
    BY <2>1 DEF AttributeCreate
  <2>2. CASE ~AttributeCreate(c, k)
    <3>1. attribute[c][k] # None
      BY <2>2, NoneAssumption DEF AttributeUpdate, AttributeDelete, AttributeRename, Declared
    <3>2. attribute[c] # Empty
      BY <3>1 DEF Empty
    <3>. QED  BY <3>2 DEF IInv, References
  <2>. QED  BY <2>1, <2>2
<1>5. Rows' /\ Grown
  BY <1>1, <1>3 DEF IInv, Typed, Rows, Grown, Exists
<1>6. References'
  <2>1. Refers(product.category)' /\ (Exists(variant)' => Exists(product)')
    BY <1>1 DEF IInv, References, Refers, Exists
  <2>2. ASSUME NEW d \in Categories
        PROVE  Refers(category[d].parent)' /\ (attribute'[d] # Empty => Exists(category[d])')
    BY <1>1, <1>3, <1>4 DEF IInv, References, Refers, Exists
  <2>. QED  BY <2>1, <2>2 DEF References, Empty
<1>. QED  BY <1>5, <1>6

LEMMA ProductRows ==
  ASSUME IInv, ProductCreate \/ ProductUpdate \/ ProductDelete
  PROVE  Rows' /\ Grown /\ References'
<1>1. UNCHANGED <<category, attribute, variant>>
  BY DEF ProductCreate, ProductUpdate, ProductDelete, Committed
<1>2. /\ product' \in [status : Statuses, category : Links] /\ Refers(product'.category)
      /\ Exists(product)'
  <2>1. CASE ProductCreate \/ ProductUpdate
    <3>1. PICK p \in Parents : \/ product' = [status |-> "live", category |-> p]
                               \/ Exists(product) /\ product' = [product EXCEPT !.category = p]
      BY <2>1 DEF ProductCreate, ProductUpdate
    <3>2. p \in Links /\ Refers(p)
      BY <3>1 DEF Parents, Links, Refers
    <3>. QED  BY <3>1, <3>2 DEF IInv, Typed, Exists, Statuses
  <2>2. CASE ProductDelete
    BY <2>2 DEF ProductDelete, IInv, Typed, References, Exists, Statuses
  <2>. QED  BY <2>1, <2>2
<1>3. Rows' /\ Grown
  BY <1>1, <1>2 DEF IInv, Typed, Rows, Grown, Exists
<1>4. References'
  BY <1>1, <1>2 DEF IInv, References, Refers, Exists, Empty
<1>. QED  BY <1>3, <1>4

LEMMA AdministerIInv ==
  ASSUME IInv, Administer
  PROVE  IInv'
<1>1. UNCHANGED <<variant, job, pc, loaded, current, schema, held>>
  BY DEF Administer, CategoryCreate, CategoryUpdate, CategoryDelete, AttributeCreate,
         AttributeUpdate, AttributeRename, AttributeDelete, ProductCreate, ProductUpdate,
         ProductDelete, Committed, localVars
<1>2. Rows' /\ Grown /\ References'
  BY CategoryRows, AttributeRowsTyped, ProductRows DEF Administer
<1>3. Typed'
  BY <1>1, <1>2 DEF IInv, Typed, Rows, Empty
<1>4. ASSUME NEW s \in Sellers PROVE Walking(s)'
  BY <1>1, <1>2, StillThere DEF Grown, Exists
<1>. QED  BY <1>2, <1>3, <1>4 DEF IInv

-----------------------------------------------------------------------------
Labels == {"idle", "load", "resolve", "collect", "climb", "check", "write"}

(* A step of a seller that finds its place, its request and its category as
   the invariant asks keeps the invariant. *)
LEMMA SellerMoves ==
  ASSUME IInv, NEW s \in Sellers,
         NEW label \in Labels, NEW j \in Requests \cup {None}, NEW c \in Links,
         pc' = [pc EXCEPT ![s] = label], job' = [job EXCEPT ![s] = j],
         current' = [current EXCEPT ![s] = c],
         UNCHANGED <<category, attribute, product>>,
         label = "idle" <=> j = None, Refers(c),
         label \in {"collect", "climb"} => c # None,
         j # None /\ label # "load" => Grounded(j.op),
         variant' \in [status : Statuses, attributes : Sent \cup {Empty}],
         Exists(variant)' => Exists(product), Exists(variant) => Exists(variant)',
         schema' \in [Sellers -> [Keys -> Definitions \cup {None}]],
         held' \in [Sellers -> BOOLEAN]
  PROVE  IInv'
<1>1. Typed'
  BY DEF IInv, Typed, Labels, Empty
<1>2. References'
  BY DEF IInv, References, Refers, Exists, Empty
<1>3. Walking(s)'
  BY DEF IInv, Typed, Walking, Refers, Exists, Grounded
<1>4. ASSUME NEW t \in Sellers, t # s PROVE Walking(t)'
  BY <1>4, StillThere DEF IInv, Typed, Exists
<1>. QED  BY <1>1, <1>2, <1>3, <1>4 DEF IInv

LEMMA RequestShape ==
  ASSUME NEW j \in Requests
  PROVE  /\ j.op \in {"create", "update", "delete"}
         /\ j.attributes \in Sent \cup {None}
         /\ j.op = "create" => j.attributes \in Sent
BY DEF Requests, Request

(* No request is being served at "idle", and a request is not None. *)
LEMMA ServesRequest ==
  ASSUME IInv, NEW s \in Sellers, pc[s] # "idle"
  PROVE  job[s] \in Requests /\ job[s] # None
BY DEF IInv, Typed, Walking

LEMMA EndIInv ==
  ASSUME IInv, NEW s \in Sellers, End(s),
         variant' \in [status : Statuses, attributes : Sent \cup {Empty}],
         Exists(variant)' => Exists(product), Exists(variant) => Exists(variant)'
  PROVE  IInv'
<1>1. schema' \in [Sellers -> [Keys -> Definitions \cup {None}]] /\ held' \in [Sellers -> BOOLEAN]
  BY DEF End, IInv, Typed, Empty
<1>2. None \in Links /\ Refers(None) /\ "idle" \in Labels
  BY DEF Links, Refers, Labels
<1>. QED  BY <1>1, <1>2, SellerMoves DEF End

LEMMA LeaveIInv ==
  ASSUME IInv, NEW s \in Sellers, Leave(s)
  PROVE  IInv'
<1>1. End(s) /\ variant' = variant
  BY DEF Leave
<1>2. /\ variant' \in [status : Statuses, attributes : Sent \cup {Empty}]
      /\ (Exists(variant)' => Exists(product)) /\ (Exists(variant) => Exists(variant)')
  BY <1>1 DEF IInv, Typed, References, Exists
<1>. QED  BY <1>1, <1>2, EndIInv

(* Steps between the first and the last leave the rows and the request. *)
LEMMA GotoIInv ==
  ASSUME IInv, NEW s \in Sellers, pc[s] # "idle",
         NEW label \in Labels \ {"idle"}, Goto(s, label), NEW c \in Links,
         current' = [current EXCEPT ![s] = c], Refers(c),
         label \in {"collect", "climb"} => c # None,
         pc[s] = "load" => Grounded(job[s].op),
         schema' \in [Sellers -> [Keys -> Definitions \cup {None}]],
         held' \in [Sellers -> BOOLEAN]
  PROVE  IInv'
<1>1. job[s] \in Requests /\ job[s] # None
  BY ServesRequest
<1>2. job' = [job EXCEPT ![s] = job[s]]
  BY DEF Goto, IInv, Typed
<1>3. UNCHANGED <<category, attribute, product, variant>> /\ pc' = [pc EXCEPT ![s] = label]
  BY DEF Goto, rowVars
<1>4. label # "load" => Grounded(job[s].op)
  BY <1>1 DEF IInv, Walking
<1>5. /\ variant' \in [status : Statuses, attributes : Sent \cup {Empty}]
      /\ (Exists(variant)' => Exists(product)) /\ (Exists(variant) => Exists(variant)')
  BY <1>3 DEF IInv, Typed, References, Exists
<1>. QED  BY <1>1, <1>2, <1>3, <1>4, <1>5, SellerMoves

(* A step that stays at its category. *)
LEMMA StayIInv ==
  ASSUME IInv, NEW s \in Sellers, pc[s] # "idle",
         NEW label \in Labels \ {"idle"}, Goto(s, label),
         UNCHANGED <<current, held>>,
         label \in {"collect", "climb"} => current[s] # None,
         pc[s] = "load" => Grounded(job[s].op),
         schema' \in [Sellers -> [Keys -> Definitions \cup {None}]]
  PROVE  IInv'
<1>1. current' = [current EXCEPT ![s] = current[s]] /\ current[s] \in Links /\ Refers(current[s])
  BY DEF IInv, Typed, Walking
<1>2. held' \in [Sellers -> BOOLEAN]
  BY DEF IInv, Typed
<1>. QED  BY <1>1, <1>2, GotoIInv

LEMMA StartIInv ==
  ASSUME IInv, NEW s \in Sellers, Start(s)
  PROVE  IInv'
<1>1. PICK r \in Requests : job' = [job EXCEPT ![s] = r]
  BY DEF Start
<1>2. r # None
  BY <1>1, RequestAssumption
<1>3. /\ UNCHANGED <<category, attribute, product, variant, current, schema, held>>
      /\ pc' = [pc EXCEPT ![s] = "load"]
  BY DEF Start, rowVars, localVars
<1>4. current' = [current EXCEPT ![s] = current[s]] /\ current[s] \in Links /\ Refers(current[s])
  BY <1>3 DEF IInv, Typed, Walking
<1>5. /\ variant' \in [status : Statuses, attributes : Sent \cup {Empty}]
      /\ (Exists(variant)' => Exists(product)) /\ (Exists(variant) => Exists(variant)')
      /\ schema' \in [Sellers -> [Keys -> Definitions \cup {None}]] /\ held' \in [Sellers -> BOOLEAN]
  BY <1>3 DEF IInv, Typed, References, Exists
<1>6. "load" \in Labels
  BY DEF Labels
<1>. QED  BY <1>1, <1>2, <1>3, <1>4, <1>5, <1>6, SellerMoves

LEMMA LoadIInv ==
  ASSUME IInv, NEW s \in Sellers, CreateLoad(s) \/ VariantLoad(s)
  PROVE  IInv'
<1>1. CASE CreateLoad(s)
  <2>1. Goto(s, "resolve") /\ UNCHANGED <<current, schema, held>> /\ pc[s] = "load" /\ Grounded(job[s].op)
    BY <1>1 DEF CreateLoad, At, localVars, Live, Exists, Grounded
  <2>. QED  BY <2>1, StayIInv DEF IInv, Typed, Labels
<1>2. CASE VariantLoad(s)
  <2>1. PICK label \in {"resolve", "write"} : Goto(s, label)
    BY <1>2 DEF VariantLoad
  <2>2. UNCHANGED <<current, schema, held>> /\ pc[s] = "load" /\ Grounded(job[s].op)
    BY <1>2 DEF VariantLoad, At, Live, Exists, Grounded
  <2>. QED  BY <2>1, <2>2, StayIInv DEF IInv, Typed, Labels
<1>. QED  BY <1>1, <1>2

LEMMA ResolveIInv ==
  ASSUME IInv, NEW s \in Sellers, Resolve(s)
  PROVE  IInv'
<1>. DEFINE c == IF Live(product) THEN product.category ELSE None
<1>1. c \in Links /\ Refers(c)
  BY DEF IInv, Typed, References, Refers, Links
<1>2. Goto(s, IF c = None THEN "check" ELSE "collect") /\ current' = [current EXCEPT ![s] = c]
  BY DEF Resolve
<1>3. UNCHANGED <<schema, held>> /\ pc[s] = "resolve"
  BY DEF Resolve
<1>4. PICK label \in Labels \ {"idle"} : Goto(s, label) /\ (label \in {"collect", "climb"} => c # None)
  BY <1>2 DEF Labels
<1>5. schema' \in [Sellers -> [Keys -> Definitions \cup {None}]] /\ held' \in [Sellers -> BOOLEAN]
  BY <1>3 DEF IInv, Typed
<1>. HIDE DEF c
<1>. QED  BY <1>1, <1>2, <1>3, <1>4, <1>5, GotoIInv

LEMMA CollectIInv ==
  ASSUME IInv, NEW s \in Sellers, Collect(s)
  PROVE  IInv'
<1>1. pc[s] = "collect" /\ Goto(s, "climb") /\ UNCHANGED <<current, held>>
  BY DEF Collect
<1>2. current[s] # None
  BY <1>1 DEF IInv, Walking
<1>3. Merged(s) \in [Keys -> Definitions \cup {None}]
  BY DEF Merged, Declared, IInv, Typed
<1>4. schema' \in [Sellers -> [Keys -> Definitions \cup {None}]]
  BY <1>3 DEF Collect, IInv, Typed
<1>. QED  BY <1>1, <1>2, <1>4, StayIInv DEF Labels

LEMMA ClimbIInv ==
  ASSUME IInv, NEW s \in Sellers, Climb(s)
  PROVE  IInv'
<1>. DEFINE c == IF Trapped(s) THEN current[s] ELSE Above(current[s])
<1>1. pc[s] = "climb" /\ current[s] \in Categories /\ Refers(current[s])
  BY DEF Climb, IInv, Typed, Walking, Links
<1>2. c \in Links /\ Refers(c)
  BY <1>1 DEF Above, IInv, Typed, References, Refers, Links
<1>3. /\ Goto(s, IF c = None THEN "check" ELSE "collect") /\ current' = [current EXCEPT ![s] = c]
      /\ held' = [held EXCEPT ![s] = c = current[s]] /\ schema' = schema
  BY DEF Climb
<1>4. PICK label \in Labels \ {"idle"} : Goto(s, label) /\ (label \in {"collect", "climb"} => c # None)
  BY <1>3 DEF Labels
<1>. HIDE DEF c
<1>5. schema' \in [Sellers -> [Keys -> Definitions \cup {None}]] /\ held' \in [Sellers -> BOOLEAN]
  BY <1>3 DEF IInv, Typed
<1>. QED  BY <1>1, <1>2, <1>3, <1>4, <1>5, GotoIInv

LEMMA AcceptIInv ==
  ASSUME IInv, NEW s \in Sellers, Accept(s)
  PROVE  IInv'
<1>1. pc[s] = "check" /\ Goto(s, "write") /\ UNCHANGED <<current, schema, held>>
  BY DEF Accept, localVars
<1>. QED  BY <1>1, StayIInv DEF IInv, Typed, Labels

(* What a request carries is one of the dictionaries that may be sent. *)
LEMMA WriteIInv ==
  ASSUME IInv, NEW s \in Sellers, Write(s)
  PROVE  IInv'
<1>1. pc[s] = "write" /\ End(s) /\ variant' = Written(s)
  BY DEF Write
<1>2. job[s] \in Requests /\ job[s] # None
  BY <1>1, ServesRequest
<1>3. /\ job[s].op \in {"create", "update", "delete"}
      /\ job[s].attributes \in Sent \cup {None}
      /\ job[s].op = "create" => job[s].attributes \in Sent
  BY <1>2, RequestShape
<1>4. variant \in [status : Statuses, attributes : Sent \cup {Empty}] /\ (Exists(variant) => Exists(product))
  BY DEF IInv, Typed, References
<1>5. CASE job[s].op = "create"
  <2>1. variant' = [status |-> "live", attributes |-> job[s].attributes]
    BY <1>1, <1>5 DEF Written
  <2>2. Exists(product)
    BY <1>1, <1>2, <1>5 DEF IInv, Walking, Grounded
  <2>3. variant' \in [status : Statuses, attributes : Sent \cup {Empty}] /\ Exists(variant)'
    BY <1>3, <1>5, <2>1 DEF Statuses, Exists
  <2>. QED  BY <1>1, <2>2, <2>3, EndIInv
<1>6. CASE job[s].op = "delete"
  <2>1. variant' = [variant EXCEPT !.status = "deleted"]
    BY <1>1, <1>6 DEF Written
  <2>2. Exists(variant)
    BY <1>1, <1>2, <1>6 DEF IInv, Walking, Grounded
  <2>3. variant' \in [status : Statuses, attributes : Sent \cup {Empty}] /\ Exists(variant)'
    BY <1>4, <2>1 DEF Statuses, Exists
  <2>. QED  BY <1>1, <1>4, <2>2, <2>3, EndIInv
<1>7. CASE job[s].op = "update"
  <2>1. \/ variant' = variant
        \/ job[s].attributes \in Sent /\ variant' = [variant EXCEPT !.attributes = job[s].attributes]
    BY <1>1, <1>3, <1>7 DEF Written
  <2>2. /\ variant' \in [status : Statuses, attributes : Sent \cup {Empty}]
        /\ variant'.status = variant.status
    BY <1>4, <2>1
  <2>3. (Exists(variant)' => Exists(product)) /\ (Exists(variant) => Exists(variant)')
    BY <1>4, <2>2 DEF Exists
  <2>. QED  BY <1>1, <2>2, <2>3, EndIInv
<1>. QED  BY <1>3, <1>5, <1>6, <1>7

-----------------------------------------------------------------------------
(* Every handler, interleaved with the others at its statements, keeps the
   foreign keys, and what it looked up stays a row until it writes. *)
THEOREM Inductive == Spec => []IInv
<1>1. IInv /\ [Next]_vars => IInv'
  <2>. SUFFICES ASSUME IInv, [Next]_vars PROVE IInv'
    OBVIOUS
  <2>1. CASE Administer
    BY <2>1, AdministerIInv
  <2>2. ASSUME NEW s \in Sellers, Start(s) \/ Sell(s) \/ Fail(s) PROVE IInv'
    <3>1. CASE Start(s)
      BY <3>1, StartIInv
    <3>2. CASE CreateLoad(s) \/ VariantLoad(s)
      BY <3>2, LoadIInv
    <3>3. CASE NotFound(s) \/ Reject(s) \/ Fail(s)
      BY <3>3, LeaveIInv DEF NotFound, Reject, Fail
    <3>4. CASE Resolve(s)
      BY <3>4, ResolveIInv
    <3>5. CASE Collect(s)
      BY <3>5, CollectIInv
    <3>6. CASE Climb(s)
      BY <3>6, ClimbIInv
    <3>7. CASE Accept(s)
      BY <3>7, AcceptIInv
    <3>8. CASE Write(s)
      BY <3>8, WriteIInv
    <3>. QED  BY <2>2, <3>1, <3>2, <3>3, <3>4, <3>5, <3>6, <3>7, <3>8 DEF Sell
  <2>3. CASE UNCHANGED vars
    BY <2>3 DEF vars, rowVars, localVars, IInv, Typed, References, Walking, Grounded, Refers, Exists, Empty
  <2>. QED  BY <2>1, <2>2, <2>3 DEF Next
<1>. QED  BY <1>1, InitIInv, PTL DEF Spec

(* Types, and the foreign keys: soft deletion leaves every row in place that
   another row, or a walk in progress, refers to. *)
THEOREM TypeCorrect == Spec => []TypeOK
<1>1. IInv => TypeOK
  BY DEF IInv, Typed, References, Walking, TypeOK, Statuses, Links
<1>. QED  BY <1>1, Inductive, PTL
-----------------------------------------------------------------------------
(* Numbers: the library's induction theorems need an operator, so that what
   holds of all numbers up to n is shown of the least one that has it not. *)
LEMMA Least ==
  ASSUME NEW T \in SUBSET Nat, T # {}
  PROVE  \E m \in T : \A i \in T : m <= i
<1>1. PICK m \in T : \A i \in T : ~ (<<i, m>> \in OpToRel(<, Nat))
  BY NatLessThanWellFounded, WFMin
<1>2. ASSUME NEW i \in T PROVE m <= i
  <2>1. i \in Nat /\ m \in Nat /\ ~ (i < m)
    <3>1. <<i, m>> \in OpToRel(<, Nat) <=> i < m
      BY DEF OpToRel
    <3>. QED  BY <1>1, <3>1
  <2>. QED  BY <2>1
<1>. QED  BY <1>2

LEMMA MinIsLeast ==
  ASSUME NEW T \in SUBSET Nat, T # {}
  PROVE  Min(T) \in T /\ \A i \in T : Min(T) <= i
BY Least DEF Min

LEMMA Upwards ==
  ASSUME NEW n \in Nat, NEW P, 0 \in P, \A i \in 0..(n - 1) : i \in P => i + 1 \in P
  PROVE  \A i \in 0..n : i \in P
<1>. DEFINE T == {i \in 0..n : i \notin P}
<1>. SUFFICES ASSUME T # {} PROVE FALSE
  OBVIOUS
<1>1. PICK m \in T : \A i \in T : m <= i
  <2>1. T \in SUBSET Nat
    OBVIOUS
  <2>. QED  BY <2>1, Least
<1>2. m - 1 \in 0..(n - 1) /\ m - 1 \notin T
  BY <1>1
<1>. QED  BY <1>2

-----------------------------------------------------------------------------
(* A walk of n steps up from the category of the product: what each step may
   reach as long as the rows stay as they are. *)
Root == IF Live(product) THEN product.category ELSE None

IsWalk(f, n) ==
  /\ f[0] = Root
  /\ \A i \in 0..(n - 1) : f[i] # None /\ f[i + 1] = Above(f[i])

(* The dictionary d holds, of each key, the first definition along the first
   n categories of the walk. *)
Nearest(d, f, n) ==
  \A k \in Keys :
    \/ d[k] = None /\ \A i \in 0..(n - 1) : ~Declared(f[i], k)
    \/ \E i \in 0..(n - 1) :
         /\ Declared(f[i], k) /\ d[k] = attribute[f[i]][k]
         /\ \A j \in 0..(i - 1) : ~Declared(f[j], k)

(* A walk that has ended met no category twice: from there on it would have
   repeated itself. *)
LEMMA EndedWalkIsSimple ==
  ASSUME NEW n \in Nat, NEW f \in [0..n -> Links], IsWalk(f, n), f[n] = None,
         NEW i \in 0..(n - 1), NEW j \in 0..(n - 1), i < j
  PROVE  f[i] # f[j]
<1>. SUFFICES ASSUME f[i] = f[j] PROVE FALSE
  OBVIOUS
<1>. DEFINE P == {k \in 0..(n - j) : f[i + k] = f[j + k]}
<1>1. 0 \in P
  OBVIOUS
<1>2. ASSUME NEW k \in 0..(n - j - 1), k \in P PROVE k + 1 \in P
  <2>1. i + k \in 0..(n - 1) /\ j + k \in 0..(n - 1) /\ k + 1 \in 0..(n - j)
    OBVIOUS
  <2>2. f[(i + k) + 1] = Above(f[i + k]) /\ f[(j + k) + 1] = Above(f[j + k])
    BY <2>1 DEF IsWalk
  <2>3. (i + k) + 1 = i + (k + 1) /\ (j + k) + 1 = j + (k + 1)
    OBVIOUS
  <2>. QED  BY <1>2, <2>1, <2>2, <2>3
<1>3. n - j \in P
  <2>1. n - j \in Nat
    OBVIOUS
  <2>. HIDE DEF P
  <2>2. \A k \in 0..(n - j) : k \in P
    BY <1>1, <1>2, <2>1, Upwards
  <2>. QED  BY <2>1, <2>2
<1>4. f[i + (n - j)] = f[n]
  BY <1>3
<1>5. i + (n - j) \in 0..(n - 1)
  OBVIOUS
<1>. QED  BY <1>4, <1>5 DEF IsWalk

LEMMA EndedWalkIsShort ==
  ASSUME NEW n \in Nat, NEW f \in [0..n -> Links], IsWalk(f, n), f[n] = None
  PROVE  n <= Cardinality(Categories)
<1>. SUFFICES ASSUME Cardinality(Categories) < n PROVE FALSE
  BY CategoriesAssumption, FS_CardinalityType
<1>. DEFINE g == [i \in 0..(n - 1) |-> f[i]]
<1>1. g \in [0..(n - 1) -> Categories]
  BY DEF IsWalk, Links
<1>2. IsFiniteSet(0..(n - 1)) /\ Cardinality(0..(n - 1)) = n
  <2>1. n - 1 \in Int /\ ~ (0 > n - 1) /\ (n - 1) - 0 + 1 = n
    BY CategoriesAssumption, FS_CardinalityType
  <2>. QED  BY <2>1, FS_Interval
<1>3. PICK i \in 0..(n - 1), j \in 0..(n - 1) : i # j /\ g[i] = g[j]
  <2>. HIDE DEF g
  <2>. QED  BY <1>1, <1>2, CategoriesAssumption, FS_PigeonHole
<1>4. f[i] = f[j] /\ (i < j \/ j < i)
  BY <1>3
<1>. QED  BY <1>4, EndedWalkIsSimple

(* What Ancestry defines: the category of each height, None above the last. *)
Ascends(u, start) ==
  u = [n \in 0..Cardinality(Categories) |->
         IF n = 0 THEN start
         ELSE IF u[n - 1] = None \/ category[u[n - 1]].status # "live" THEN None
         ELSE category[u[n - 1]].parent]

LEMMA AscentIsUnique ==
  ASSUME NEW start, NEW u, Ascends(u, start), NEW v, Ascends(v, start)
  PROVE  u = v
<1>. DEFINE N == Cardinality(Categories)
            P == {i \in 0..N : u[i] = v[i]}
<1>1. N \in Nat
  BY CategoriesAssumption, FS_CardinalityType
<1>. HIDE DEF N
<1>2. 0 \in P
  BY <1>1 DEF Ascends, N
<1>3. ASSUME NEW i \in 0..(N - 1), i \in P PROVE i + 1 \in P
  <2>1. i + 1 \in 0..N /\ i + 1 # 0 /\ (i + 1) - 1 = i
    BY <1>1
  <2>2. u[i] = v[i]
    BY <1>3
  <2>5. ASSUME NEW w, Ascends(w, start)
        PROVE  w[i + 1] = (IF w[i] = None \/ category[w[i]].status # "live" THEN None
                           ELSE category[w[i]].parent)
    <3>1. \A m \in 0..N : w[m] = IF m = 0 THEN start
                               ELSE IF w[m - 1] = None \/ category[w[m - 1]].status # "live" THEN None
                               ELSE category[w[m - 1]].parent
      BY <2>5 DEF Ascends, N
    <3>. QED  BY <2>1, <3>1
  <2>3. u[i + 1] = (IF u[i] = None \/ category[u[i]].status # "live" THEN None
                    ELSE category[u[i]].parent)
    BY <2>5
  <2>4. v[i + 1] = (IF v[i] = None \/ category[v[i]].status # "live" THEN None
                    ELSE category[v[i]].parent)
    BY <2>5
  <2>. QED  BY <2>1, <2>2, <2>3, <2>4
<1>4. \A i \in 0..N : i \in P
  <2>. HIDE DEF P
  <2>. QED  BY <1>1, <1>2, <1>3, Upwards
<1>5. u = [i \in 0..N |-> u[i]] /\ v = [i \in 0..N |-> v[i]]
  BY DEF Ascends, N
<1>6. \A i \in 0..N : u[i] = v[i]
  BY <1>4
<1>. QED  BY <1>5, <1>6

LEMMA AncestryIsTheWalk ==
  ASSUME NEW n \in Nat, NEW f \in [0..n -> Links], IsWalk(f, n), f[n] = None
  PROVE  /\ n <= Cardinality(Categories)
         /\ Ancestry(Root) = [i \in 0..Cardinality(Categories) |->
                                IF i <= n THEN f[i] ELSE None]
<1>. DEFINE N == Cardinality(Categories)
            g == [i \in 0..N |-> IF i <= n THEN f[i] ELSE None]
<1>1. N \in Nat /\ n <= N
  BY CategoriesAssumption, FS_CardinalityType, EndedWalkIsShort
<1>. HIDE DEF N
<1>2. ASSUME NEW i \in 0..N
      PROVE  g[i] = IF i = 0 THEN Root
                    ELSE IF g[i - 1] = None \/ category[g[i - 1]].status # "live" THEN None
                    ELSE category[g[i - 1]].parent
  <2>1. CASE i = 0
    BY <1>1, <2>1 DEF IsWalk
  <2>2. CASE i # 0 /\ i <= n
    <3>1. i - 1 \in 0..(n - 1) /\ (i - 1) + 1 = i /\ i - 1 \in 0..N
      BY <1>1, <2>2
    <3>2. g[i - 1] = f[i - 1] /\ g[i] = f[i]
      BY <2>2, <3>1
    <3>3. f[i - 1] # None /\ f[i] = Above(f[i - 1])
      BY <3>1 DEF IsWalk
    <3>. QED  BY <2>2, <3>2, <3>3 DEF Above, Live
  <2>3. CASE n < i
    <3>1. i - 1 \in 0..N /\ n <= i - 1
      BY <1>1, <2>3
    <3>2. g[i - 1] = None /\ g[i] = None
      BY <2>3, <3>1
    <3>. QED  BY <2>3, <3>2
  <2>. QED  BY <1>1, <2>1, <2>2, <2>3
<1>3. Ascends(g, Root)
  <2>. DEFINE h == [i \in 0..N |->
                     IF i = 0 THEN Root
                     ELSE IF g[i - 1] = None \/ category[g[i - 1]].status # "live" THEN None
                     ELSE category[g[i - 1]].parent]
  <2>1. g = h
    BY <1>2
  <2>. HIDE DEF g
  <2>. QED  BY <2>1 DEF Ascends, N
<1>4. Ancestry(Root) = CHOOSE u : Ascends(u, Root)
  BY DEF Ancestry, Ascends
<1>. HIDE DEF g
<1>5. Ancestry(Root) = g
  BY <1>3, <1>4, AscentIsUnique
<1>. QED  BY <1>1, <1>5 DEF g, N

(* What is nearest along an ended walk is the reference. *)
LEMMA NearestAtTheEnd ==
  ASSUME NEW n \in Nat, NEW f \in [0..n -> Links], IsWalk(f, n), f[n] = None,
         NEW d \in [Keys -> Definitions \cup {None}], Nearest(d, f, n)
  PROVE  d = NearestSchema
<1>. DEFINE N == Cardinality(Categories)
            up == Ancestry(Root)
            Declaring(k) == {i \in DOMAIN up : up[i] # None /\ Declared(up[i], k)}
<1>1. n <= N /\ N \in Nat /\ up = [i \in 0..N |-> IF i <= n THEN f[i] ELSE None]
  BY AncestryIsTheWalk, CategoriesAssumption, FS_CardinalityType
<1>. HIDE DEF N, up
<1>2. ASSUME NEW k \in Keys
      PROVE  Declaring(k) = {i \in 0..(n - 1) : Declared(f[i], k)}
  <2>1. ASSUME NEW i \in 0..(n - 1) PROVE i \in DOMAIN up /\ up[i] = f[i] /\ f[i] # None
    BY <1>1 DEF IsWalk
  <2>2. ASSUME NEW i \in DOMAIN up, up[i] # None PROVE i \in 0..(n - 1)
    BY <1>1, <2>2
  <2>. QED  BY <2>1, <2>2
<1>3. ASSUME NEW k \in Keys
      PROVE  d[k] = IF Declaring(k) = {} THEN None ELSE attribute[up[Min(Declaring(k))]][k]
  <2>1. CASE d[k] = None /\ \A i \in 0..(n - 1) : ~Declared(f[i], k)
    BY <1>2, <2>1
  <2>2. CASE \E i \in 0..(n - 1) : /\ Declared(f[i], k) /\ d[k] = attribute[f[i]][k]
                                  /\ \A j \in 0..(i - 1) : ~Declared(f[j], k)
    <3>1. PICK i \in 0..(n - 1) : /\ Declared(f[i], k) /\ d[k] = attribute[f[i]][k]
                                  /\ \A j \in 0..(i - 1) : ~Declared(f[j], k)
      BY <2>2
    <3>2. PICK T \in SUBSET Nat : T = {j \in 0..(n - 1) : Declared(f[j], k)}
      <4>1. {j \in 0..(n - 1) : Declared(f[j], k)} \in SUBSET Nat
        OBVIOUS
      <4>. QED  BY <4>1
    <3>3. Declaring(k) = T /\ i \in T
      BY <1>2, <3>1, <3>2
    <3>4. Min(T) \in T /\ Min(T) <= i
      BY <3>3, MinIsLeast
    <3>5. Min(T) = i
      BY <3>1, <3>2, <3>4
    <3>6. up[i] = f[i]
      BY <1>1
    <3>. HIDE DEF Declaring
    <3>. QED  BY <3>1, <3>3, <3>5, <3>6
  <2>. QED  BY <2>1, <2>2 DEF Nearest
<1>4. NearestSchema = [k \in Keys |-> IF Declaring(k) = {} THEN None
                                      ELSE attribute[up[Min(Declaring(k))]][k]]
  BY DEF NearestSchema, up, Root
<1>. HIDE DEF Declaring
<1>. QED  BY <1>3, <1>4

-----------------------------------------------------------------------------
(* The walk of a request got where it is by the parents, and collected what
   is nearest on the way; what it has just collected from is included. *)
Walked(s) ==
  \E n \in Nat : \E f \in [0..n -> Links] :
    /\ IsWalk(f, n) /\ f[n] = current[s]
    /\ Nearest(schema[s], f, IF pc[s] = "climb" THEN n + 1 ELSE n)

(* A request that nothing interfered with: the session holds a category only
   where the walk would return to it anyway. *)
Traced(s) ==
  /\ held[s] => current[s] # None /\ Above(current[s]) = current[s]
  /\ pc[s] \in {"collect", "climb", "check"} => Walked(s)
  /\ pc[s] = "write" /\ Checked(s) => Walked(s) /\ Violations(s) = {}
  /\ job[s].op = "update" /\ pc[s] # "load" => loaded[s] = variant.attributes

Tracking(s) ==
  /\ pc[s] \in {"idle", "load", "resolve"} => schema[s] = Empty /\ ~held[s]
  /\ pc[s] \in {"resolve", "collect", "climb", "check"} => Checked(s)
  /\ pc[s] = "check" \/ (pc[s] = "write" /\ Checked(s)) => current[s] = None
  /\ job[s] # None /\ alone[s] => Traced(s)

Noted == loaded \in [Sellers -> Sent \cup {Empty}] /\ alone \in [Sellers -> BOOLEAN]

WInv == IInv /\ Noted /\ \A s \in Sellers : Tracking(s)

LEMMA InitWInv == Init => WInv
BY InitIInv DEF Init, WInv, Noted, Tracking, Empty

(* A request keeps its track when a step is none of its own and, if nothing
   interfered so far, leaves the rows. *)
Untouched(s) ==
  /\ pc'[s] = pc[s] /\ job'[s] = job[s] /\ loaded'[s] = loaded[s]
  /\ current'[s] = current[s] /\ schema'[s] = schema[s] /\ held'[s] = held[s]
  /\ job[s] # None /\ alone'[s] => alone[s] /\ UNCHANGED rowVars

LEMMA SameWalk ==
  ASSUME UNCHANGED rowVars, NEW f, NEW n, NEW d
  PROVE  /\ IsWalk(f, n)' <=> IsWalk(f, n)
         /\ Nearest(d, f, n)' <=> Nearest(d, f, n)
<1>1. UNCHANGED <<category, attribute, product>>
  BY DEF rowVars
<1>2. Root' = Root /\ \A c : Above(c)' = Above(c)
  BY <1>1 DEF Root, Above, Live
<1>3. \A c, k : Declared(c, k)' <=> Declared(c, k)
  BY <1>1 DEF Declared
<1>. QED  BY <1>1, <1>2, <1>3 DEF IsWalk, Nearest

LEMMA UntouchedTracking ==
  ASSUME NEW s \in Sellers, Tracking(s), Untouched(s)
  PROVE  Tracking(s)'
<1>1. Checked(s)' <=> Checked(s)
  BY DEF Untouched, Checked
<1>2. ASSUME job'[s] # None, alone'[s] PROVE Traced(s)'
  <2>1. alone[s] /\ UNCHANGED rowVars /\ Traced(s)
    BY <1>2 DEF Untouched, Tracking
  <2>2. ASSUME Walked(s) PROVE Walked(s)'
    <3>. PICK n \in Nat : \E f \in [0..n -> Links] :
            /\ IsWalk(f, n) /\ f[n] = current[s]
            /\ Nearest(schema[s], f, IF pc[s] = "climb" THEN n + 1 ELSE n)
      BY <2>2 DEF Walked
    <3>1. PICK f \in [0..n -> Links] :
            /\ IsWalk(f, n) /\ f[n] = current[s]
            /\ Nearest(schema[s], f, IF pc[s] = "climb" THEN n + 1 ELSE n)
      OBVIOUS
    <3>2. PICK m : m = IF pc[s] = "climb" THEN n + 1 ELSE n
      OBVIOUS
    <3>3. PICK d : d = schema[s]
      OBVIOUS
    <3>4. IsWalk(f, n)' /\ Nearest(d, f, m)'
      BY <2>1, <3>1, <3>2, <3>3, SameWalk
    <3>5. Nearest(schema[s], f, IF pc[s] = "climb" THEN n + 1 ELSE n)'
      BY <3>2, <3>3, <3>4 DEF Untouched, Nearest
    <3>6. f \in [0..n -> Links] /\ f[n] = current'[s]
      BY <3>1 DEF Untouched, Links
    <3>. QED  BY <3>4, <3>5, <3>6 DEF Walked
  <2>3. Above(current[s])' = Above(current[s]) /\ variant' = variant
    BY <2>1 DEF Untouched, Above, Live, rowVars
  <2>4. Violations(s)' = Violations(s)
    BY DEF Untouched, Violations, Violates, Validated, IsInstance
  <2>. QED  BY <1>1, <2>1, <2>2, <2>3, <2>4 DEF Untouched, Traced
<1>. QED  BY <1>1, <1>2 DEF Untouched, Tracking, Empty

LEMMA OthersUntouched ==
  ASSUME WInv, NEW s \in Sellers, Start(s) \/ Sell(s) \/ Fail(s),
         NEW t \in Sellers, t # s
  PROVE  Untouched(t)
<1>. USE DEF WInv, IInv, Typed, Noted
<1>1. CASE Start(s)
  BY <1>1 DEF Start, Untouched, rowVars, localVars
<1>2. CASE CreateLoad(s) \/ VariantLoad(s) \/ Resolve(s) \/ Collect(s) \/ Climb(s) \/ Accept(s)
  BY <1>2 DEF CreateLoad, VariantLoad, Resolve, Collect, Climb, Accept, Goto, Untouched,
              rowVars, localVars
<1>3. CASE NotFound(s) \/ Reject(s) \/ Fail(s)
  BY <1>3 DEF NotFound, Reject, Fail, Leave, End, Untouched, rowVars
<1>4. CASE Write(s)
  BY <1>4 DEF Write, End, Untouched
<1>. QED  BY <1>1, <1>2, <1>3, <1>4 DEF Sell

LEMMA StepNoted ==
  ASSUME WInv, [Next]_vars
  PROVE  Noted'
<1>. USE DEF WInv, IInv, Typed, Noted, Empty
<1>1. CASE Administer
  BY <1>1 DEF Administer, CategoryCreate, CategoryUpdate, CategoryDelete, AttributeCreate,
         AttributeUpdate, AttributeRename, AttributeDelete, ProductCreate, ProductUpdate,
         ProductDelete, Committed, localVars
<1>2. ASSUME NEW s \in Sellers, Start(s) \/ Sell(s) \/ Fail(s) PROVE Noted'
  <2>1. CASE Start(s)
    BY <2>1 DEF Start, localVars
  <2>2. CASE CreateLoad(s) \/ VariantLoad(s) \/ Resolve(s) \/ Collect(s) \/ Climb(s) \/ Accept(s)
    BY <2>2 DEF CreateLoad, VariantLoad, Resolve, Collect, Climb, Accept, Goto, localVars
  <2>3. CASE NotFound(s) \/ Reject(s) \/ Fail(s)
    BY <2>3 DEF NotFound, Reject, Fail, Leave, End
  <2>4. CASE Write(s)
    BY <2>4 DEF Write, End
  <2>. QED  BY <1>2, <2>1, <2>2, <2>3, <2>4 DEF Sell
<1>3. CASE UNCHANGED vars
  BY <1>3 DEF vars, localVars
<1>. QED  BY <1>1, <1>2, <1>3 DEF Next

-----------------------------------------------------------------------------
(* The steps of a request. *)
LEMMA StartTracking ==
  ASSUME WInv, NEW s \in Sellers, Start(s)
  PROVE  Tracking(s)'
<1>1. pc[s] = "idle" /\ Tracking(s)
  BY DEF Start, WInv, IInv, Walking
<1>2. pc'[s] = "load" /\ UNCHANGED <<schema, held>>
  BY DEF Start, localVars, WInv, IInv, Typed
<1>. QED  BY <1>1, <1>2 DEF Tracking, Traced, Empty

(* What a request asks for stays as it was sent. *)
LEMMA GotoSame ==
  ASSUME WInv, NEW s \in Sellers, NEW label, Goto(s, label), pc[s] # "idle"
  PROVE  /\ pc'[s] = label /\ job'[s] = job[s] /\ (Checked(s)' <=> Checked(s))
         /\ alone'[s] = alone[s] /\ UNCHANGED rowVars
         /\ job[s] # None /\ Tracking(s)
         /\ (alone[s] => Traced(s))
BY DEF Goto, WInv, IInv, Typed, Walking, Checked, Tracking

LEMMA LoadTracking ==
  ASSUME WInv, NEW s \in Sellers, CreateLoad(s) \/ VariantLoad(s)
  PROVE  Tracking(s)'
<1>1. pc[s] = "load"
  BY DEF CreateLoad, VariantLoad, At
<1>2. CASE CreateLoad(s)
  <2>1. Goto(s, "resolve") /\ UNCHANGED <<loaded, current, schema, held>> /\ job[s].op = "create"
    BY <1>2 DEF CreateLoad, At, localVars
  <2>2. Checked(s)
    <3>1. job[s].attributes \in Sent
      BY <1>1, <2>1, ServesRequest, RequestShape DEF WInv
    <3>. QED  BY <3>1, NoneAssumption DEF Checked
  <2>. QED  BY <1>1, <2>1, <2>2, GotoSame DEF Tracking, Traced, Empty
<1>3. CASE VariantLoad(s)
  <2>1. /\ Goto(s, IF Checked(s) THEN "resolve" ELSE "write") /\ UNCHANGED <<current, schema, held>>
        /\ loaded' = [loaded EXCEPT ![s] = variant.attributes]
    BY <1>3 DEF VariantLoad
  <2>2. PICK label \in {"resolve", "write"} :
          Goto(s, label) /\ (label = "resolve" <=> Checked(s))
    BY <2>1
  <2>3. /\ pc'[s] = label /\ (Checked(s)' <=> Checked(s)) /\ job'[s] = job[s]
        /\ UNCHANGED rowVars /\ Tracking(s)
    BY <1>1, <2>2, GotoSame
  <2>4. schema'[s] = Empty /\ ~held'[s] /\ loaded'[s] = variant'.attributes
    BY <1>1, <2>1, <2>3 DEF Tracking, WInv, Noted, rowVars
  <2>. QED  BY <2>2, <2>3, <2>4 DEF Tracking, Traced, Empty
<1>. QED  BY <1>2, <1>3

(* The walk of no steps. *)
LEMMA ResolveTracking ==
  ASSUME WInv, NEW s \in Sellers, Resolve(s)
  PROVE  Tracking(s)'
<1>1. /\ pc[s] = "resolve" /\ current' = [current EXCEPT ![s] = Root]
      /\ Goto(s, IF Root = None THEN "check" ELSE "collect") /\ UNCHANGED <<loaded, schema, held>>
  BY DEF Resolve, Root
<1>2. PICK label \in {"check", "collect"} :
        Goto(s, label) /\ (label = "check" <=> Root = None)
  BY <1>1
<1>3. /\ pc'[s] = label /\ (Checked(s)' <=> Checked(s)) /\ job'[s] = job[s] /\ job[s] # None
      /\ alone'[s] = alone[s] /\ UNCHANGED rowVars /\ Tracking(s) /\ (alone[s] => Traced(s))
  BY <1>1, <1>2, GotoSame
<1>4. Checked(s) /\ schema[s] = Empty /\ ~held[s]
  BY <1>1, <1>3 DEF Tracking
<1>5. Root \in Links /\ Root' = Root /\ current'[s] = Root
  BY <1>1, <1>3 DEF Root, Links, Live, rowVars, WInv, IInv, Typed
<1>6. Walked(s)'
  <2>1. PICK f \in [0..0 -> Links] : f[0] = Root
    <3>1. [i \in 0..0 |-> Root] \in [0..0 -> Links] /\ [i \in 0..0 |-> Root][0] = Root
      BY <1>5
    <3>. QED  BY <3>1
  <2>2. 0..(0 - 1) = {}
    OBVIOUS
  <2>3. IsWalk(f, 0)' /\ f[0] = current'[s]
    BY <1>5, <2>1, <2>2 DEF IsWalk
  <2>4. Nearest(schema[s], f, 0)'
    BY <1>1, <1>4, <2>2 DEF Nearest, Empty
  <2>5. pc'[s] # "climb"
    BY <1>3
  <2>6. Nearest(schema[s], f, IF pc[s] = "climb" THEN 0 + 1 ELSE 0)'
    BY <2>4, <2>5
  <2>. QED  BY <2>1, <2>3, <2>6 DEF Walked
<1>7. alone[s] => Traced(s)'
  BY <1>1, <1>3, <1>4, <1>6 DEF Traced, rowVars
<1>. QED  BY <1>1, <1>2, <1>3, <1>4, <1>5, <1>7 DEF Tracking

(* A walk that nothing interfered with, and what it has collected. *)
LEMMA WalkOf ==
  ASSUME NEW s \in Sellers, Walked(s)
  PROVE  \E n \in Nat : \E f \in [0..n -> Links] :
           /\ IsWalk(f, n) /\ f[n] = current[s]
           /\ pc[s] = "climb" => Nearest(schema[s], f, n + 1)
           /\ pc[s] # "climb" => Nearest(schema[s], f, n)
BY DEF Walked

LEMMA CollectTracking ==
  ASSUME WInv, NEW s \in Sellers, Collect(s)
  PROVE  Tracking(s)'
<1>1. /\ pc[s] = "collect" /\ schema' = [schema EXCEPT ![s] = Merged(s)]
      /\ Goto(s, "climb") /\ UNCHANGED <<loaded, current, held>>
  BY DEF Collect
<1>2. /\ pc'[s] = "climb" /\ (Checked(s)' <=> Checked(s)) /\ job'[s] = job[s] /\ job[s] # None
      /\ alone'[s] = alone[s] /\ UNCHANGED rowVars /\ Tracking(s) /\ (alone[s] => Traced(s))
  BY <1>1, GotoSame
<1>3. schema'[s] = Merged(s) /\ current[s] # None
  BY <1>1 DEF WInv, IInv, Typed, Walking
<1>4. ASSUME Traced(s) PROVE Walked(s)'
  <2>1. Walked(s)
    BY <1>1, <1>4 DEF Traced
  <2>2. PICK n \in Nat : \E f \in [0..n -> Links] :
          IsWalk(f, n) /\ f[n] = current[s] /\ Nearest(schema[s], f, n)
    BY <1>1, <2>1, WalkOf
  <2>3. PICK f \in [0..n -> Links] :
          IsWalk(f, n) /\ f[n] = current[s] /\ Nearest(schema[s], f, n)
    BY <2>2
  <2>4. Nearest(Merged(s), f, n + 1)
    <3>. SUFFICES ASSUME NEW k \in Keys
                  PROVE  \/ /\ Merged(s)[k] = None
                            /\ \A i \in 0..((n + 1) - 1) : ~Declared(f[i], k)
                         \/ \E i \in 0..((n + 1) - 1) :
                              /\ Declared(f[i], k) /\ Merged(s)[k] = attribute[f[i]][k]
                              /\ \A j \in 0..(i - 1) : ~Declared(f[j], k)
      BY DEF Nearest
    <3>1. Merged(s)[k] = IF schema[s][k] = None /\ Declared(f[n], k)
                         THEN attribute[f[n]][k] ELSE schema[s][k]
      BY <2>3 DEF Merged
    <3>2. (n + 1) - 1 = n /\ n \in 0..n /\ \A i \in 0..n : i = n \/ i \in 0..(n - 1)
      OBVIOUS
    <3>3. CASE schema[s][k] = None /\ \A i \in 0..(n - 1) : ~Declared(f[i], k)
      <4>1. CASE Declared(f[n], k)
        BY <3>1, <3>2, <3>3, <4>1
      <4>2. CASE ~Declared(f[n], k)
        BY <3>1, <3>2, <3>3, <4>2
      <4>. QED  BY <4>1, <4>2
    <3>4. CASE \E i \in 0..(n - 1) : /\ Declared(f[i], k) /\ schema[s][k] = attribute[f[i]][k]
                                    /\ \A j \in 0..(i - 1) : ~Declared(f[j], k)
      <4>1. PICK i \in 0..(n - 1) : /\ Declared(f[i], k) /\ schema[s][k] = attribute[f[i]][k]
                                    /\ \A j \in 0..(i - 1) : ~Declared(f[j], k)
        BY <3>4
      <4>2. schema[s][k] # None
        BY <4>1, NoneAssumption DEF Declared
      <4>3. i \in 0..((n + 1) - 1)
        OBVIOUS
      <4>. QED  BY <3>1, <4>1, <4>2, <4>3
    <3>. QED  BY <2>3, <3>3, <3>4 DEF Nearest
  <2>5. PICK d : d = Merged(s)
    OBVIOUS
  <2>6. IsWalk(f, n)' /\ Nearest(d, f, n + 1)'
    BY <1>2, <2>3, <2>4, <2>5, SameWalk
  <2>7. Nearest(schema[s], f, IF pc[s] = "climb" THEN n + 1 ELSE n)'
    BY <1>2, <1>3, <2>5, <2>6 DEF Nearest
  <2>8. f[n] = current'[s]
    BY <1>1, <2>3
  <2>. QED  BY <2>6, <2>7, <2>8 DEF Walked
<1>5. \A c : Above(c)' = Above(c)
  BY <1>2 DEF Above, Live, rowVars
<1>6. ASSUME alone[s] PROVE Traced(s)'
  BY <1>1, <1>2, <1>4, <1>5, <1>6 DEF Traced, rowVars
<1>. QED  BY <1>1, <1>2, <1>6 DEF Tracking

(* A category the session holds is its own parent, so that the step the
   session answers from memory is the one the rows give. *)
LEMMA ClimbTracking ==
  ASSUME WInv, NEW s \in Sellers, Climb(s)
  PROVE  Tracking(s)'
<1>. DEFINE c == IF Trapped(s) THEN current[s] ELSE Above(current[s])
<1>1. /\ pc[s] = "climb" /\ current' = [current EXCEPT ![s] = c]
      /\ held' = [held EXCEPT ![s] = c = current[s]]
      /\ Goto(s, IF c = None THEN "check" ELSE "collect") /\ UNCHANGED <<loaded, schema>>
  BY DEF Climb
<1>2. current[s] # None /\ current[s] \in Categories
  BY <1>1 DEF WInv, IInv, Typed, Walking, Links
<1>3. c \in Links
  BY <1>2 DEF Above, Links, WInv, IInv, Typed
<1>4. Traced(s) => c = Above(current[s])
  BY DEF Trapped, Traced
<1>. HIDE DEF c
<1>5. PICK label \in {"check", "collect"} : Goto(s, label) /\ (label = "check" <=> c = None)
  BY <1>1
<1>6. /\ pc'[s] = label /\ (Checked(s)' <=> Checked(s)) /\ job'[s] = job[s] /\ job[s] # None
      /\ alone'[s] = alone[s] /\ UNCHANGED rowVars /\ Tracking(s) /\ (alone[s] => Traced(s))
  BY <1>1, <1>5, GotoSame
<1>7. current'[s] = c /\ (held'[s] <=> c = current[s])
  BY <1>1 DEF WInv, IInv, Typed
<1>8. ASSUME Traced(s) PROVE Walked(s)'
  <2>1. Walked(s)
    BY <1>1, <1>8 DEF Traced
  <2>2. PICK n \in Nat : \E f \in [0..n -> Links] :
          IsWalk(f, n) /\ f[n] = current[s] /\ Nearest(schema[s], f, n + 1)
    BY <1>1, <2>1, WalkOf
  <2>3. PICK f \in [0..n -> Links] :
          IsWalk(f, n) /\ f[n] = current[s] /\ Nearest(schema[s], f, n + 1)
    BY <2>2
  <2>4. PICK g \in [0..(n + 1) -> Links] : g[n + 1] = c /\ \A i \in 0..n : g[i] = f[i]
    <3>. DEFINE h == [i \in 0..(n + 1) |-> IF i <= n THEN f[i] ELSE c]
    <3>1. h \in [0..(n + 1) -> Links] /\ h[n + 1] = c /\ \A i \in 0..n : h[i] = f[i]
      BY <1>3
    <3>. HIDE DEF h
    <3>. QED  BY <3>1
  <2>5. IsWalk(g, n + 1)
    <3>1. g[0] = Root
      BY <2>3, <2>4 DEF IsWalk
    <3>2. ASSUME NEW i \in 0..((n + 1) - 1) PROVE g[i] # None /\ g[i + 1] = Above(g[i])
      <4>1. CASE i = n
        BY <1>2, <1>4, <1>8, <2>3, <2>4, <4>1
      <4>2. CASE i # n
        <5>1. i \in 0..(n - 1) /\ i \in 0..n /\ i + 1 \in 0..n
          BY <4>2
        <5>. QED  BY <2>3, <2>4, <5>1 DEF IsWalk
      <4>. QED  BY <4>1, <4>2
    <3>. QED  BY <3>1, <3>2 DEF IsWalk
  <2>6. Nearest(schema[s], g, n + 1)
    <3>1. \A i \in 0..((n + 1) - 1) : g[i] = f[i]
      BY <2>4
    <3>2. \A i \in 0..((n + 1) - 1) : \A j \in 0..(i - 1) : g[j] = f[j]
      BY <2>4
    <3>. QED  BY <2>3, <3>1, <3>2 DEF Nearest
  <2>7. PICK d : d = schema[s]
    OBVIOUS
  <2>8. IsWalk(g, n + 1)' /\ Nearest(d, g, n + 1)'
    BY <1>6, <2>5, <2>6, <2>7, SameWalk
  <2>9. Nearest(schema[s], g, IF pc[s] = "climb" THEN (n + 1) + 1 ELSE n + 1)'
    BY <1>1, <1>6, <2>7, <2>8 DEF Nearest
  <2>10. n + 1 \in Nat /\ g[n + 1] = current'[s]
    BY <1>7, <2>4
  <2>. QED  BY <2>4, <2>8, <2>9, <2>10 DEF Walked
<1>9. Above(current[s])' = Above(current'[s])
  BY <1>6 DEF Above, Live, rowVars
<1>10. ASSUME alone[s] PROVE Traced(s)'
  <2>1. Traced(s)
    BY <1>6, <1>10
  <2>2. held'[s] => current'[s] # None /\ Above(current[s])' = current'[s]
    BY <1>2, <1>4, <1>7, <1>9, <2>1
  <2>. QED  BY <1>1, <1>6, <1>8, <2>1, <2>2 DEF Traced, rowVars
<1>. QED  BY <1>1, <1>5, <1>6, <1>7, <1>10 DEF Tracking

LEMMA AcceptTracking ==
  ASSUME WInv, NEW s \in Sellers, Accept(s)
  PROVE  Tracking(s)'
<1>1. /\ pc[s] = "check" /\ Violations(s) = {} /\ Goto(s, "write")
      /\ UNCHANGED <<loaded, current, schema, held>>
  BY DEF Accept, localVars
<1>2. /\ pc'[s] = "write" /\ (Checked(s)' <=> Checked(s)) /\ job'[s] = job[s] /\ job[s] # None
      /\ alone'[s] = alone[s] /\ UNCHANGED rowVars /\ Tracking(s) /\ (alone[s] => Traced(s))
  BY <1>1, GotoSame
<1>3. Violations(s)' = Violations(s)
  BY <1>1, <1>2 DEF Violations, Violates, Missing, Validated, IsInstance
<1>4. ASSUME Walked(s) PROVE Walked(s)'
  <2>1. PICK n \in Nat : \E f \in [0..n -> Links] :
          IsWalk(f, n) /\ f[n] = current[s] /\ Nearest(schema[s], f, n)
    BY <1>1, <1>4, WalkOf
  <2>2. PICK f \in [0..n -> Links] :
          IsWalk(f, n) /\ f[n] = current[s] /\ Nearest(schema[s], f, n)
    BY <2>1
  <2>3. PICK d : d = schema[s]
    OBVIOUS
  <2>4. IsWalk(f, n)' /\ Nearest(d, f, n)'
    BY <1>2, <2>2, <2>3, SameWalk
  <2>5. Nearest(schema[s], f, IF pc[s] = "climb" THEN n + 1 ELSE n)'
    BY <1>1, <1>2, <2>3, <2>4 DEF Nearest
  <2>. QED  BY <1>1, <2>2, <2>4, <2>5 DEF Walked
<1>5. \A c : Above(c)' = Above(c)
  BY <1>2 DEF Above, Live, rowVars
<1>6. ASSUME alone[s] PROVE Traced(s)'
  BY <1>1, <1>2, <1>3, <1>4, <1>5, <1>6 DEF Traced, rowVars
<1>. QED  BY <1>1, <1>2, <1>6 DEF Tracking

LEMMA EndTracking ==
  ASSUME WInv, NEW s \in Sellers, End(s)
  PROVE  Tracking(s)'
<1>1. pc'[s] = "idle" /\ job'[s] = None /\ schema'[s] = Empty /\ held'[s] = FALSE
  BY DEF End, WInv, IInv, Typed
<1>. QED  BY <1>1 DEF Tracking, Empty

(* A commit of another handler ends the part of a request that nothing
   interfered with. *)
LEMMA AdministerTracking ==
  ASSUME WInv, Administer, NEW s \in Sellers
  PROVE  Tracking(s)'
<1>1. Committed
  BY DEF Administer, CategoryCreate, CategoryUpdate, CategoryDelete, AttributeCreate,
         AttributeUpdate, AttributeRename, AttributeDelete, ProductCreate, ProductUpdate,
         ProductDelete
<1>2. Untouched(s)
  BY <1>1 DEF Committed, localVars, Untouched
<1>. QED  BY <1>2, UntouchedTracking DEF WInv

-----------------------------------------------------------------------------
LEMMA WalkInductive == Spec => []WInv
<1>1. WInv /\ IInv' /\ [Next]_vars => WInv'
  <2>. SUFFICES ASSUME WInv, IInv', [Next]_vars PROVE WInv'
    OBVIOUS
  <2>. SUFFICES ASSUME NEW s \in Sellers PROVE Tracking(s)'
    BY StepNoted DEF WInv
  <2>1. CASE Administer
    BY <2>1, AdministerTracking
  <2>2. ASSUME NEW t \in Sellers, Start(t) \/ Sell(t) \/ Fail(t), t # s PROVE Tracking(s)'
    BY <2>2, OthersUntouched, UntouchedTracking DEF WInv
  <2>3. ASSUME Start(s) \/ Sell(s) \/ Fail(s) PROVE Tracking(s)'
    <3>1. CASE Start(s)
      BY <3>1, StartTracking
    <3>2. CASE CreateLoad(s) \/ VariantLoad(s)
      BY <3>2, LoadTracking
    <3>3. CASE NotFound(s) \/ Reject(s) \/ Fail(s) \/ Write(s)
      BY <3>3, EndTracking DEF NotFound, Reject, Fail, Write, Leave
    <3>4. CASE Resolve(s)
      BY <3>4, ResolveTracking
    <3>5. CASE Collect(s)
      BY <3>5, CollectTracking
    <3>6. CASE Climb(s)
      BY <3>6, ClimbTracking
    <3>7. CASE Accept(s)
      BY <3>7, AcceptTracking
    <3>. QED  BY <2>3, <3>1, <3>2, <3>3, <3>4, <3>5, <3>6, <3>7 DEF Sell
  <2>4. CASE UNCHANGED vars
    <3>1. Untouched(s)
      BY <2>4 DEF vars, localVars, Untouched
    <3>. QED  BY <3>1, UntouchedTracking DEF WInv
  <2>. QED  BY <2>1, <2>2, <2>3, <2>4 DEF Next
<1>. QED  BY <1>1, InitWInv, Inductive, PTL DEF Spec

(* A walk that has ended without interference collected the reference. *)
LEMMA EndedWalk ==
  ASSUME WInv, NEW s \in Sellers, Walked(s), current[s] = None, pc[s] # "climb"
  PROVE  schema[s] = NearestSchema
<1>1. PICK n \in Nat : \E f \in [0..n -> Links] :
        IsWalk(f, n) /\ f[n] = current[s] /\ Nearest(schema[s], f, n)
  BY WalkOf
<1>2. PICK f \in [0..n -> Links] :
        IsWalk(f, n) /\ f[n] = current[s] /\ Nearest(schema[s], f, n)
  BY <1>1
<1>3. schema[s] \in [Keys -> Definitions \cup {None}]
  BY DEF WInv, IInv, Typed
<1>4. PICK d \in [Keys -> Definitions \cup {None}] : d = schema[s]
  BY <1>3
<1>. QED  BY <1>2, <1>4, NearestAtTheEnd

(* In a tree of any shape and size, with cycles or without, the schema that a
   walk has collected, one query after another, is the nearest definition of
   each key, unless another commit came between. *)
THEOREM WalkCollectsTheNearest == Spec => []SchemaIsNearest
<1>1. ASSUME WInv PROVE SchemaIsNearest
  <2>. SUFFICES ASSUME NEW s \in Sellers, At(s, "check", {"create", "update"}), alone[s]
                PROVE  schema[s] = NearestSchema
    BY DEF SchemaIsNearest
  <2>1. pc[s] = "check" /\ Tracking(s) /\ job[s] # None
    BY <1>1 DEF At, WInv, IInv, Walking
  <2>2. Walked(s) /\ current[s] = None
    BY <2>1 DEF Tracking, Traced
  <2>. QED  BY <1>1, <2>1, <2>2, EndedWalk
<1>. QED  BY <1>1, WalkInductive, PTL

(* What a request stores fits the nearest definitions at that very moment,
   unless another commit came between. *)
LEMMA WriteIsChecked ==
  ASSUME WInv, NEW s \in Sellers, Write(s), alone[s], job[s].attributes # None,
         NEW k \in Keys, NearestSchema[k] # None
  PROVE  LET sent == job[s].attributes[k] IN
         IF ~Missing(sent) THEN Fits(sent, NearestSchema[k])
         ELSE NearestSchema[k].required =>
                /\ sent = None /\ job[s].op = "update"
                /\ ~Missing(variant.attributes[k])
<1>1. pc[s] = "write" /\ Tracking(s) /\ job[s] # None /\ job[s] \in Requests
  BY ServesRequest DEF Write, WInv, IInv, Walking
<1>2. Walked(s) /\ Violations(s) = {} /\ current[s] = None
  BY <1>1 DEF Tracking, Traced, Checked
<1>3. schema[s] = NearestSchema
  BY <1>1, <1>2, EndedWalk
<1>4. job[s].op \in {"create", "update"}
  BY <1>1 DEF Requests, Request
<1>5. job[s].op = "update" => loaded[s] = variant.attributes
  BY <1>1 DEF Tracking, Traced
<1>6. ~Violates(Validated(s)[k], NearestSchema[k])
  BY <1>2, <1>3 DEF Violations
<1>7. Validated(s)[k] = IF job[s].op = "update" /\ job[s].attributes[k] = None
                        THEN loaded[s][k] ELSE job[s].attributes[k]
  BY DEF Validated
<1>. QED  BY <1>4, <1>5, <1>6, <1>7, NoneAssumption DEF Violates, Missing, IsInstance, Fits

THEOREM StoredWasChecked == Spec => CheckedBeforeStored
<1>1. ASSUME WInv, [Next]_vars
      PROVE  [\A s \in Sellers : Write(s) /\ alone[s] /\ job[s].attributes # None =>
                \A k \in Keys : NearestSchema[k] # None =>
                  LET sent == job[s].attributes[k] IN
                  IF ~Missing(sent) THEN Fits(sent, NearestSchema[k])
                  ELSE NearestSchema[k].required =>
                         /\ sent = None /\ job[s].op = "update"
                         /\ ~Missing(variant.attributes[k])]_vars
  BY <1>1, WriteIsChecked
<1>. QED  BY <1>1, WalkInductive, PTL DEF Spec, CheckedBeforeStored
=============================================================================
