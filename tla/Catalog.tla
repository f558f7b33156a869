------------------------------- MODULE Catalog -------------------------------
(***************************************************************************)
(* The catalog domain: the tree of categories with the attribute           *)
(* definitions they declare, and the variants whose attributes are checked *)
(* against the definitions of their product's category and its ancestors.  *)
(*                                                                         *)
(* The handlers of VariantService are split into their SQL statements: the *)
(* walk up the tree runs at READ COMMITTED, one query after another, while *)
(* others commit.  The other handlers write one row and are one action;    *)
(* what they looked up before may be deleted by the time they write, so    *)
(* that their guards only ask that a row was there, which is also all that *)
(* a foreign key asks for.  Two products or two variants only meet in a    *)
(* SKU, as categories do in a name: a request that is refused for one has  *)
(* no effect.  The module has one product and one variant, and no names.   *)
(***************************************************************************)
EXTENDS Integers, FiniteSets, FiniteSetsExt

CONSTANTS Sellers,         \* threads that serve requests for the variant
          Categories,
          Keys,            \* keys of attributes
          Definitions,     \* what a category may declare: value_type, required
          Kinds,           \* the types a value may have
          Sent,            \* attributes a request may carry
          MaxAttributes,   \* how many attribute rows there may ever be
          Null,            \* a value that is sent as null
          Removed,         \* an attribute row that was deleted
          None             \* no category, no row, no attribute, no request

Dictionaries == [Keys -> Kinds \cup {Null, None}]

ASSUME DictionaryAssumption == Sent \subseteq Dictionaries
ASSUME CategoriesAssumption == IsFiniteSet(Categories)
ASSUME NoneAssumption == /\ None \notin Categories /\ None \notin Definitions
                         /\ None \notin Kinds \cup {Null} /\ None \notin Sent
                         /\ Null \notin Kinds
                         /\ Removed \notin Definitions \cup {None}

VARIABLES
  category,   \* the category rows: their status and parent_id
  attribute,  \* the attribute rows: a definition, Removed or None
  product,    \* the product row: its status and category_id
  variant,    \* the variant row: its status and attributes
  job,        \* the request a seller serves
  pc,         \* how far its handler got
  loaded,     \* the attributes of the variant it loaded
  current,    \* the category its walk has reached
  schema,     \* the definitions the walk has collected
  held,       \* its session still holds the category it has reached
  alone       \* nothing else committed since the request began

rowVars == <<category, attribute, product, variant>>
localVars == <<loaded, current, schema, held>>
vars == <<rowVars, job, pc, localVars, alone>>

NoCategory == [status |-> "absent", parent |-> None]
NoProduct == [status |-> "absent", category |-> None]
Empty == [k \in Keys |-> None]
NoVariant == [status |-> "absent", attributes |-> Empty]

Request(ops, dictionaries) == [op : ops, attributes : dictionaries]

(* An update may leave the attributes out; a null in their place fails when
   the response is built, before the commit. *)
Requests == Request({"create"}, Sent) \cup Request({"update"}, Sent \cup {None})
              \cup Request({"delete"}, {None})
ASSUME RequestAssumption == None \notin Requests

Live(r) == r.status = "live"
Exists(r) == r.status # "absent"
Declared(c, k) == attribute[c][k] \in Definitions

Init ==
  /\ category = [c \in Categories |-> NoCategory]
  /\ attribute = [c \in Categories |-> Empty]
  /\ product = NoProduct
  /\ variant = NoVariant
  /\ job = [s \in Sellers |-> None]
  /\ pc = [s \in Sellers |-> "idle"]
  /\ loaded = [s \in Sellers |-> Empty]
  /\ current = [s \in Sellers |-> None]
  /\ schema = [s \in Sellers |-> Empty]
  /\ held = [s \in Sellers |-> FALSE]
  /\ alone = [s \in Sellers |-> TRUE]

-----------------------------------------------------------------------------
(* A commit of one of the handlers that write a row. *)
Committed ==
  /\ alone' = [s \in Sellers |-> job[s] = None]
  /\ UNCHANGED <<variant, job, pc, localVars>>

(* CategoryService.  A parent that is given was live when it was looked up;
   update takes any parent_id the foreign key admits, the category's own and
   that of a descendant included. *)
Parents == {None} \cup {c \in Categories : Exists(category[c])}

CategoryCreate(c) ==
  /\ ~Exists(category[c])
  /\ \E p \in Parents :
       category' = [category EXCEPT ![c] = [status |-> "live", parent |-> p]]
  /\ Committed
  /\ UNCHANGED <<attribute, product>>

CategoryUpdate(c) ==
  /\ Exists(category[c])
  /\ \E p \in Parents : category' = [category EXCEPT ![c].parent = p]
  /\ Committed
  /\ UNCHANGED <<attribute, product>>

CategoryDeleteHard(c) ==                   \* mutant: the row is removed
  /\ Live(category[c])
  /\ category' = [category EXCEPT ![c] = NoCategory]
  /\ Committed
  /\ UNCHANGED <<attribute, product>>

CategoryDelete(c) ==
  /\ Live(category[c])
  /\ category' = [category EXCEPT ![c].status = "deleted"]
  /\ Committed
  /\ UNCHANGED <<attribute, product>>

(* CategoryAttributeService.  The unique constraint on the category and the
   key also counts removed rows. *)
AttributeRows == {x \in Categories \X Keys : attribute[x[1]][x[2]] # None}

AttributeCreate(c, k) ==
  /\ Exists(category[c])
  /\ attribute[c][k] = None
  /\ Cardinality(AttributeRows) < MaxAttributes
  /\ \E d \in Definitions : attribute' = [attribute EXCEPT ![c][k] = d]
  /\ Committed
  /\ UNCHANGED <<category, product>>

AttributeUpdate(c, k) ==
  /\ Declared(c, k)
  /\ \E d \in Definitions : attribute' = [attribute EXCEPT ![c][k] = d]
  /\ Committed
  /\ UNCHANGED <<category, product>>

(* A row that was removed after it was loaded is renamed all the same. *)
AttributeRename(c, k, l) ==
  /\ attribute[c][k] # None
  /\ attribute[c][l] = None
  /\ attribute' = [attribute EXCEPT ![c][l] = attribute[c][k], ![c][k] = None]
  /\ Committed
  /\ UNCHANGED <<category, product>>

AttributeDelete(c, k) ==
  /\ Declared(c, k)
  /\ attribute' = [attribute EXCEPT ![c][k] = Removed]
  /\ Committed
  /\ UNCHANGED <<category, product>>

(* ProductService *)
ProductCreate ==
  /\ ~Exists(product)
  /\ \E c \in Parents : product' = [status |-> "live", category |-> c]
  /\ Committed
  /\ UNCHANGED <<category, attribute>>

ProductUpdate ==
  /\ Exists(product)
  /\ \E c \in Parents : product' = [product EXCEPT !.category = c]
  /\ Committed
  /\ UNCHANGED <<category, attribute>>

ProductDelete ==
  /\ Live(product)
  /\ product' = [product EXCEPT !.status = "deleted"]
  /\ Committed
  /\ UNCHANGED <<category, attribute>>

-----------------------------------------------------------------------------
(* VariantService *)
Start(s) ==
  /\ job[s] = None
  /\ \E r \in Requests : job' = [job EXCEPT ![s] = r]
  /\ pc' = [pc EXCEPT ![s] = "load"]
  /\ UNCHANGED <<rowVars, localVars, alone>>

At(s, label, ops) == pc[s] = label /\ job[s].op \in ops

Goto(s, label) ==
  /\ pc' = [pc EXCEPT ![s] = label]
  /\ UNCHANGED <<rowVars, job, alone>>

End(s) ==
  /\ job' = [job EXCEPT ![s] = None]
  /\ pc' = [pc EXCEPT ![s] = "idle"]
  /\ loaded' = [loaded EXCEPT ![s] = Empty]
  /\ current' = [current EXCEPT ![s] = None]
  /\ schema' = [schema EXCEPT ![s] = Empty]
  /\ held' = [held EXCEPT ![s] = FALSE]
  /\ UNCHANGED <<category, attribute, product>>

(* An early return, a SKU that is taken, a failed statement, a crash. *)
Leave(s) ==
  /\ End(s)
  /\ alone' = [alone EXCEPT ![s] = TRUE]
  /\ UNCHANGED variant

(* create: get_by_id of the product. *)
CreateLoad(s) ==
  /\ At(s, "load", {"create"})
  /\ Live(product)
  /\ Goto(s, "resolve")
  /\ UNCHANGED localVars

(* update, delete: get_by_id of the variant.  Without attributes, there is
   nothing to check. *)
Checked(s) == job[s].attributes # None

VariantLoad(s) ==
  /\ At(s, "load", {"update", "delete"})
  /\ Live(variant)
  /\ loaded' = [loaded EXCEPT ![s] = variant.attributes]
  /\ Goto(s, IF Checked(s) THEN "resolve" ELSE "write")
  /\ UNCHANGED <<current, schema, held>>

NotFound(s) ==
  /\ \/ At(s, "load", {"create"}) /\ ~Live(product)
     \/ At(s, "load", {"update", "delete"}) /\ ~Live(variant)
  /\ Leave(s)

(* _resolve_schema looks the product up, again when the variant is new. *)
Resolve(s) ==
  /\ pc[s] = "resolve"
  /\ LET c == IF Live(product) THEN product.category ELSE None IN
       /\ current' = [current EXCEPT ![s] = c]
       /\ Goto(s, IF c = None THEN "check" ELSE "collect")
  /\ UNCHANGED <<loaded, schema, held>>

(* _collect_category_attributes: the definitions of the current category for
   the keys not seen yet, then its parent, if it is not deleted.  The session
   has at most the last category in memory and returns it as it was loaded: a
   walk that met a category that is its own parent sees no other parent of it.
   (Attributes that a cyclic walk meets again are read anew here.) *)
MergedOver(s) ==                           \* mutant: ancestors take precedence
  [k \in Keys |-> IF Declared(current[s], k) THEN attribute[current[s]][k]
                  ELSE schema[s][k]]

Merged(s) ==
  [k \in Keys |-> IF schema[s][k] = None /\ Declared(current[s], k)
                  THEN attribute[current[s]][k] ELSE schema[s][k]]

Collect(s) ==
  /\ pc[s] = "collect"
  /\ schema' = [schema EXCEPT ![s] = Merged(s)]
  /\ Goto(s, "climb")
  /\ UNCHANGED <<loaded, current, held>>

AboveOrSame(c) ==                          \* mutant: stays at a deleted category
  IF Live(category[c]) THEN category[c].parent ELSE c

Above(c) == IF Live(category[c]) THEN category[c].parent ELSE None

Trapped(s) == held[s] /\ Live(category[current[s]])

Climb(s) ==
  /\ pc[s] = "climb"
  /\ LET c == IF Trapped(s) THEN current[s] ELSE Above(current[s]) IN
       /\ current' = [current EXCEPT ![s] = c]
       /\ held' = [held EXCEPT ![s] = c = current[s]]
       /\ Goto(s, IF c = None THEN "check" ELSE "collect")
  /\ UNCHANGED <<loaded, schema>>

(* _validate_variant_attributes, with what create or update passes to it: a
   null that is sent replaces the stored value.  A Python bool is an int. *)
IsInstance(kind, type) == kind = type \/ (kind = "boolean" /\ type = "number")

Validated(s) ==
  [k \in Keys |-> IF job[s].op = "update" /\ job[s].attributes[k] = None
                  THEN loaded[s][k] ELSE job[s].attributes[k]]

Missing(value) == value \in {None, Null}

ViolatesKind(value, d) ==                  \* mutant: a missing value passes
  ~Missing(value) /\ ~IsInstance(value, d.type)

Violates(value, d) ==
  IF Missing(value) THEN d.required ELSE ~IsInstance(value, d.type)

Violations(s) ==
  {k \in Keys : schema[s][k] # None /\ Violates(Validated(s)[k], schema[s][k])}

Accept(s) ==
  /\ pc[s] = "check"
  /\ Violations(s) = {}
  /\ Goto(s, "write")
  /\ UNCHANGED localVars

Reject(s) ==
  /\ pc[s] = "check"
  /\ Violations(s) # {}
  /\ Leave(s)

(* The INSERT or UPDATE, and the commit: only messages are sent in between,
   and others that write the row wait.  An UPDATE sets the columns that differ
   from what was loaded, also those of a row deleted meanwhile; update stores
   the attributes that were sent, not the merged ones that were checked. *)
Written(s) ==
  CASE job[s].op = "create" -> [status |-> "live", attributes |-> job[s].attributes]
    [] job[s].op = "delete" -> [variant EXCEPT !.status = "deleted"]
    [] job[s].op = "update" ->
         IF job[s].attributes \in {None, loaded[s]} THEN variant
         ELSE [variant EXCEPT !.attributes = job[s].attributes]

Write(s) ==
  /\ pc[s] = "write"
  /\ job[s].op = "create" => ~Exists(variant)
  /\ variant' = Written(s)
  /\ End(s)
  /\ alone' = [t \in Sellers |-> t = s \/ job[t] = None]

Fail(s) == job[s] # None /\ Leave(s)

-----------------------------------------------------------------------------
Sell(s) == \/ CreateLoad(s) \/ VariantLoad(s) \/ NotFound(s) \/ Resolve(s)
           \/ Collect(s) \/ Climb(s) \/ Accept(s) \/ Reject(s) \/ Write(s)

Administer ==
  \/ \E c \in Categories :
       \/ CategoryCreate(c) \/ CategoryUpdate(c) \/ CategoryDelete(c)
       \/ \E k \in Keys :
            \/ AttributeCreate(c, k) \/ AttributeUpdate(c, k) \/ AttributeDelete(c, k)
            \/ \E l \in Keys : AttributeRename(c, k, l)
  \/ ProductCreate \/ ProductUpdate \/ ProductDelete

Next == Administer \/ \E s \in Sellers : Start(s) \/ Sell(s) \/ Fail(s)

(* A request that was taken from the pool of threads keeps running. *)
Spec == Init /\ [][Next]_vars /\ \A s \in Sellers : WF_vars(Sell(s))

-----------------------------------------------------------------------------
(* A row that another refers to exists, deleted or not. *)
Refers(c) == c # None => Exists(category[c])

TypeOK ==
  /\ \A c \in Categories :
       /\ category[c].status \in {"absent", "live", "deleted"}
       /\ category[c].parent \in Categories \cup {None} /\ Refers(category[c].parent)
       /\ attribute[c] \in [Keys -> Definitions \cup {Removed, None}]
       /\ attribute[c] # Empty => Exists(category[c])
  /\ product.status \in {"absent", "live", "deleted"} /\ Refers(product.category)
  /\ variant.status \in {"absent", "live", "deleted"}
  /\ variant.attributes \in Sent \cup {Empty}
  /\ Exists(variant) => Exists(product)
  /\ job \in [Sellers -> Requests \cup {None}]
  /\ pc \in [Sellers -> {"idle", "load", "resolve", "collect", "climb", "check", "write"}]
  /\ \A s \in Sellers : Refers(current[s])
  /\ schema \in [Sellers -> [Keys -> Definitions \cup {None}]]
  /\ held \in [Sellers -> BOOLEAN]

-----------------------------------------------------------------------------
(* The reference: the categories that count are the product's and, above one
   that is not deleted, its parent; each key has the definition of the nearest
   that declares it. *)
Ancestry(start) ==
  LET up[n \in 0..Cardinality(Categories)] ==
        IF n = 0 THEN start
        ELSE IF up[n - 1] = None \/ category[up[n - 1]].status # "live" THEN None
        ELSE category[up[n - 1]].parent
  IN up

NearestSchema ==
  LET up == Ancestry(IF Live(product) THEN product.category ELSE None)
      Declaring(k) == {n \in DOMAIN up : up[n] # None /\ Declared(up[n], k)}
  IN [k \in Keys |-> IF Declaring(k) = {} THEN None
                     ELSE attribute[up[Min(Declaring(k))]][k]]

(***************************************************************************)
(* The schema a walk has collected is the nearest definition of each key   *)
(* along the ancestors, as long as nothing else committed since the        *)
(* request began: a deleted category still counts with its own             *)
(* definitions and cuts off those above it.  The README of the domain      *)
(* (154-158) and the docstring (service.py:733-735) promise the            *)
(* definitions up to the root; that holds where no category is deleted.    *)
(***************************************************************************)
SchemaIsNearest ==
  \A s \in Sellers : At(s, "check", {"create", "update"}) /\ alone[s] =>
    schema[s] = NearestSchema

(***************************************************************************)
(* What a request stores was checked, as long as nothing else committed:   *)
(* every value sent has the type its nearest definition asks for, none     *)
(* that is required is sent as null, a new variant has all required        *)
(* attributes, and an update leaves a required one out only where the      *)
(* stored variant has it: update loses it then.                            *)
(***************************************************************************)
Fits(kind, d) == kind = d.type \/ (d.type = "number" /\ kind = "boolean")

CheckedBeforeStored ==
  [][\A s \in Sellers : Write(s) /\ alone[s] /\ job[s].attributes # None =>
       \A k \in Keys : NearestSchema[k] # None =>
         LET sent == job[s].attributes[k] IN
         IF ~Missing(sent) THEN Fits(sent, NearestSchema[k])
         ELSE NearestSchema[k].required =>
                /\ sent = None /\ job[s].op = "update"
                /\ ~Missing(variant.attributes[k])]_vars

(***************************************************************************)
(* A walk ends, provided that from some time on the tree has no cycle and  *)
(* no category gets another parent, and that it is not trapped by a        *)
(* category that was its own parent: that walk only ends when the category *)
(* is deleted.  Update admits cycles, and a walk that meets one goes on    *)
(* as long as it is there.                                                 *)
(***************************************************************************)
Acyclic ==
  \A c \in Categories : Ancestry(c)[Cardinality(Categories)] = None

WalksEnd ==
  <>[]Acyclic /\ <>[][\A c \in Categories : category'[c].parent = category[c].parent]_vars
    => \A s \in Sellers :
         (pc[s] = "collect") ~> (pc[s] \notin {"collect", "climb"} \/ Trapped(s))
=============================================================================
