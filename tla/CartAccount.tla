----------------------------- MODULE CartAccount -----------------------------
(***************************************************************************)
(* What the cart domain promises its callers: a request that nothing else  *)
(* was committed into takes effect as one operation on the carts, or not   *)
(* at all.  A request that was disturbed may go wrong, but only in what    *)
(* requests of its kind write.  No sessions, locks or loops here; see Cart *)
(* for the handlers that implement this account.                           *)
(***************************************************************************)
EXTENDS Integers

CONSTANTS Workers,      \* concurrent requests the application serves
          Carts,        \* session tokens, each with at most one cart row
          Variants,
          Requests,     \* the requests the schemas admit
          MaxInt,       \* largest value of an INTEGER column
          NoCustomer,   \* the owner of an anonymous cart
          NoJob         \* what an idle worker works on

VARIABLES state, owner, qty, job, alone

rows == <<state, owner, qty>>
accountVars == <<state, owner, qty, job, alone>>

Lines == Carts \X Variants
Cart(w) == job[w].cart
Line(w) == <<job[w].cart, job[w].variant>>
CartsOf(u) == {c \in Carts : state[c] = "active" /\ owner[c] = u}

Init ==
  /\ state = [c \in Carts |-> "none"]
  /\ owner = [c \in Carts |-> NoCustomer]
  /\ qty = [l \in Lines |-> 0]
  /\ job = [w \in Workers |-> NoJob]
  /\ alone = [w \in Workers |-> TRUE]

Submit(w) ==
  /\ job[w] = NoJob
  /\ \E j \in Requests : job' = [job EXCEPT ![w] = j]
  /\ UNCHANGED <<rows, alone>>

-----------------------------------------------------------------------------
(* The operations.  A claim binds the cart to a customer who has none, and
   otherwise empties it into the one the customer has. *)
Create(w) ==
  /\ job[w].op = "create"
  /\ \/ state[Cart(w)] = "none" /\ state' = [state EXCEPT ![Cart(w)] = "active"]
     \/ /\ state[Cart(w)] = "active" /\ UNCHANGED state
        /\ owner[Cart(w)] = NoCustomer /\ job[w].customer # NoCustomer
  /\ owner' = [owner EXCEPT ![Cart(w)] = job[w].customer]
  /\ UNCHANGED qty

Claimable(w) ==
  /\ job[w].op = "claim"
  /\ state[Cart(w)] = "active"
  /\ owner[Cart(w)] # job[w].customer

Bind(w) ==
  /\ Claimable(w)
  /\ CartsOf(job[w].customer) = {}
  /\ owner' = [owner EXCEPT ![Cart(w)] = job[w].customer]
  /\ UNCHANGED <<state, qty>>

Merge(w) ==
  /\ Claimable(w)
  /\ \E d \in Carts :
       /\ CartsOf(job[w].customer) = {d}
       /\ qty' = [l \in Lines |-> IF l[1] = d THEN qty[l] + qty[<<Cart(w), l[2]>>]
                                  ELSE qty[l]]
  /\ state' = [state EXCEPT ![Cart(w)] = "deleted"]
  /\ UNCHANGED owner

Edit(w) ==
  /\ state[Cart(w)] = "active"
  /\ \/ /\ job[w].op = "add"
        /\ qty' = [qty EXCEPT ![Line(w)] = @ + job[w].amount]
     \/ /\ job[w].op = "update" /\ qty[Line(w)] > 0
        /\ qty' = [qty EXCEPT ![Line(w)] = job[w].amount]
     \/ /\ job[w].op = "remove" /\ qty[Line(w)] > 0
        /\ qty' = [qty EXCEPT ![Line(w)] = 0]
     \/ /\ job[w].op = "clear"
        /\ qty' = [l \in Lines |-> IF l[1] = Cart(w) THEN 0 ELSE qty[l]]
  /\ UNCHANGED <<state, owner>>

Perform(w) == Create(w) \/ Bind(w) \/ Merge(w) \/ Edit(w)

-----------------------------------------------------------------------------
(* What a disturbed request may do.  It may also write what is there. *)
Changes(l) == qty'[l] # qty[l]

BindLate(w) ==
  /\ job[w].op \in {"create", "claim"}
  /\ state' = [state EXCEPT ![Cart(w)] = IF @ = "none" THEN "active" ELSE @]
  /\ job[w].op = "claim" => UNCHANGED state
  /\ owner' = [owner EXCEPT ![Cart(w)] = job[w].customer]
  /\ UNCHANGED qty

(* Some units may be lost or counted twice, all of them in one cart, which may
   even be the cart that is emptied. *)
MergeLate(w) ==
  /\ job[w].op = "claim"
  /\ \E d \in Carts : \A l \in Lines : Changes(l) => l[1] = d /\ qty'[l] > 0
  /\ state' = [state EXCEPT ![Cart(w)] = "deleted"]
  /\ UNCHANGED owner

EditLate(w) ==
  /\ job[w].op \in {"add", "update", "remove", "clear"}
  /\ \A l \in Lines : Changes(l) =>
       /\ IF job[w].op = "clear" THEN l[1] = Cart(w) ELSE l = Line(w)
       /\ job[w].op = "add" => qty'[l] >= job[w].amount
       /\ job[w].op = "update" => qty[l] > 0 /\ qty'[l] = job[w].amount
       /\ job[w].op \in {"remove", "clear"} => qty'[l] = 0
  /\ UNCHANGED <<state, owner>>

PerformLate(w) == BindLate(w) \/ MergeLate(w) \/ EditLate(w) \/ UNCHANGED rows

-----------------------------------------------------------------------------
(* A request is answered.  What it wrote disturbs the others, also where it
   wrote what was there. *)
Serve(w) ==
  /\ job[w] # NoJob
  /\ job' = [job EXCEPT ![w] = NoJob]
  /\ IF alone[w] THEN Perform(w) ELSE PerformLate(w)
  /\ qty' \in [Lines -> 0..MaxInt]
  /\ \E wrote \in BOOLEAN :
       /\ wrote \/ UNCHANGED rows
       /\ alone' = [v \in Workers |-> v = w \/ job[v] = NoJob \/ (alone[v] /\ ~wrote)]

(* Not found, unavailable, nothing to do, or failed. *)
Decline(w) ==
  /\ job[w] # NoJob
  /\ job' = [job EXCEPT ![w] = NoJob]
  /\ alone' = [alone EXCEPT ![w] = TRUE]
  /\ UNCHANGED rows

Next == \E w \in Workers : Submit(w) \/ Serve(w) \/ Decline(w)

Spec == Init /\ [][Next]_accountVars
=============================================================================
