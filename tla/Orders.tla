-------------------------------- MODULE Orders --------------------------------
(***************************************************************************)
(* The orders domain: placing an order from a cart.  OrderService reads    *)
(* the cart through a port, in no transaction of its own, flushes the      *)
(* order and its items, asks another port for adjustments, recomputes the  *)
(* total, sends the event and the audit record, best effort, and the route *)
(* commits.                                                                *)
(*                                                                         *)
(* A submission is a customer's wish to check one cart out.  Its client    *)
(* sends the request again while it has no answer, so that a submission    *)
(* has several attempts, each a thread with a transaction of its own; an   *)
(* order has a fresh identifier and is named by the attempt that makes it. *)
(* Amounts are counted in half cents: a NUMERIC(10, 2) column holds whole  *)
(* cents, that is even amounts, while a Python Decimal may be finer.       *)
(***************************************************************************)
EXTENDS Integers, FiniteSets, Functions

CONSTANTS Submissions,
          MaxAttempts,   \* how often a client sends one submission
          Carts,
          CartOf,        \* the cart a submission checks out
          Contents,      \* sets of items a cart may hold
          Rulings,       \* sets of adjustments the rules may yield
          MaxAmount,     \* the largest amount of a NUMERIC(10, 2) column
          NoCart,        \* what the cart port returns for a cart it lacks
          NoOrder

ASSUME AttemptAssumption == MaxAttempts \in Nat
ASSUME CartAssumption == CartOf \in [Submissions -> Carts]

(* The amounts of a cart come from columns of whole cents; the adjustments of
   an order are rows of their own, told apart by their names. *)
Cents == {x \in Int : x % 2 = 0}
IsAdjustment(a) ==
  a = [name |-> a.name, kind |-> a.kind, value |-> a.value] /\ a.value \in Int

ASSUME ContentsAssumption ==
  \A items \in Contents :
    /\ IsFiniteSet(items)
    /\ \A i \in items : /\ i.quantity \in Nat
                        /\ {i.unit_price, i.discount_value, i.tax_value} \subseteq Cents
ASSUME RulingsAssumption ==
  \A adjustments \in Rulings :
    /\ IsFiniteSet(adjustments)
    /\ \A a \in adjustments : IsAdjustment(a)
    /\ \A a, b \in adjustments : a.name = b.name => a = b

VARIABLES
  cart,      \* what the cart port would return
  sent,      \* how often a submission was sent
  answer,    \* what its client heard
  pc,        \* how far an attempt got
  snap,      \* the items its cart held when it was read
  draft,     \* its uncommitted order
  order,     \* the committed orders
  said,      \* the events and audit records that reached their sinks
  lost       \* the sinks that dropped what an attempt had to say

sinkVars == <<said, lost>>
vars == <<cart, sent, answer, pc, snap, draft, order, sinkVars>>

Attempts == Submissions \X (1..MaxAttempts)

Carted(items) == [status |-> "active", items |-> items]
CartStates ==
  {NoCart} \cup [status : {"active"}, items : Contents]
           \cup {[status |-> "inactive", items |-> {}]}

-----------------------------------------------------------------------------
(* The arithmetic of place_order. *)
Subtotal(items) == SumFunction([i \in items |-> i.unit_price * i.quantity])
DiscountTotal(items) == SumFunction([i \in items |-> i.discount_value])
TaxTotal(items) == SumFunction([i \in items |-> i.tax_value])

OfKind(adjustments, k) == {a \in adjustments : a.kind = k}
Values(adjustments, k) == SumFunction([a \in OfKind(adjustments, k) |-> a.value])

ItemsTotal(items) == Subtotal(items) - DiscountTotal(items) + TaxTotal(items)

Adjusted(items, adjustments) ==
  ItemsTotal(items) - Values(adjustments, "deduction")
    + Values(adjustments, "surcharge")

(* What a NUMERIC(10, 2) column makes of an amount: halves are rounded away
   from zero. *)
Stored(x) == IF x % 2 = 0 THEN x ELSE IF x > 0 THEN x + 1 ELSE x - 1

FitsAlways(x) == TRUE                      \* mutant: the column is not checked

Fits(x) == Stored(x) \in (-MaxAmount)..MaxAmount

NewOrder(t) ==
  [cart |-> CartOf[t[1]], items |-> {}, adjustments |-> {},
   subtotal |-> Subtotal(snap[t]), total_amount |-> ItemsTotal(snap[t])]

StoredOrder(o) ==
  [o EXCEPT !.total_amount = Stored(@),
            !.adjustments = {[a EXCEPT !.value = Stored(@)] : a \in o.adjustments}]

-----------------------------------------------------------------------------
Init ==
  /\ cart \in [Carts -> {Carted(items) : items \in Contents}]
  /\ sent = [u \in Submissions |-> 0]
  /\ answer = [u \in Submissions |-> "none"]
  /\ pc = [t \in Attempts |-> "none"]
  /\ snap = [t \in Attempts |-> {}]
  /\ draft = [t \in Attempts |-> NoOrder]
  /\ order = [t \in Attempts |-> NoOrder]
  /\ said = {}
  /\ lost = {}

(* Requests of other customers and domains change, close or delete a cart. *)
CartChanges ==
  /\ \E c \in Carts, new \in CartStates : cart' = [cart EXCEPT ![c] = new]
  /\ UNCHANGED <<sent, answer, pc, snap, draft, order, sinkVars>>

(* A client sends the request, again while it has no answer: the last one was
   lost, or is late. *)
Send(u) ==
  /\ answer[u] = "none"
  /\ sent[u] < MaxAttempts
  /\ sent' = [sent EXCEPT ![u] = @ + 1]
  /\ pc' = [pc EXCEPT ![<<u, sent[u] + 1>>] = "start"]
  /\ UNCHANGED <<cart, answer, snap, draft, order, sinkVars>>

Goto(t, label) ==
  /\ pc' = [pc EXCEPT ![t] = label]
  /\ UNCHANGED <<cart, sent, order>>

(* The session closes; the answer reaches the client, if it still waits for
   one, or is lost. *)
End(t, label, a) ==
  /\ pc' = [pc EXCEPT ![t] = label]
  /\ snap' = [snap EXCEPT ![t] = {}]
  /\ draft' = [draft EXCEPT ![t] = NoOrder]
  /\ \/ answer' = [answer EXCEPT ![t[1]] = IF @ = "none" THEN a ELSE @]
     \/ UNCHANGED answer

-----------------------------------------------------------------------------
(* get_cart and the three checks of what it returned *)
Eligible(c) == c # NoCart /\ c.status = "active" /\ c.items # {}

ReadCart(t) ==
  LET c == cart[CartOf[t[1]]] IN
  /\ pc[t] = "start"
  /\ Eligible(c)
  /\ snap' = [snap EXCEPT ![t] = c.items]
  /\ Goto(t, "read")
  /\ UNCHANGED <<answer, draft, sinkVars>>

Refuse(t) ==
  /\ pc[t] = "start"
  /\ ~Eligible(cart[CartOf[t[1]]])
  /\ End(t, "failed", "refused")
  /\ UNCHANGED <<cart, sent, order, sinkVars>>

(* The order is flushed before it has items. *)
FlushOrder(t) ==
  /\ pc[t] = "read"
  /\ \A total \in {Subtotal(snap[t]), DiscountTotal(snap[t]), TaxTotal(snap[t]),
                    ItemsTotal(snap[t])} : Fits(total)
  /\ draft' = [draft EXCEPT ![t] = NewOrder(t)]
  /\ Goto(t, "order")
  /\ UNCHANGED <<answer, snap, sinkVars>>

FlushItemsReading(t) ==                    \* mutant: asks for the cart again
  /\ pc[t] = "order"
  /\ Eligible(cart[CartOf[t[1]]])
  /\ draft' = [draft EXCEPT ![t].items = cart[CartOf[t[1]]].items]
  /\ Goto(t, "items")
  /\ UNCHANGED <<answer, snap, sinkVars>>

FlushItems(t) ==
  /\ pc[t] = "order"
  /\ draft' = [draft EXCEPT ![t].items = snap[t]]
  /\ Goto(t, "items")
  /\ UNCHANGED <<answer, snap, sinkVars>>

(* get_adjustments; without any the total stays as it was flushed. *)
FlushAdjustments(t) ==
  /\ pc[t] = "items"
  /\ \E adjustments \in Rulings :
       LET total == IF adjustments = {} THEN draft[t].total_amount
                    ELSE Adjusted(snap[t], adjustments) IN
       /\ Fits(total) /\ \A a \in adjustments : Fits(a.value)
       /\ draft' = [draft EXCEPT ![t].adjustments = adjustments,
                                ![t].total_amount = total]
  /\ Goto(t, "placed")
  /\ UNCHANGED <<answer, snap, sinkVars>>

MessageUnadjusted(sink, t, o, count) ==    \* mutant: the local total_amount
  [sink |-> sink, order |-> t, cart |-> o.cart,
   total_amount |-> ItemsTotal(o.items), items_count |-> count]

Message(sink, t, o, count) ==
  [sink |-> sink, order |-> t, cart |-> o.cart, total_amount |-> o.total_amount,
   items_count |-> count]

(* publish_order_placed, then record_audit: a failing broker or store is only
   logged.  Both say what the object in the session says. *)
Tell(t, sink) ==
  \/ /\ said' = said \cup {Message(sink, t, draft[t], Cardinality(snap[t]))}
     /\ UNCHANGED lost
  \/ /\ lost' = lost \cup {<<sink, t>>}
     /\ UNCHANGED said

Publish(t) ==
  /\ pc[t] = "placed"
  /\ Tell(t, "event")
  /\ Goto(t, "published")
  /\ UNCHANGED <<answer, snap, draft>>

Audit(t) ==
  /\ pc[t] = "published"
  /\ Tell(t, "audit")
  /\ Goto(t, "written")
  /\ UNCHANGED <<answer, snap, draft>>

(* db.commit() of the route *)
Commit(t) ==
  /\ pc[t] = "written"
  /\ order' = [order EXCEPT ![t] = StoredOrder(draft[t])]
  /\ End(t, "committed", "placed")
  /\ UNCHANGED <<cart, sent, sinkVars>>

(* A statement, also one with an amount that does not fit its column, the
   commit or the process fails: rollback.  The client has no answer that would
   stop it from trying again. *)
Running == {"start", "read", "order", "items", "placed", "published", "written"}

Fail(t) ==
  /\ pc[t] \in Running
  /\ End(t, "failed", "none")
  /\ UNCHANGED <<cart, sent, order, sinkVars>>

Place(t) == \/ ReadCart(t) \/ Refuse(t) \/ FlushOrder(t) \/ FlushItems(t)
            \/ FlushAdjustments(t) \/ Publish(t) \/ Audit(t) \/ Commit(t) \/ Fail(t)

Next == CartChanges \/ (\E u \in Submissions : Send(u)) \/ (\E t \in Attempts : Place(t))

Spec == Init /\ [][Next]_vars

-----------------------------------------------------------------------------
TypeOK ==
  /\ cart \in [Carts -> CartStates]
  /\ sent \in [Submissions -> 0..MaxAttempts]
  /\ answer \in [Submissions -> {"none", "refused", "placed"}]
  /\ pc \in [Attempts -> Running \cup {"none", "failed", "committed"}]
  /\ snap \in [Attempts -> Contents \cup {{}}]
  /\ \A t \in Attempts : order[t] # NoOrder =>
       order[t].items \in Contents /\ order[t].total_amount \in (-MaxAmount)..MaxAmount

(***************************************************************************)
(* The total of a stored order is what its own stored rows add up to: the  *)
(* amounts of its items and adjustments, each of which was rounded to      *)
(* cents on its own, so that the total may be off by half a cent for each  *)
(* adjustment and for itself.  This holds although the cart changes while  *)
(* the order is placed.  Adjustments are part of the total of an order     *)
(* from its placement on, as lines 15, 82 and 101 of the README of the     *)
(* domain say, and against its lines 84-85, which say they are not.        *)
(***************************************************************************)
Distance(x, y) == IF x > y THEN x - y ELSE y - x

AddsUp(o) ==
  /\ o.subtotal = Subtotal(o.items)
  /\ Distance(o.total_amount, Adjusted(o.items, o.adjustments))
       <= IF o.adjustments = {} THEN 0 ELSE Cardinality(o.adjustments) + 1

OrderAddsUp == \A t \in Attempts : order[t] # NoOrder => AddsUp(order[t])

(***************************************************************************)
(* The OrderPlaced event and the audit record of a committed order carry   *)
(* its cart, the number of its items and, up to rounding, the total that   *)
(* was stored, adjustments included; and it has both of them unless the    *)
(* broker or the store dropped one.                                        *)
(***************************************************************************)
Says(m, o) ==
  /\ m.cart = o.cart
  /\ Stored(m.total_amount) = o.total_amount
  /\ m.items_count = Cardinality(o.items)

Has(sink, t) == <<sink, t>> \in lost \/ \E m \in said : m.sink = sink /\ m.order = t

Matched(t) ==
  order[t] # NoOrder =>
    /\ \A m \in said : m.order = t => Says(m, order[t])
    /\ \A sink \in {"event", "audit"} : Has(sink, t)

MessagesMatchOrders == \A t \in Attempts : Matched(t)

(***************************************************************************)
(* The inductive invariant behind the theorems of OrdersProofs.            *)
(***************************************************************************)
IsOrder(o) ==
  o = [cart |-> o.cart, items |-> o.items, adjustments |-> o.adjustments,
       subtotal |-> o.subtotal, total_amount |-> o.total_amount]

Drafted(t) ==
  /\ t[2] > sent[t[1]] => pc[t] = "none"
  /\ order[t] # NoOrder => pc[t] = "committed"
  /\ pc[t] \in {"read", "order", "items", "placed", "published", "written"} =>
       snap[t] \in Contents
  /\ pc[t] \in {"order", "items", "placed", "published", "written"} =>
       /\ IsOrder(draft[t])
       /\ draft[t].cart = CartOf[t[1]]
       /\ Fits(draft[t].total_amount)
       /\ pc[t] # "order" => draft[t].items = snap[t]

(* What was said of an attempt that is not over is what its draft says. *)
Told(t) ==
  /\ \A m \in said : m.order = t =>
       /\ pc[t] \in {"published", "written", "committed", "failed"}
       /\ pc[t] \in {"published", "written"} =>
            m = Message(m.sink, t, draft[t], Cardinality(snap[t]))
  /\ pc[t] \in {"published", "written"} => Has("event", t)
  /\ pc[t] = "written" => Has("audit", t)

AttemptOK(t) == Drafted(t) /\ Told(t) /\ Matched(t)

Indexed(f) == f = [t \in Attempts |-> f[t]]

IInv ==
  /\ TypeOK
  /\ Indexed(draft) /\ Indexed(order)
  /\ \A t \in Attempts : AttemptOK(t)

(* The bill of a draft is that of the items read, whatever became of the cart;
   it is what makes a stored order add up. *)
Billed(t) ==
  /\ pc[t] \in {"order", "items", "placed", "published", "written"} =>
       /\ draft[t].subtotal = Subtotal(snap[t])
       /\ draft[t].adjustments \in Rulings \cup {{}}
       /\ draft[t].total_amount = Adjusted(snap[t], draft[t].adjustments)
       /\ pc[t] \in {"order", "items"} => draft[t].adjustments = {}
  /\ order[t] # NoOrder => AddsUp(order[t])

AllBilled == \A t \in Attempts : Billed(t)

-----------------------------------------------------------------------------
(* docs/adr/011-operation-safety.md:58, "Payment and order operations can be
   retried aggressively without risk of duplication." *)
OneOrderPerSubmission ==
  \A s, t \in Attempts :
    s[1] = t[1] /\ order[s] # NoOrder /\ order[t] # NoOrder => s = t
=============================================================================
