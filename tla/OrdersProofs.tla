----------------------------- MODULE OrdersProofs -----------------------------
(***************************************************************************)
(* Theorems about Orders, for any submissions, carts, contents and rules,  *)
(* any number of attempts, and failures at any step: what is stored fits   *)
(* its columns, and the event and the audit record of a committed order    *)
(* say what was stored, which is what its items and adjustments add up to. *)
(***************************************************************************)
EXTENDS Orders, SumLemmas, TLAPS

(* Everything about an attempt but its order, which others never write. *)
SameAttempt(t) ==
  pc'[t] = pc[t] /\ snap'[t] = snap[t] /\ draft'[t] = draft[t] /\ order'[t] = order[t]

(* An attempt is untouched by the steps and the messages of another. *)
LEMMA Frame ==
  ASSUME NEW t \in Attempts, AttemptOK(t), SameAttempt(t),
         t[2] > sent'[t[1]] => t[2] > sent[t[1]],
         said \subseteq said', lost \subseteq lost',
         \A m \in said' \ said : m.order # t
  PROVE  AttemptOK(t)'
<1>. USE DEF SameAttempt
<1>1. Drafted(t)'
  BY DEF AttemptOK, Drafted
<1>2. \A sink \in {"event", "audit"} : Has(sink, t) => Has(sink, t)'
  BY DEF Has
<1>3. \A m \in said' : m.order = t => m \in said
  OBVIOUS
<1>4. Told(t)'
  BY <1>2, <1>3 DEF AttemptOK, Told, Message
<1>5. Matched(t)'
  BY <1>2, <1>3 DEF AttemptOK, Matched
<1>. QED  BY <1>1, <1>4, <1>5 DEF AttemptOK

LEMMA InitIInv == Init => IInv
<1>. SUFFICES ASSUME Init PROVE IInv
  OBVIOUS
<1>1. TypeOK
  BY AttemptAssumption DEF Init, TypeOK, Attempts, Carted, CartStates
<1>2. ASSUME NEW t \in Attempts PROVE AttemptOK(t)
  BY DEF Init, AttemptOK, Drafted, Told, Matched
<1>3. Indexed(draft) /\ Indexed(order)
  BY DEF Init, Indexed
<1>. QED  BY <1>1, <1>2, <1>3 DEF IInv

(* The carts, and a client that sends its submission again. *)
LEMMA OutsideIInv ==
  ASSUME IInv, CartChanges \/ \E u \in Submissions : Send(u)
  PROVE  IInv'
<1>. USE DEF sinkVars
<1>1. CASE CartChanges
  <2>1. TypeOK'
    BY <1>1 DEF IInv, TypeOK, CartChanges
  <2>2. ASSUME NEW t \in Attempts PROVE AttemptOK(t)'
    BY <1>1, Frame DEF IInv, CartChanges, SameAttempt
  <2>. QED  BY <1>1, <2>1, <2>2 DEF IInv, CartChanges, Indexed
<1>2. ASSUME NEW u \in Submissions, Send(u) PROVE IInv'
  <2>. DEFINE new == <<u, sent[u] + 1>>
  <2>1. sent[u] \in Nat /\ sent[u] + 1 \in 1..MaxAttempts /\ new \in Attempts
        /\ sent' = [sent EXCEPT ![u] = sent[u] + 1]
    BY <1>2, AttemptAssumption DEF IInv, TypeOK, Send, Attempts
  <2>2. TypeOK'
    <3>1. pc' = [pc EXCEPT ![new] = "start"]
      BY <1>2 DEF Send
    <3>2. sent' \in [Submissions -> 0..MaxAttempts]
      BY <2>1, AttemptAssumption DEF IInv, TypeOK
    <3>. HIDE DEF new
    <3>. QED  BY <1>2, <2>1, <3>1, <3>2 DEF IInv, TypeOK, Send, Running
  <2>3. ASSUME NEW t \in Attempts PROVE AttemptOK(t)'
    <3>1. t[1] \in Submissions /\ t[2] \in Nat /\ t = <<t[1], t[2]>>
      BY AttemptAssumption DEF Attempts
    <3>2. CASE t = new
      <4>1. pc[t] = "none" /\ pc'[t] = "start" /\ ~(t[2] > sent'[t[1]])
        BY <1>2, <2>1, <3>1, <3>2 DEF IInv, TypeOK, AttemptOK, Drafted, Send
      <4>2. order'[t] = NoOrder /\ \A m \in said' : m.order # t
        BY <1>2, <4>1 DEF IInv, AttemptOK, Drafted, Told, Send
      <4>. QED  BY <4>1, <4>2 DEF AttemptOK, Drafted, Told, Matched
    <3>3. CASE t # new
      <4>1. SameAttempt(t)
        BY <1>2, <3>3 DEF IInv, TypeOK, Send, SameAttempt
      <4>2. t[2] > sent'[t[1]] => t[2] > sent[t[1]]
        BY <2>1, <3>1 DEF IInv, TypeOK
      <4>3. AttemptOK(t) /\ said' = said /\ lost' = lost
        BY <1>2 DEF IInv, Send
      <4>. QED  BY <4>1, <4>2, <4>3, Frame
    <3>. QED  BY <3>2, <3>3
  <2>4. draft' = draft /\ order' = order
    BY <1>2 DEF Send
  <2>. QED  BY <2>2, <2>3, <2>4 DEF IInv, Indexed
<1>. QED  BY <1>1, <1>2

(* A step of one attempt: it suffices to look at that attempt. *)
LEMMA StepIInv ==
  ASSUME IInv, NEW t \in Attempts, TypeOK', AttemptOK(t)',
         Indexed(draft)', Indexed(order)',
         \A u \in Attempts \ {t} : SameAttempt(u),
         sent' = sent, said \subseteq said', lost \subseteq lost',
         \A m \in said' \ said : m.order = t
  PROVE  IInv'
<1>1. ASSUME NEW u \in Attempts PROVE AttemptOK(u)'
  <2>1. CASE u # t
    <3>1. AttemptOK(u) /\ SameAttempt(u) /\ \A m \in said' \ said : m.order # u
      BY <2>1 DEF IInv
    <3>. QED  BY <3>1, Frame
  <2>. QED  BY <2>1
<1>. QED  BY <1>1 DEF IInv

(* The session closes. *)
LEMMA EndTypes ==
  ASSUME IInv, NEW t \in Attempts, NEW l \in {"failed", "committed"},
         NEW a \in {"none", "refused", "placed"}, End(t, l, a)
  PROVE  /\ answer' \in [Submissions -> {"none", "refused", "placed"}]
         /\ pc' \in [Attempts -> Running \cup {"none", "failed", "committed"}]
         /\ snap' \in [Attempts -> Contents \cup {{}}]
         /\ pc'[t] = l
         /\ \A u \in Attempts \ {t} : pc'[u] = pc[u] /\ snap'[u] = snap[u]
<1>1. t[1] \in Submissions
  BY DEF Attempts
<1>. QED  BY <1>1 DEF IInv, TypeOK, End

(* The steps that only read or write the attempt's own state. *)
LEMMA ReadIInv ==
  ASSUME IInv, NEW t \in Attempts, ReadCart(t) PROVE IInv'
<1>. USE DEF sinkVars
<1>1. cart[CartOf[t[1]]] \in CartStates
  BY CartAssumption DEF Attempts, IInv, TypeOK
<1>2. cart[CartOf[t[1]]].items \in Contents
  BY <1>1 DEF ReadCart, Eligible, CartStates
<1>3. TypeOK'
  BY <1>2 DEF IInv, TypeOK, ReadCart, Goto, Running
<1>4. pc[t] = "start" /\ pc'[t] = "read" /\ snap'[t] \in Contents
  BY <1>2 DEF IInv, TypeOK, ReadCart, Goto
<1>5. AttemptOK(t)'
  BY <1>4 DEF IInv, AttemptOK, Drafted, Told, Matched, ReadCart, Goto
<1>6. \A u \in Attempts \ {t} : SameAttempt(u)
  BY DEF IInv, TypeOK, SameAttempt, ReadCart, Goto
<1>. QED  BY <1>3, <1>5, <1>6, StepIInv DEF ReadCart, Goto, IInv, Indexed

LEMMA FlushIInv ==
  ASSUME IInv, NEW t \in Attempts,
         FlushOrder(t) \/ FlushItems(t) \/ FlushAdjustments(t)
  PROVE  IInv'
<1>. USE DEF sinkVars
<1>1. /\ pc[t] \in {"read", "order", "items"}
      /\ pc'[t] \in {"order", "items", "placed"}
      /\ snap[t] \in Contents
      /\ order[t] = NoOrder
      /\ UNCHANGED <<cart, sent, answer, snap, order, said, lost>>
      /\ \E o : draft' = [draft EXCEPT ![t] = o]
  <2>1. \E o : draft' = [draft EXCEPT ![t] = o]
    <3>1. CASE FlushOrder(t)
      BY <3>1 DEF FlushOrder
    <3>2. CASE FlushItems(t)
      BY <3>2 DEF FlushItems
    <3>3. CASE FlushAdjustments(t)
      BY <3>3 DEF FlushAdjustments
    <3>. QED  BY <3>1, <3>2, <3>3
  <2>. QED
    BY <2>1 DEF FlushOrder, FlushItems, FlushAdjustments, Goto, IInv, TypeOK, AttemptOK, Drafted
<1>2. TypeOK'
  BY <1>1 DEF IInv, TypeOK, FlushOrder, FlushItems, FlushAdjustments, Goto, Running
<1>3. Drafted(t)'
  <2>1. CASE FlushOrder(t)
    <3>1. draft'[t] = NewOrder(t) /\ pc'[t] = "order"
      BY <2>1 DEF FlushOrder, Goto, IInv, TypeOK, Indexed
    <3>2. /\ IsOrder(NewOrder(t)) /\ NewOrder(t).cart = CartOf[t[1]]
          /\ NewOrder(t).total_amount = ItemsTotal(snap[t])
      BY DEF NewOrder, IsOrder
    <3>3. Fits(ItemsTotal(snap[t]))
      BY <2>1 DEF FlushOrder
    <3>4. Drafted(t) /\ pc[t] # "none"
      BY <1>1 DEF IInv, AttemptOK
    <3>. HIDE DEF FlushOrder
    <3>. QED  BY <1>1, <3>1, <3>2, <3>3, <3>4 DEF IsOrder, Drafted
  <2>2. CASE FlushItems(t)
    <3>1. draft'[t] = [draft[t] EXCEPT !.items = snap[t]] /\ pc[t] = "order" /\ pc'[t] = "items"
      BY <2>2 DEF FlushItems, Goto, IInv, TypeOK, Indexed
    <3>. QED
      BY <1>1, <3>1 DEF IsOrder, IInv, AttemptOK, Drafted
  <2>3. CASE FlushAdjustments(t)
    <3>1. PICK adjustments \in Rulings : \E total :
            /\ draft'[t] = [draft[t] EXCEPT !.adjustments = adjustments, !.total_amount = total]
            /\ Fits(total)
      BY <2>3 DEF FlushAdjustments, IInv, Indexed
    <3>2. pc[t] = "items" /\ pc'[t] = "placed"
      BY <2>3 DEF FlushAdjustments, Goto, IInv, TypeOK
    <3>. QED
      BY <1>1, <3>1, <3>2 DEF IsOrder, IInv, AttemptOK, Drafted
  <2>. QED  BY <2>1, <2>2, <2>3
<1>4. AttemptOK(t)'
  BY <1>1, <1>3 DEF IInv, AttemptOK, Told, Matched
<1>5. Indexed(draft)' /\ Indexed(order)'
  BY <1>1 DEF IInv, Indexed
<1>6. \A u \in Attempts \ {t} : SameAttempt(u)
  <2>1. pc' = [pc EXCEPT ![t] = pc'[t]]
    BY DEF FlushOrder, FlushItems, FlushAdjustments, Goto, IInv, TypeOK
  <2>. QED  BY <1>1, <2>1 DEF IInv, TypeOK, Indexed, SameAttempt
<1>. QED  BY <1>1, <1>2, <1>4, <1>5, <1>6, StepIInv

(* The event and the audit record say what the draft says, or are lost. *)
LEMMA TellIInv ==
  ASSUME IInv, NEW t \in Attempts, Publish(t) \/ Audit(t)
  PROVE  IInv'
<1>. DEFINE said_by(sink) == Message(sink, t, draft[t], Cardinality(snap[t]))
<1>1. PICK sink \in {"event", "audit"} :
        /\ Tell(t, sink)
        /\ sink = "event" => pc[t] = "placed" /\ pc'[t] = "published"
        /\ sink = "audit" => pc[t] = "published" /\ pc'[t] = "written"
        /\ pc' = [pc EXCEPT ![t] = pc'[t]]
  BY DEF Publish, Audit, Goto, IInv, TypeOK
<1>2. UNCHANGED <<cart, sent, answer, snap, draft, order>>
  BY DEF Publish, Audit, Goto
<1>3. order[t] = NoOrder /\ pc[t] \in {"placed", "published"}
  BY <1>1 DEF IInv, AttemptOK, Drafted
<1>4. TypeOK'
  BY <1>1, <1>2 DEF IInv, TypeOK, Running
<1>5. /\ said \subseteq said' /\ lost \subseteq lost'
      /\ \A m \in said' \ said : m = said_by(sink)
      /\ Has(sink, t)'
  <2>1. said_by(sink).sink = sink /\ said_by(sink).order = t
    BY DEF Message
  <2>. HIDE DEF said_by
  <2>2. CASE said' = said \cup {said_by(sink)} /\ lost' = lost
    BY <2>1, <2>2 DEF Has
  <2>3. CASE lost' = lost \cup {<<sink, t>>} /\ said' = said
    BY <2>3 DEF Has
  <2>. USE DEF said_by
  <2>. QED  BY <1>1, <2>2, <2>3 DEF Tell
<1>6. \A m \in said' \ said : m.sink = sink /\ m.order = t
  BY <1>5 DEF Message
<1>7. Told(t)'
  <2>1. \A m \in said' : m.order = t => m = Message(m.sink, t, draft[t], Cardinality(snap[t]))
    BY <1>1, <1>3, <1>5, <1>6 DEF IInv, AttemptOK, Told
  <2>2. Has("event", t) => Has("event", t)'
    BY <1>5 DEF Has
  <2>3. pc'[t] = "written" => Has("event", t)
    BY <1>1 DEF IInv, AttemptOK, Told
  <2>. QED  BY <1>1, <1>2, <1>5, <2>1, <2>2, <2>3 DEF Told, Message
<1>8. AttemptOK(t)'
  BY <1>1, <1>2, <1>3, <1>7 DEF IInv, AttemptOK, Drafted, Matched
<1>9. \A u \in Attempts \ {t} : SameAttempt(u)
  BY <1>1, <1>2 DEF IInv, TypeOK, SameAttempt
<1>. QED  BY <1>2, <1>4, <1>5, <1>6, <1>8, <1>9, StepIInv DEF IInv, Indexed

(* What is stored is the draft, with its amounts rounded. *)
LEMMA CommitIInv ==
  ASSUME IInv, NEW t \in Attempts, Commit(t) PROVE IInv'
<1>1. End(t, "committed", "placed") /\ UNCHANGED <<cart, sent, said, lost>>
  BY DEF Commit, sinkVars
<1>2. /\ pc[t] = "written" /\ snap[t] \in Contents
      /\ IsOrder(draft[t]) /\ Fits(draft[t].total_amount)
      /\ draft[t].items = snap[t] /\ draft[t].cart = CartOf[t[1]]
  BY DEF Commit, IInv, AttemptOK, Drafted
<1>3. /\ order'[t].items = snap[t]
      /\ order'[t].cart = draft[t].cart
      /\ order'[t].total_amount = Stored(draft[t].total_amount)
      /\ order' = [order EXCEPT ![t] = order'[t]]
  BY <1>2 DEF Commit, StoredOrder, IsOrder, IInv, Indexed
<1>4. /\ pc'[t] = "committed"
      /\ \A u \in Attempts \ {t} : pc'[u] = pc[u] /\ snap'[u] = snap[u]
  BY <1>1, EndTypes
<1>5. TypeOK'
  <2>1. \A u \in Attempts : order'[u] # NoOrder =>
          order'[u].items \in Contents /\ order'[u].total_amount \in (-MaxAmount)..MaxAmount
    BY <1>2, <1>3 DEF IInv, TypeOK, Fits, Indexed
  <2>. QED  BY <1>1, <2>1, EndTypes DEF IInv, TypeOK
<1>6. Drafted(t)'
  BY <1>1, <1>2, <1>4 DEF IInv, AttemptOK, Drafted
<1>7. Told(t)'
  BY <1>1, <1>2, <1>4 DEF IInv, AttemptOK, Told
<1>8. Matched(t)'
  <2>1. \A m \in said : m.order = t => Says(m, order'[t])
    BY <1>2, <1>3 DEF IInv, AttemptOK, Told, Says, Message
  <2>2. \A sink \in {"event", "audit"} : Has(sink, t)
    BY <1>2 DEF IInv, AttemptOK, Told
  <2>. QED  BY <1>1, <2>1, <2>2 DEF Matched, Has, Says
<1>9. Indexed(draft)' /\ Indexed(order)'
  BY <1>1, <1>3 DEF End, IInv, Indexed
<1>10. \A u \in Attempts \ {t} : SameAttempt(u)
  BY <1>1, <1>3, <1>4 DEF End, IInv, Indexed, SameAttempt
<1>. QED  BY <1>1, <1>5, <1>6, <1>7, <1>8, <1>9, <1>10, StepIInv DEF AttemptOK

(* A refusal or a failure leaves no order. *)
LEMMA FailIInv ==
  ASSUME IInv, NEW t \in Attempts, Refuse(t) \/ Fail(t) PROVE IInv'
<1>1. /\ \E a \in {"none", "refused", "placed"} : End(t, "failed", a)
      /\ UNCHANGED <<cart, sent, order, said, lost>>
      /\ pc[t] \in Running
  BY DEF Refuse, Fail, sinkVars, Running
<1>2. /\ pc'[t] = "failed"
      /\ \A u \in Attempts \ {t} : pc'[u] = pc[u] /\ snap'[u] = snap[u]
  BY <1>1, EndTypes
<1>3. TypeOK'
  <2>1. /\ answer' \in [Submissions -> {"none", "refused", "placed"}]
        /\ pc' \in [Attempts -> Running \cup {"none", "failed", "committed"}]
        /\ snap' \in [Attempts -> Contents \cup {{}}]
    BY <1>1, EndTypes
  <2>. QED  BY <1>1, <2>1 DEF IInv, TypeOK
<1>4. AttemptOK(t)'
  <2>1. order[t] = NoOrder /\ ~(t[2] > sent[t[1]])
    BY <1>1 DEF IInv, AttemptOK, Drafted, Running
  <2>. QED  BY <1>1, <1>2, <2>1 DEF AttemptOK, Drafted, Told, Matched
<1>5. draft' = [draft EXCEPT ![t] = NoOrder]
  BY <1>1 DEF End
<1>6. Indexed(draft)' /\ Indexed(order)'
  BY <1>1, <1>5 DEF IInv, Indexed
<1>7. \A u \in Attempts \ {t} : SameAttempt(u)
  BY <1>1, <1>2, <1>5 DEF IInv, Indexed, SameAttempt
<1>. QED  BY <1>1, <1>3, <1>4, <1>6, <1>7, StepIInv

(* IInv is an invariant: one step of the proof per kind of action. *)
THEOREM Inductive == Spec => []IInv
<1>1. Init => IInv
  BY InitIInv
<1>2. IInv /\ [Next]_vars => IInv'
  <2>. SUFFICES ASSUME IInv, [Next]_vars PROVE IInv'
    OBVIOUS
  <2>1. CASE CartChanges \/ \E u \in Submissions : Send(u)
    BY <2>1, OutsideIInv
  <2>2. ASSUME NEW t \in Attempts, Place(t) PROVE IInv'
    BY <2>2, ReadIInv, FlushIInv, TellIInv, CommitIInv, FailIInv DEF Place
  <2>3. CASE UNCHANGED vars
    <3>1. TypeOK'
      BY <2>3 DEF vars, sinkVars, IInv, TypeOK
    <3>2. ASSUME NEW t \in Attempts PROVE AttemptOK(t)'
      <4>1. AttemptOK(t) /\ SameAttempt(t) /\ sent' = sent /\ said' = said /\ lost' = lost
        BY <2>3 DEF vars, sinkVars, IInv, SameAttempt
      <4>. QED  BY <4>1, Frame
    <3>. QED  BY <2>3, <3>1, <3>2 DEF vars, IInv, Indexed
  <2>. QED  BY <2>1, <2>2, <2>3 DEF Next
<1>. QED  BY <1>1, <1>2, PTL DEF Spec

(* What is stored has the types of its columns: the total of place_order, also
   the one recomputed with the adjustments, fits NUMERIC(10, 2) or nothing is
   stored. *)
THEOREM TypeCorrect == Spec => []TypeOK
<1>1. IInv => TypeOK
  BY DEF IInv
<1>. QED  BY <1>1, Inductive, PTL

(* The event and the audit record of place_order, sent before the commit, say
   of every committed order what was stored. *)
THEOREM ToldWhatIsStored == Spec => []MessagesMatchOrders
<1>1. IInv => MessagesMatchOrders
  BY DEF IInv, AttemptOK, MessagesMatchOrders
<1>. QED  BY <1>1, Inductive, PTL

-----------------------------------------------------------------------------
(* The arithmetic: items cost whole cents, and so do their totals. *)
LEMMA CentsClosed ==
  /\ Cents \subseteq Int /\ 0 \in Cents
  /\ \A x, y \in Cents : x + y \in Cents /\ x - y \in Cents
BY DEF Cents

LEMMA CentsTimes ==
  ASSUME NEW x \in Cents, NEW n \in Nat PROVE x * n \in Cents
<1>1. PICK k \in Int : x = 2 * k
  <2>1. x \in Int /\ x = 2 * (x \div 2)
    BY DEF Cents
  <2>. QED  BY <2>1
<1>2. x * n = 2 * (k * n) /\ k * n \in Int
  BY <1>1
<1>3. \A m \in Int : (2 * m) % 2 = 0 /\ 2 * m \in Int
  OBVIOUS
<1>. QED  BY <1>2, <1>3 DEF Cents

LEMMA TotalsAreCents ==
  ASSUME NEW items \in Contents
  PROVE  Subtotal(items) \in Cents /\ ItemsTotal(items) \in Cents
<1>. DEFINE price == [i \in items |-> i.unit_price * i.quantity]
            discount == [i \in items |-> i.discount_value]
            tax == [i \in items |-> i.tax_value]
<1>1. IsFiniteSet(items)
  BY ContentsAssumption
<1>2. \A i \in items : price[i] \in Cents /\ discount[i] \in Cents /\ tax[i] \in Cents
  BY ContentsAssumption, CentsTimes
<1>3. \A f : (\A i \in items : f[i] \in Cents) => SumFunctionOnSet(f, items) \in Cents
  BY <1>1, CentsClosed, SumIsClosed
<1>4. DOMAIN price = items /\ DOMAIN discount = items /\ DOMAIN tax = items
  OBVIOUS
<1>5. Subtotal(items) \in Cents /\ DiscountTotal(items) \in Cents /\ TaxTotal(items) \in Cents
  <2>. HIDE DEF price, discount, tax
  <2>1. /\ SumFunction(price) \in Cents
        /\ SumFunction(discount) \in Cents
        /\ SumFunction(tax) \in Cents
    BY <1>2, <1>3, <1>4 DEF SumFunction
  <2>. QED  BY <2>1 DEF Subtotal, DiscountTotal, TaxTotal, price, discount, tax
<1>. QED  BY <1>5, CentsClosed DEF ItemsTotal

(* Rounding moves an amount by half a cent at most, and whole cents not at all. *)
LEMMA StoredIsNear ==
  ASSUME NEW x \in Int
  PROVE  Stored(x) \in Int /\ Stored(x) - x \in -1..1 /\ (x \in Cents => Stored(x) = x)
BY DEF Stored, Cents

StoredRow(a) == [a EXCEPT !.value = Stored(@)]
StoredRows(adjustments) == {StoredRow(a) : a \in adjustments}

(* The adjustments of one kind, added up before and after each was rounded. *)
LEMMA ValuesAreNear ==
  ASSUME NEW adjustments \in Rulings, NEW k
  PROVE  LET n == Cardinality(OfKind(adjustments, k))
             stored == Values(StoredRows(adjustments), k) IN
         /\ n \in Nat /\ Values(adjustments, k) \in Int /\ stored \in Int
         /\ stored - Values(adjustments, k) <= n
         /\ Values(adjustments, k) - stored <= n
<1>. DEFINE S == OfKind(adjustments, k)
            R == OfKind(StoredRows(adjustments), k)
            f == [a \in S |-> a.value]
            g == [a \in R |-> a.value]
            r == [a \in S |-> StoredRow(a)]
<1>1. IsFiniteSet(S) /\ Cardinality(S) \in Nat
  BY RulingsAssumption, FS_Subset, FS_CardinalityType DEF OfKind
<1>2. ASSUME NEW a \in adjustments
      PROVE  /\ a.value \in Int
             /\ StoredRow(a).name = a.name /\ StoredRow(a).kind = a.kind
             /\ StoredRow(a).value = Stored(a.value)
  BY RulingsAssumption DEF IsAdjustment, StoredRow
<1>3. R = {r[a] : a \in S}
  BY <1>2 DEF OfKind, StoredRows
<1>4. \A a \in S : f[a] \in Int /\ g[r[a]] \in Int /\ g[r[a]] - f[a] \in -1..1
  <2>. SUFFICES ASSUME NEW a \in S
                PROVE  f[a] \in Int /\ g[r[a]] \in Int /\ g[r[a]] - f[a] \in -1..1
    OBVIOUS
  <2>1. a \in adjustments
    BY DEF OfKind
  <2>2. r[a] = StoredRow(a) /\ r[a] \in R
    BY <1>3
  <2>3. g[r[a]] = Stored(a.value) /\ f[a] = a.value
    BY <1>2, <2>1, <2>2
  <2>. QED  BY <1>2, <2>1, <2>3, StoredIsNear
<1>5. \A a, b \in S : r[a] = r[b] => a = b
  BY <1>2, RulingsAssumption DEF OfKind
<1>6. DOMAIN f = S /\ DOMAIN g = R
  OBVIOUS
<1>7. /\ Values(adjustments, k) = SumFunctionOnSet(f, S)
      /\ Values(StoredRows(adjustments), k) = SumFunctionOnSet(g, R)
  BY <1>6 DEF Values, SumFunction
<1>8. SumFunctionOnSet(f, S) \in Int
  <2>. HIDE DEF f, S
  <2>. QED  BY <1>1, <1>4, SumIsInt
<1>9. /\ SumFunctionOnSet(g, R) \in Int
      /\ SumFunctionOnSet(g, R) - SumFunctionOnSet(f, S) <= Cardinality(S)
      /\ SumFunctionOnSet(f, S) - SumFunctionOnSet(g, R) <= Cardinality(S)
  <2>. HIDE DEF f, g, r, S, R
  <2>. QED  BY <1>1, <1>3, <1>4, <1>5, SumOfImage
<1>. QED  BY <1>1, <1>7, <1>8, <1>9

(* No adjustments, no difference. *)
LEMMA NothingAdjusted ==
  ASSUME NEW items \in Contents PROVE Adjusted(items, {}) = ItemsTotal(items)
<1>1. \A k : Values({}, k) = 0
  <2>. SUFFICES ASSUME NEW k PROVE Values({}, k) = 0
    OBVIOUS
  <2>1. OfKind({}, k) = {} /\ DOMAIN [a \in {} |-> a.value] = {}
    BY DEF OfKind
  <2>. QED  BY <2>1, SumOfNothing DEF Values, SumFunction
<1>2. ItemsTotal(items) \in Int
  BY TotalsAreCents, CentsClosed
<1>. QED  BY <1>1, <1>2 DEF Adjusted

(* What is stored of a bill adds up. *)
LEMMA StoredAddsUp ==
  ASSUME NEW items \in Contents, NEW adjustments \in Rulings \cup {{}}
  PROVE  LET rows == StoredRows(adjustments)
             total == Stored(Adjusted(items, adjustments)) IN
         Distance(total, Adjusted(items, rows))
           <= IF rows = {} THEN 0 ELSE Cardinality(rows) + 1
<1>0. ItemsTotal(items) \in Cents /\ ItemsTotal(items) \in Int
  BY TotalsAreCents, CentsClosed
<1>1. CASE adjustments = {}
  <2>1. StoredRows(adjustments) = {}
    BY <1>1 DEF StoredRows
  <2>2. Stored(Adjusted(items, adjustments)) = Adjusted(items, {})
    BY <1>0, <1>1, NothingAdjusted, StoredIsNear
  <2>. QED  BY <1>0, <2>1, <2>2, NothingAdjusted DEF Distance
<1>2. CASE adjustments # {}
  <2>. DEFINE rows == StoredRows(adjustments)
              D == OfKind(adjustments, "deduction")
              U == OfKind(adjustments, "surcharge")
  <2>1. adjustments \in Rulings /\ rows # {}
    BY <1>2 DEF StoredRows
  <2>2. IsFiniteSet(adjustments) /\ IsFiniteSet(D) /\ IsFiniteSet(U)
        /\ D \cap U = {} /\ D \cup U \in SUBSET adjustments
    <3>1. D \in SUBSET adjustments /\ U \in SUBSET adjustments /\ D \cap U = {}
      BY DEF OfKind
    <3>. HIDE DEF D, U
    <3>. QED  BY <2>1, <3>1, RulingsAssumption, FS_Subset
  <2>3. Cardinality(D) + Cardinality(U) <= Cardinality(adjustments)
    <3>. HIDE DEF D, U
    <3>1. Cardinality(D \cup U) = Cardinality(D) + Cardinality(U) - Cardinality(D \cap U)
      BY <2>2, FS_Union
    <3>2. Cardinality(D \cap U) = 0 /\ Cardinality(D) \in Nat /\ Cardinality(U) \in Nat
      BY <2>2, FS_EmptySet, FS_CardinalityType
    <3>3. Cardinality(D \cup U) <= Cardinality(adjustments)
      BY <2>2, FS_Subset
    <3>. QED  BY <3>1, <3>2, <3>3
  <2>4. Cardinality(rows) = Cardinality(adjustments)
    <3>. DEFINE r == [a \in adjustments |-> StoredRow(a)]
    <3>1. rows = {r[a] : a \in adjustments}
      BY DEF StoredRows
    <3>2. \A a, b \in adjustments : r[a] = r[b] => a = b
      <4>1. \A a \in adjustments : StoredRow(a).name = a.name
        BY <2>1, RulingsAssumption DEF IsAdjustment, StoredRow
      <4>. QED  BY <2>1, <4>1, RulingsAssumption
    <3>. DEFINE f == [a \in adjustments |-> 0]
                g == [a \in rows |-> 0]
    <3>3. \A a \in adjustments : f[a] \in Int /\ g[r[a]] \in Int /\ g[r[a]] - f[a] \in -1..1
      BY <3>1
    <3>. HIDE DEF r, f, g, rows
    <3>. QED  BY <2>2, <3>1, <3>2, <3>3, SumOfImage
  <2>. DEFINE x == ItemsTotal(items)
              d == Values(adjustments, "deduction")
              u == Values(adjustments, "surcharge")
              e == Values(rows, "deduction")
              v == Values(rows, "surcharge")
  <2>5. /\ d \in Int /\ e \in Int /\ e - d <= Cardinality(D) /\ d - e <= Cardinality(D)
        /\ u \in Int /\ v \in Int /\ v - u <= Cardinality(U) /\ u - v <= Cardinality(U)
        /\ Cardinality(D) \in Nat /\ Cardinality(U) \in Nat
    BY <2>1, ValuesAreNear
  <2>6. Adjusted(items, adjustments) = x - d + u /\ Adjusted(items, rows) = x - e + v
    BY DEF Adjusted
  <2>7. Cardinality(adjustments) \in Nat
    BY <2>2, FS_CardinalityType
  <2>. HIDE DEF rows, D, U, x, d, u, e, v
  <2>8. /\ Adjusted(items, adjustments) \in Int /\ Adjusted(items, rows) \in Int
        /\ Adjusted(items, adjustments) - Adjusted(items, rows) <= Cardinality(adjustments)
        /\ Adjusted(items, rows) - Adjusted(items, adjustments) <= Cardinality(adjustments)
    BY <1>0, <2>3, <2>5, <2>6, <2>7 DEF x
  <2>. DEFINE total == Stored(Adjusted(items, adjustments))
  <2>9. total \in Int /\ total - Adjusted(items, adjustments) \in -1..1
    BY <2>8, StoredIsNear
  <2>. HIDE DEF total
  <2>10. Distance(total, Adjusted(items, rows)) <= Cardinality(rows) + 1
    BY <2>4, <2>7, <2>8, <2>9 DEF Distance
  <2>. QED  BY <2>1, <2>10 DEF total, rows
<1>. QED  BY <1>1, <1>2

-----------------------------------------------------------------------------
(* The bill of an attempt, step by step. *)
LEMMA OthersBilled ==
  ASSUME AllBilled, NEW t \in Attempts, Billed(t)',
         \A u \in Attempts \ {t} : SameAttempt(u)
  PROVE  AllBilled'
<1>1. ASSUME NEW u \in Attempts, SameAttempt(u), Billed(u) PROVE Billed(u)'
  BY <1>1 DEF SameAttempt, Billed
<1>. QED  BY <1>1 DEF AllBilled

LEMMA UnchangedBills ==
  ASSUME AllBilled, \A u \in Attempts : SameAttempt(u) PROVE AllBilled'
BY DEF AllBilled, SameAttempt, Billed

LEMMA SendBills ==
  ASSUME IInv, AllBilled, NEW u \in Submissions, Send(u) PROVE AllBilled'
<1>1. sent[u] \in Nat /\ sent[u] + 1 \in 1..MaxAttempts /\ <<u, sent[u] + 1>> \in Attempts
  BY AttemptAssumption DEF IInv, TypeOK, Send, Attempts
<1>2. PICK new \in Attempts : new = <<u, sent[u] + 1>>
  BY <1>1
<1>3. pc[new] = "none" /\ order[new] = NoOrder
  <2>1. pc[new] = "none"
    BY <1>1, <1>2 DEF IInv, AttemptOK, Drafted
  <2>. QED  BY <2>1 DEF IInv, AttemptOK, Drafted
<1>4. pc' = [pc EXCEPT ![new] = "start"] /\ UNCHANGED <<snap, draft, order>>
  BY <1>2 DEF Send
<1>5. pc'[new] = "start"
  BY <1>4 DEF IInv, TypeOK
<1>6. Billed(new)'
  BY <1>3, <1>4, <1>5 DEF Billed
<1>7. \A t \in Attempts \ {new} : SameAttempt(t)
  BY <1>4 DEF IInv, TypeOK, SameAttempt
<1>. QED  BY <1>6, <1>7, OthersBilled

(* Reading, refusing and failing leave no draft, telling leaves it alone. *)
LEMMA EdgesBill ==
  ASSUME IInv, AllBilled, NEW t \in Attempts,
         ReadCart(t) \/ Refuse(t) \/ Fail(t) \/ Publish(t) \/ Audit(t)
  PROVE  AllBilled'
<1>0. Billed(t)
  BY DEF AllBilled
<1>1. CASE ReadCart(t)
  <2>1. pc'[t] = "read" /\ order'[t] = order[t]
    BY <1>1 DEF ReadCart, Goto, IInv, TypeOK
  <2>2. \A u \in Attempts \ {t} : SameAttempt(u)
    BY <1>1 DEF IInv, TypeOK, SameAttempt, ReadCart, Goto
  <2>3. Billed(t)'
    BY <1>0, <2>1 DEF Billed
  <2>. QED  BY <2>2, <2>3, OthersBilled
<1>2. CASE Refuse(t) \/ Fail(t)
  <2>1. \E a \in {"none", "refused", "placed"} : End(t, "failed", a)
    BY <1>2 DEF Refuse, Fail
  <2>2. order' = order /\ draft' = [draft EXCEPT ![t] = NoOrder]
    BY <1>2 DEF Refuse, Fail, End
  <2>3. /\ pc'[t] = "failed"
        /\ \A u \in Attempts \ {t} : pc'[u] = pc[u] /\ snap'[u] = snap[u]
    BY <2>1, EndTypes
  <2>4. \A u \in Attempts \ {t} : SameAttempt(u)
    BY <2>2, <2>3 DEF IInv, Indexed, SameAttempt
  <2>5. Billed(t)'
    BY <1>0, <2>2, <2>3 DEF Billed
  <2>. QED  BY <2>4, <2>5, OthersBilled
<1>3. CASE Publish(t) \/ Audit(t)
  <2>1. /\ pc[t] \in {"placed", "published"} /\ pc'[t] \in {"published", "written"}
        /\ UNCHANGED <<snap, draft, order>>
    BY <1>3 DEF Publish, Audit, Goto, IInv, TypeOK
  <2>2. \A u \in Attempts \ {t} : SameAttempt(u)
    BY <1>3, <2>1 DEF IInv, TypeOK, SameAttempt, Publish, Audit, Goto
  <2>3. Billed(t)'
    BY <1>0, <2>1 DEF Billed
  <2>. QED  BY <2>2, <2>3, OthersBilled
<1>. QED  BY <1>1, <1>2, <1>3

LEMMA FlushBills ==
  ASSUME IInv, AllBilled, NEW t \in Attempts,
         FlushOrder(t) \/ FlushItems(t) \/ FlushAdjustments(t)
  PROVE  AllBilled'
<1>1. /\ Billed(t) /\ snap[t] \in Contents
      /\ snap' = snap /\ order' = order
  BY DEF AllBilled, FlushOrder, FlushItems, FlushAdjustments, Goto, IInv, AttemptOK, Drafted
<1>2. pc' = [pc EXCEPT ![t] = pc'[t]]
  BY DEF FlushOrder, FlushItems, FlushAdjustments, Goto, IInv, TypeOK
<1>3. CASE FlushOrder(t)
  <2>1. draft' = [draft EXCEPT ![t] = NewOrder(t)] /\ pc'[t] = "order"
    BY <1>3 DEF FlushOrder, Goto, IInv, TypeOK
  <2>2. draft'[t] = NewOrder(t)
    BY <2>1 DEF IInv, Indexed
  <2>3. /\ draft'[t].subtotal = Subtotal(snap[t]) /\ draft'[t].adjustments = {}
        /\ draft'[t].total_amount = ItemsTotal(snap[t])
    BY <2>2 DEF NewOrder
  <2>4. Billed(t)'
    BY <1>1, <2>1, <2>3, NothingAdjusted DEF Billed
  <2>5. \A u \in Attempts \ {t} : SameAttempt(u)
    BY <1>1, <1>2, <2>1 DEF IInv, TypeOK, Indexed, SameAttempt
  <2>. QED  BY <2>4, <2>5, OthersBilled
<1>4. CASE FlushItems(t)
  <2>1. /\ draft' = [draft EXCEPT ![t].items = snap[t]]
        /\ pc[t] = "order" /\ pc'[t] = "items"
    BY <1>4 DEF FlushItems, Goto, IInv, TypeOK
  <2>2. draft'[t] = [draft[t] EXCEPT !.items = snap[t]] /\ IsOrder(draft[t])
    BY <2>1 DEF IInv, AttemptOK, Drafted, Indexed
  <2>3. /\ draft'[t].subtotal = draft[t].subtotal
        /\ draft'[t].adjustments = draft[t].adjustments
        /\ draft'[t].total_amount = draft[t].total_amount
    BY <2>2 DEF IsOrder
  <2>4. Billed(t)'
    BY <1>1, <2>1, <2>3 DEF Billed
  <2>5. \A u \in Attempts \ {t} : SameAttempt(u)
    BY <1>1, <1>2, <2>1 DEF IInv, TypeOK, Indexed, SameAttempt
  <2>. QED  BY <2>4, <2>5, OthersBilled
<1>5. CASE FlushAdjustments(t)
  <2>0. pc[t] = "items" /\ pc'[t] = "placed"
    BY <1>5 DEF FlushAdjustments, Goto, IInv, TypeOK
  <2>1. PICK adjustments \in Rulings : \E total :
          /\ total = IF adjustments = {} THEN draft[t].total_amount
                     ELSE Adjusted(snap[t], adjustments)
          /\ draft' = [draft EXCEPT ![t].adjustments = adjustments, ![t].total_amount = total]
    BY <1>5 DEF FlushAdjustments
  <2>2. PICK total :
          /\ total = IF adjustments = {} THEN draft[t].total_amount
                     ELSE Adjusted(snap[t], adjustments)
          /\ draft' = [draft EXCEPT ![t].adjustments = adjustments, ![t].total_amount = total]
    BY <2>1
  <2>3. total = Adjusted(snap[t], adjustments)
    BY <1>1, <2>0, <2>2 DEF Billed
  <2>4. /\ draft'[t] = [draft[t] EXCEPT !.adjustments = adjustments, !.total_amount = total]
        /\ IsOrder(draft[t])
    BY <2>0, <2>2 DEF IInv, AttemptOK, Drafted, Indexed
  <2>5. /\ draft'[t].subtotal = draft[t].subtotal
        /\ draft'[t].adjustments = adjustments
        /\ draft'[t].total_amount = total
    BY <2>4 DEF IsOrder
  <2>6. Billed(t)'
    BY <1>1, <2>0, <2>3, <2>5 DEF Billed
  <2>7. \A u \in Attempts \ {t} : SameAttempt(u)
    BY <1>1, <1>2, <2>2 DEF IInv, TypeOK, Indexed, SameAttempt
  <2>. QED  BY <2>6, <2>7, OthersBilled
<1>. QED  BY <1>3, <1>4, <1>5

LEMMA CommitBills ==
  ASSUME IInv, AllBilled, NEW t \in Attempts, Commit(t) PROVE AllBilled'
<1>1. /\ End(t, "committed", "placed")
      /\ order' = [order EXCEPT ![t] = StoredOrder(draft[t])]
      /\ draft' = [draft EXCEPT ![t] = NoOrder]
  BY DEF Commit, End
<1>2. /\ pc'[t] = "committed"
      /\ \A u \in Attempts \ {t} : pc'[u] = pc[u] /\ snap'[u] = snap[u]
  BY <1>1, EndTypes
<1>3. /\ pc[t] = "written" /\ snap[t] \in Contents /\ IsOrder(draft[t])
      /\ draft[t].items = snap[t]
  BY DEF Commit, IInv, AttemptOK, Drafted
<1>4. /\ draft[t].subtotal = Subtotal(snap[t])
      /\ draft[t].adjustments \in Rulings \cup {{}}
      /\ draft[t].total_amount = Adjusted(snap[t], draft[t].adjustments)
  BY <1>3 DEF AllBilled, Billed
<1>5. /\ order'[t].items = snap[t]
      /\ order'[t].subtotal = Subtotal(snap[t])
      /\ order'[t].adjustments = StoredRows(draft[t].adjustments)
      /\ order'[t].total_amount = Stored(Adjusted(snap[t], draft[t].adjustments))
  BY <1>1, <1>3, <1>4 DEF StoredOrder, IsOrder, IInv, Indexed, StoredRows, StoredRow
<1>6. AddsUp(order'[t])
  BY <1>3, <1>4, <1>5, StoredAddsUp DEF AddsUp
<1>7. Billed(t)'
  BY <1>2, <1>6 DEF Billed
<1>8. \A u \in Attempts \ {t} : SameAttempt(u)
  BY <1>1, <1>2 DEF IInv, Indexed, SameAttempt
<1>. QED  BY <1>7, <1>8, OthersBilled

(* Every draft and every stored order is billed as its items and adjustments
   ask. *)
THEOREM Bills == Spec => []AllBilled
<1>1. Init => AllBilled
  BY DEF Init, AllBilled, Billed
<1>2. IInv /\ AllBilled /\ [Next]_vars => AllBilled'
  <2>. SUFFICES ASSUME IInv, AllBilled, [Next]_vars PROVE AllBilled'
    OBVIOUS
  <2>1. CASE CartChanges \/ UNCHANGED vars
    BY <2>1, UnchangedBills DEF CartChanges, vars, SameAttempt
  <2>2. ASSUME NEW u \in Submissions, Send(u) PROVE AllBilled'
    BY <2>2, SendBills
  <2>3. ASSUME NEW t \in Attempts, Place(t) PROVE AllBilled'
    BY <2>3, EdgesBill, FlushBills, CommitBills DEF Place
  <2>. QED  BY <2>1, <2>2, <2>3 DEF Next
<1>. QED  BY <1>1, <1>2, Inductive, PTL DEF Spec

(* The total of a stored order is what its items and adjustments, as stored,
   add up to, but for the rounding of each amount: for carts of any contents,
   which may change while place_order runs, and any rules. *)
THEOREM StoredOrdersAddUp == Spec => []OrderAddsUp
<1>1. AllBilled => OrderAddsUp
  BY DEF AllBilled, Billed, OrderAddsUp
<1>. QED  BY <1>1, Bills, PTL
=============================================================================
