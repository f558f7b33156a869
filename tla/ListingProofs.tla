---------------------------- MODULE ListingProofs ----------------------------
(***************************************************************************)
(* Theorems of Listing, for any rows, page size and clock: the inductive   *)
(* invariant, that pages continue each other and miss no row that was      *)
(* there all the time, and that a cursor keeps its promise.  They rest on  *)
(* what First returns: the least n members of a set, or all of them.       *)
(***************************************************************************)
EXTENDS Listing, FiniteSetTheorems, WellFoundedInduction, TLAPS

USE DEF Key, Before

(* Rows have the keys of a total order. *)
Keyed == row \in [Ids -> [status : Statuses, at : 0..MaxTime]]

LEMMA TotalOrder ==
  ASSUME Keyed, NEW i \in Ids, NEW j \in Ids, i # j
  PROVE  Before(Key(i), Key(j)) <=> ~Before(Key(j), Key(i))
BY IdAssumption, TimeAssumption DEF Keyed

LEMMA Transitive ==
  ASSUME Keyed, NEW i \in Ids, NEW j \in Ids, NEW k \in Ids,
         Before(Key(i), Key(j)), Before(Key(j), Key(k))
  PROVE  Before(Key(i), Key(k))
BY IdAssumption, TimeAssumption DEF Keyed

LEMMA KeysAreNumbers ==
  ASSUME NEW x \in [at : 0..MaxTime, id : Ids]
  PROVE  x.at \in Int /\ x.id \in Int
<1>1. x.at \in 0..MaxTime /\ x.id \in Ids
  OBVIOUS
<1>2. x.at \in Int
  BY <1>1, TimeAssumption
<1>3. x.id \in Int
  BY <1>1, IdAssumption
<1>. QED  BY <1>2, <1>3

LEMMA CursorBetween ==
  ASSUME Keyed, NEW i \in Ids, NEW j \in Ids,
         cursor = Start \/ cursor \in [at : 0..MaxTime, id : Ids],
         ~Before(cursor, Key(i)), Before(cursor, Key(j))
  PROVE  Before(Key(i), Key(j))
<1>1. cursor.at \in Int /\ cursor.id \in Int
  <2>1. CASE cursor = Start
    BY <2>1 DEF Start
  <2>2. CASE cursor \in [at : 0..MaxTime, id : Ids]
    BY <2>2, KeysAreNumbers
  <2>. QED  BY <2>1, <2>2
<1>2. row[i].at \in Int /\ row[j].at \in Int /\ i \in Int /\ j \in Int
  BY IdAssumption, TimeAssumption DEF Keyed
<1>. QED  BY <1>1, <1>2

LEMMA PrecedingFinite ==
  ASSUME NEW S \in SUBSET Ids, NEW i
  PROVE  /\ IsFiniteSet(S) /\ IsFiniteSet(Preceding(i, S))
         /\ Cardinality(Preceding(i, S)) \in Nat
<1>1. IsFiniteSet(S)
  BY IdAssumption, FS_Subset
<1>2. Preceding(i, S) \in SUBSET S
  BY DEF Preceding
<1>. QED  BY <1>1, <1>2, FS_Subset, FS_CardinalityType

(* What precedes an earlier row is less. *)
LEMMA PrecedingGrows ==
  ASSUME Keyed, NEW S \in SUBSET Ids, NEW i \in S, NEW j \in S,
         Before(Key(i), Key(j))
  PROVE  Cardinality(Preceding(i, S)) < Cardinality(Preceding(j, S))
<1>1. ASSUME NEW k \in Preceding(i, S) PROVE k \in Preceding(j, S)
  <2>1. k \in S /\ Before(Key(k), Key(i))
    BY DEF Preceding
  <2>. QED  BY <2>1, Transitive DEF Preceding
<1>2. i \in Preceding(j, S) /\ i \notin Preceding(i, S)
  BY IdAssumption, TimeAssumption DEF Preceding, Keyed
<1>3. IsFiniteSet(Preceding(j, S))
      /\ Cardinality(Preceding(i, S)) \in Nat /\ Cardinality(Preceding(j, S)) \in Nat
  BY PrecedingFinite
<1>4. Cardinality(Preceding(i, S)) <= Cardinality(Preceding(j, S))
      /\ Cardinality(Preceding(i, S)) # Cardinality(Preceding(j, S))
  BY <1>1, <1>2, <1>3, FS_Subset
<1>. QED  BY <1>3, <1>4

(* First takes rows from the front. *)
LEMMA FirstIsFront ==
  ASSUME Keyed, NEW S \in SUBSET Ids, NEW n \in Nat,
         NEW i \in First(n, S), NEW j \in S \ First(n, S)
  PROVE  Before(Key(i), Key(j))
<1>1. i \in S /\ j \in S /\ i # j
  BY DEF First
<1>2. SUFFICES ASSUME Before(Key(j), Key(i)) PROVE FALSE
  BY <1>1, TotalOrder
<1>3. Cardinality(Preceding(j, S)) < Cardinality(Preceding(i, S))
  BY <1>1, <1>2, PrecedingGrows
<1>4. Cardinality(Preceding(i, S)) \in Nat /\ Cardinality(Preceding(j, S)) \in Nat
  BY PrecedingFinite
<1>. QED  BY <1>1, <1>3, <1>4 DEF First

(* It takes at most n: the number of rows before it tells each one apart. *)
LEMMA FirstAtMost ==
  ASSUME Keyed, NEW S \in SUBSET Ids, NEW n \in Nat
  PROVE  Cardinality(First(n, S)) <= n
<1>. DEFINE F == First(n, S)
            rank == [i \in F |-> Cardinality(Preceding(i, S))]
<1>1. F \in SUBSET S /\ F \in SUBSET Ids
  BY DEF First
<1>2. rank \in [F -> 0..(n - 1)]
  <2>. SUFFICES ASSUME NEW i \in F PROVE Cardinality(Preceding(i, S)) \in 0..(n - 1)
    OBVIOUS
  <2>1. Cardinality(Preceding(i, S)) \in Nat
    BY PrecedingFinite
  <2>2. Cardinality(Preceding(i, S)) < n
    BY DEF First
  <2>. QED  BY <2>1, <2>2
<1>3. ASSUME NEW i \in F, NEW j \in F, i # j PROVE rank[i] # rank[j]
  <2>1. Before(Key(i), Key(j)) \/ Before(Key(j), Key(i))
    BY <1>1, <1>3, TotalOrder
  <2>2. rank[i] < rank[j] \/ rank[j] < rank[i]
    BY <1>1, <2>1, PrecedingGrows
  <2>3. rank[i] \in Int /\ rank[j] \in Int
    BY <1>2
  <2>. QED  BY <2>2, <2>3
<1>4. IsFiniteSet(F) /\ Cardinality(F) \in Nat
  BY <1>1, PrecedingFinite, FS_CardinalityType
<1>5. IsFiniteSet(0..(n - 1)) /\ Cardinality(0..(n - 1)) = n
  BY FS_Interval
<1>6. SUFFICES ASSUME Cardinality(0..(n - 1)) < Cardinality(F) PROVE FALSE
  BY <1>4, <1>5
<1>7. \E i, j \in F : i # j /\ rank[i] = rank[j]
  <2>. HIDE DEF F, rank
  <2>. QED  BY <1>2, <1>4, <1>5, <1>6, FS_PigeonHole
<1>. QED  BY <1>3, <1>7

(* If it leaves a row out, it takes n. *)
LEMMA FirstAtLeast ==
  ASSUME Keyed, NEW S \in SUBSET Ids, NEW n \in Nat, S \ First(n, S) # {}
  PROVE  Cardinality(First(n, S)) >= n
<1>. DEFINE Rest == S \ First(n, S)
            Rank(i) == Cardinality(Preceding(i, S))
            Ranks == {Rank(i) : i \in Rest}
<1>1. Ranks \subseteq Nat /\ Ranks # {}
  <2>1. \A i \in Rest : Rank(i) \in Nat
    BY PrecedingFinite
  <2>. QED  BY <2>1
<1>2. PICK r \in Ranks : \A q \in Ranks : ~(<<q, r>> \in OpToRel(<, Nat))
  <2>. HIDE DEF Ranks
  <2>. QED  BY <1>1, NatLessThanWellFounded, WFMin
<1>3. PICK j \in Rest : r = Rank(j)
  OBVIOUS
<1>4. ASSUME NEW i \in Rest PROVE ~(Rank(i) < Rank(j))
  <2>1. Rank(i) \in Ranks /\ Rank(i) \in Nat /\ Rank(j) \in Nat
    BY <1>1, <1>3
  <2>2. ~(<<Rank(i), Rank(j)>> \in OpToRel(<, Nat))
    BY <1>2, <1>3, <2>1
  <2>. QED  BY <2>1, <2>2 DEF OpToRel
<1>5. Preceding(j, S) \in SUBSET First(n, S)
  <2>. SUFFICES ASSUME NEW i \in Preceding(j, S), i \notin First(n, S) PROVE FALSE
    OBVIOUS
  <2>1. i \in Rest /\ i \in S /\ j \in S /\ Before(Key(i), Key(j))
    BY DEF Preceding
  <2>2. Rank(i) < Rank(j)
    BY <2>1, PrecedingGrows
  <2>. QED  BY <1>4, <2>1, <2>2
<1>6. First(n, S) \in SUBSET Ids
  BY DEF First
<1>7. Cardinality(Preceding(j, S)) <= Cardinality(First(n, S))
  BY <1>5, <1>6, PrecedingFinite, FS_Subset
<1>8. ~(Rank(j) < n) /\ Rank(j) \in Nat
  BY PrecedingFinite DEF First
<1>9. Cardinality(First(n, S)) \in Nat
  BY <1>6, PrecedingFinite, FS_CardinalityType
<1>. QED  BY <1>7, <1>8, <1>9

-----------------------------------------------------------------------------
LEMMA InitIInv == Init => IInv
<1>. SUFFICES ASSUME Init PROVE IInv
  OBVIOUS
<1>. USE DEF Init, Returned
<1>1. page = {} /\ listed = {} /\ Cardinality({}) = 0
  BY FS_EmptySet
<1>2. TypeOK
  <2>1. row \in [Ids -> [status : Statuses, at : 0..MaxTime]] /\ clock \in 0..MaxTime
    BY TimeAssumption DEF Statuses
  <2>2. steady \subseteq Matching /\ Cardinality(page) <= PageSize
    BY <1>1, PageAssumption
  <2>. QED  BY <1>1, <2>1, <2>2 DEF TypeOK
<1>. QED  BY <1>1, <1>2 DEF IInv, Progress, PagesContinue, NothingMissed

(* Steps of other requests leave keys and the client alone. *)
LEMMA WriteIInv ==
  ASSUME IInv, Write
  PROVE  IInv'
<1>. USE DEF clientVars, dbVars
<1>1. UNCHANGED <<state, found, cursor, page, listed>>
  BY DEF Write, Tick, DeleteParent, Insert, Commit, Rollback, Enter, Delete, Move, Quit
<1>2. clock' \in 0..MaxTime /\ parent' \in BOOLEAN
  <2>1. clock' = clock \/ (clock < MaxTime /\ clock' = clock + 1)
    BY DEF Write, Tick, DeleteParent, Insert, Commit, Rollback, Enter, Delete, Move, Quit
  <2>2. parent' = parent \/ parent' = FALSE
    BY DEF Write, Tick, DeleteParent, Insert, Commit, Rollback, Enter, Delete, Move, Quit
  <2>3. clock \in 0..MaxTime /\ parent \in BOOLEAN
    BY DEF IInv, TypeOK
  <2>4. clock' \in 0..MaxTime
    BY <2>1, <2>3, TimeAssumption
  <2>5. parent' \in BOOLEAN
    BY <2>2, <2>3
  <2>. QED  BY <2>4, <2>5
<1>3. row' \in [Ids -> [status : Statuses, at : 0..MaxTime]]
  <2>1. CASE Tick \/ DeleteParent
    BY <2>1 DEF Tick, DeleteParent, IInv, TypeOK
  <2>2. ASSUME NEW i \in Ids, Insert(i) PROVE row' \in [Ids -> [status : Statuses, at : 0..MaxTime]]
    BY <2>2 DEF Insert, IInv, TypeOK, Statuses
  <2>3. ASSUME NEW i \in Ids, NEW s \in Statuses, row' = [row EXCEPT ![i].status = s]
        PROVE  row' \in [Ids -> [status : Statuses, at : 0..MaxTime]]
    BY <2>3 DEF IInv, TypeOK
  <2>4. CASE \E i \in Ids : Commit(i) \/ Rollback(i) \/ Enter(i) \/ Delete(i) \/ Move(i)
    BY <2>3, <2>4 DEF Commit, Rollback, Enter, Delete, Move, Quit, Statuses
  <2>. QED  BY <2>1, <2>2, <2>4 DEF Write
<1>4. ASSUME NEW i \in Ids, row[i].status \notin {"none", "pending"}
      PROVE  row'[i].status \notin {"none", "pending"} /\ row'[i].at = row[i].at
  BY <1>4 DEF IInv, TypeOK, Write, Tick, DeleteParent, Insert, Commit, Rollback,
     Enter, Delete, Move, Quit, Statuses
<1>5. steady' \subseteq steady /\ steady' \subseteq Matching'
  BY DEF IInv, TypeOK, Write, Tick, DeleteParent, Insert, Commit, Rollback, Enter,
     Delete, Move, Quit, Statuses, Matching
<1>6. \A i \in Ids : i \in Returned \cup steady =>
        row[i].status \notin {"none", "pending"}
  BY DEF IInv, TypeOK, Progress, Matching
<1>7. \A i \in Ids : i \in Returned \cup steady => Key(i)' = Key(i)
  BY <1>4, <1>6
<1>8. Returned' = Returned /\ Returned \subseteq Ids /\ steady \subseteq Ids
  BY <1>1 DEF IInv, TypeOK, Returned, Matching
<1>9. TypeOK'
  BY <1>1, <1>2, <1>3, <1>5 DEF IInv, TypeOK
<1>10. Progress'
  <2>. HIDE DEF Key, Before
  <2>1. \A i \in Returned' : row'[i].status \notin {"none", "pending"}
    BY <1>4, <1>6, <1>8
  <2>2. \A i \in Returned' : Before(cursor', Key(i)') <=> Before(cursor, Key(i))
    BY <1>1, <1>7, <1>8 DEF Before
  <2>3. \A i \in steady' : Before(cursor', Key(i)') <=> Before(cursor, Key(i))
    BY <1>1, <1>5, <1>7, <1>8 DEF Before
  <2>. QED  BY <1>1, <1>5, <1>8, <2>1, <2>2, <2>3 DEF IInv, Progress
<1>11. PagesContinue'
  <2>. HIDE DEF Key, Before
  <2>1. \A i \in listed', j \in page' : Key(i)' = Key(i) /\ Key(j)' = Key(j)
    BY <1>1, <1>7, <1>8 DEF Returned
  <2>. QED  BY <1>1, <2>1 DEF IInv, PagesContinue, Before
<1>12. NothingMissed'
  BY <1>1, <1>5 DEF IInv, NothingMissed
<1>. QED  BY <1>9, <1>10, <1>11, <1>12 DEF IInv

-----------------------------------------------------------------------------
(* What one query and the trimming of its extra row yield. *)
LEMMA PageOfRows ==
  ASSUME IInv, NEW A, A = After(cursor),
         NEW rows, rows = First(PageSize + 1, A),
         NEW kept, kept = First(PageSize, rows)
  PROVE  /\ kept \subseteq rows /\ rows \subseteq A /\ A \subseteq Matching
         /\ Cardinality(kept) <= PageSize
         /\ \A i \in kept, j \in A \ kept : Before(Key(i), Key(j))
         /\ HasMore(rows) => Cardinality(kept) = PageSize /\ rows \ kept # {}
         /\ ~HasMore(rows) => kept = A
<1>. USE PageAssumption
<1>1. Keyed /\ A \in SUBSET Ids /\ A \subseteq Matching
  BY DEF IInv, TypeOK, Keyed, After, Matching
<1>2. rows \in SUBSET Ids /\ rows \subseteq A /\ kept \subseteq rows
  BY <1>1 DEF First
<1>3. Cardinality(kept) <= PageSize
  BY <1>1, <1>2, FirstAtMost
<1>4. ASSUME NEW i \in kept, NEW j \in A \ kept PROVE Before(Key(i), Key(j))
  <2>1. CASE j \in rows
    BY <1>1, <1>2, <1>4, <2>1, FirstIsFront
  <2>2. CASE j \notin rows
    BY <1>1, <1>2, <1>4, <2>2, FirstIsFront
  <2>. QED  BY <2>1, <2>2
<1>5. /\ IsFiniteSet(rows) /\ IsFiniteSet(kept)
      /\ Cardinality(rows) \in Nat /\ Cardinality(kept) \in Nat
  BY <1>2, PrecedingFinite, FS_CardinalityType
<1>6. ASSUME rows \ kept # {} PROVE Cardinality(kept) >= PageSize
  BY <1>1, <1>2, <1>6, FirstAtLeast
<1>7. ASSUME HasMore(rows) PROVE Cardinality(kept) = PageSize /\ rows \ kept # {}
  <2>1. rows # kept
    BY <1>3, <1>5, <1>7 DEF HasMore
  <2>2. rows \ kept # {}
    BY <1>2, <2>1
  <2>3. Cardinality(kept) >= PageSize
    BY <1>6, <2>2
  <2>. QED  BY <1>3, <1>5, <2>2, <2>3
<1>8. ASSUME ~HasMore(rows) PROVE kept = A
  <2>1. rows = A
    <3>. SUFFICES ASSUME A \ rows # {} PROVE FALSE
      BY <1>2
    <3>1. Cardinality(rows) >= PageSize + 1
      BY <1>1, FirstAtLeast
    <3>. QED  BY <1>5, <1>8, <3>1 DEF HasMore
  <2>2. kept = rows
    <3>. SUFFICES ASSUME rows \ kept # {} PROVE FALSE
      BY <1>2
    <3>1. Cardinality(kept) >= PageSize /\ Cardinality(rows) <= PageSize
      BY <1>5, <1>6, <1>8 DEF HasMore
    <3>2. Cardinality(kept) <= Cardinality(rows)
          /\ (Cardinality(kept) = Cardinality(rows) => rows = kept)
      BY <1>2, <1>5, FS_Subset
    <3>. QED  BY <1>5, <3>1, <3>2
  <2>. QED  BY <2>1, <2>2
<1>. QED  BY <1>1, <1>2, <1>3, <1>4, <1>7, <1>8

LEMMA FetchIInv ==
  ASSUME IInv, Fetch
  PROVE  IInv'
<1>. DEFINE A == After(cursor)
            rows == ListPage(PageSize + 1, cursor)
<1>1. /\ state = "reading" /\ page' = First(PageSize, rows)
      /\ listed' = listed \cup page /\ steady' = steady /\ found' \in BOOLEAN
      /\ row' = row /\ clock' = clock /\ parent' = parent
  BY DEF Fetch, dbVars
<1>2. /\ page' \subseteq A /\ A \subseteq Matching
      /\ Cardinality(page') <= PageSize
      /\ \A i \in page', j \in A \ page' : Before(Key(i), Key(j))
      /\ ~HasMore(rows) => page' = A
  BY <1>1, PageOfRows DEF ListPage
<1>3. \/ /\ state' = "reading"
         /\ \E i \in page' : /\ \A j \in page' : j = i \/ Before(Key(j), Key(i))
                             /\ cursor' = Key(i)
      \/ state' = "done" /\ cursor' = cursor /\ page' = A
  BY <1>1, <1>2 DEF Fetch, Last
<1>. HIDE DEF A, rows
<1>4. Keyed /\ Matching \subseteq Ids /\ Returned \subseteq Ids /\ steady \subseteq Matching
  BY DEF IInv, TypeOK, Keyed, Matching, Returned
<1>5. Matching' = Matching
  BY <1>1 DEF Matching
<1>6. \A i : Key(i)' = Key(i)
  BY <1>1
<1>7. cursor = Start \/ cursor \in [at : 0..MaxTime, id : Ids]
  BY DEF IInv, TypeOK
<1>8. \A i \in Returned : ~Before(cursor, Key(i))
  BY <1>1 DEF IInv, Progress
<1>9. \A j \in A : Before(cursor, Key(j))
  BY DEF A, After
<1>10. ASSUME NEW i \in Returned, NEW j \in A PROVE Before(Key(i), Key(j))
  <2>1. ~Before(cursor, Key(i)) /\ Before(cursor, Key(j)) /\ i \in Ids /\ j \in Ids
    BY <1>2, <1>4, <1>8, <1>9, <1>10
  <2>. QED  BY <1>4, <1>7, <2>1, CursorBetween
<1>11. \A i \in steady : i \in Returned \/ i \in A
  BY <1>1, <1>4 DEF IInv, Progress, A, After
<1>12. TypeOK'
  <2>1. cursor' = Start \/ cursor' \in [at : 0..MaxTime, id : Ids]
    BY <1>2, <1>3, <1>4, <1>7 DEF Keyed
  <2>2. page' \subseteq Ids /\ listed' \subseteq Ids
    BY <1>1, <1>2, <1>4 DEF Returned
  <2>. QED  BY <1>1, <1>2, <1>3, <1>5, <2>1, <2>2 DEF IInv, TypeOK
<1>13. Returned' = Returned \cup page'
  BY <1>1 DEF Returned
<1>14. Progress'
  <2>1. \A i \in Returned' : row'[i].status \notin {"none", "pending"}
    BY <1>1, <1>2, <1>13 DEF IInv, Progress, Matching
  <2>2. ASSUME state' = "reading"
        PROVE  /\ \A i \in Returned' : ~Before(cursor', Key(i)')
               /\ \A i \in steady' : i \in Returned' \/ Before(cursor', Key(i)')
    <3>1. PICK l \in page' : /\ \A j \in page' : j = l \/ Before(Key(j), Key(l))
                             /\ cursor' = Key(l)
      BY <1>3, <2>2
    <3>2. l \in A /\ l \in Ids
      BY <1>2, <1>4
    <3>3. ASSUME NEW i \in Returned' PROVE ~Before(Key(l), Key(i))
      <4>1. i \in Ids /\ (i = l \/ Before(Key(i), Key(l)))
        BY <1>2, <1>4, <1>10, <1>13, <3>1, <3>2
      <4>. QED  BY <1>4, <3>2, <4>1, TotalOrder, IdAssumption, TimeAssumption DEF Keyed
    <3>4. ASSUME NEW i \in steady, i \notin Returned' PROVE Before(Key(l), Key(i))
      BY <1>2, <1>11, <1>13, <3>1, <3>4
    <3>. HIDE DEF Key, Before
    <3>. QED  BY <1>1, <1>6, <3>1, <3>3, <3>4
  <2>. HIDE DEF Key, Before
  <2>. QED  BY <2>1, <2>2 DEF Progress
<1>15. PagesContinue'
  BY <1>1, <1>2, <1>10, <1>6 DEF PagesContinue, Returned
<1>16. NothingMissed'
  BY <1>1, <1>3, <1>11, <1>13 DEF NothingMissed, Returned
<1>. QED  BY <1>12, <1>14, <1>15, <1>16 DEF IInv

LEMMA ReadIInv ==
  ASSUME IInv, Read
  PROVE  IInv'
<1>1. CASE Fetch
  BY <1>1, FetchIInv
<1>2. CASE Lookup \/ Refused
  <2>1. /\ UNCHANGED <<clock, row, parent, cursor, page, listed, steady>>
        /\ state' \in {state, "refused"} /\ found' \in BOOLEAN
    BY <1>2 DEF Lookup, Refused, dbVars, IInv, TypeOK
  <2>2. TypeOK'
    BY <2>1 DEF IInv, TypeOK, Matching
  <2>. QED  BY <2>1, <2>2 DEF IInv, Progress, PagesContinue, NothingMissed, Returned
<1>3. CASE Begin
  <2>1. /\ Cardinality({}) = 0 /\ page' = {} /\ listed' = {} /\ cursor' = Start
        /\ steady' = Matching /\ row' = row /\ clock' = clock /\ parent' = parent
        /\ state' = "reading" /\ found' = found
    BY <1>3, FS_EmptySet DEF Begin, dbVars
  <2>2. TypeOK'
    BY <2>1, PageAssumption DEF IInv, TypeOK, Matching
  <2>3. \A i \in Matching : Before(Start, Key(i))
    BY TimeAssumption DEF IInv, TypeOK, Matching, Start
  <2>. QED  BY <2>1, <2>2, <2>3 DEF IInv, Progress, PagesContinue, NothingMissed, Returned
<1>. QED  BY <1>1, <1>2, <1>3 DEF Read

LEMMA NextIInv == IInv /\ [Next]_vars => IInv'
<1>. SUFFICES ASSUME IInv, [Next]_vars PROVE IInv'
  OBVIOUS
<1>1. CASE Write
  BY <1>1, WriteIInv
<1>2. CASE Read
  BY <1>2, ReadIInv
<1>3. CASE UNCHANGED vars
  BY <1>3 DEF vars, dbVars, clientVars, IInv, TypeOK, Progress, PagesContinue,
     NothingMissed, Returned, Matching
<1>. QED  BY <1>1, <1>2, <1>3 DEF Next

-----------------------------------------------------------------------------
(* The invariant holds in every state of the specification. *)
THEOREM Inductive == Spec => []IInv
BY InitIInv, NextIInv, PTL DEF Spec

(* Every variable keeps its type, and no page is longer than its size. *)
THEOREM TypeCorrect == Spec => []TypeOK
<1>1. IInv => TypeOK
  BY DEF IInv
<1>. QED  BY <1>1, Inductive, PTL

(* The rows of a page sort after those of the pages before, so that none is
   returned twice. *)
THEOREM PagesInOrder == Spec => []PagesContinue
<1>1. IInv => PagesContinue
  BY DEF IInv
<1>. QED  BY <1>1, Inductive, PTL

(* A client that has read to the end got every row that was there all the
   time. *)
THEOREM Complete == Spec => []NothingMissed
<1>1. IInv => NothingMissed
  BY DEF IInv
<1>. QED  BY <1>1, Inductive, PTL

(* A page with a cursor is full, and there is a row after it. *)
THEOREM CursorsKeepTheirPromise == Spec => CursorPromises
<1>1. ASSUME IInv, Fetch, state' = "reading"
      PROVE  /\ Cardinality(page') = PageSize
             /\ \E i \in Matching : Before(cursor', Key(i))
  <2>. DEFINE A == After(cursor)
              rows == ListPage(PageSize + 1, cursor)
  <2>1. page' = First(PageSize, rows) /\ HasMore(rows)
        /\ \E l \in page' : cursor' = Key(l)
    BY <1>1 DEF Fetch, Last
  <2>2. /\ rows \subseteq A /\ A \subseteq Matching
        /\ Cardinality(page') = PageSize /\ rows \ page' # {}
        /\ \A i \in page', j \in A \ page' : Before(Key(i), Key(j))
    BY <1>1, <2>1, PageOfRows DEF ListPage
  <2>. HIDE DEF A, rows
  <2>. QED  BY <2>1, <2>2
<1>2. IInv /\ [Next]_vars =>
        [Fetch /\ state' = "reading" =>
           /\ Cardinality(page') = PageSize
           /\ \E i \in Matching : Before(cursor', Key(i))]_vars
  BY <1>1
<1>. QED  BY <1>2, Inductive, PTL DEF Spec, CursorPromises
=============================================================================
