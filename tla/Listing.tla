------------------------------- MODULE Listing -------------------------------
(***************************************************************************)
(* Keyset pagination, shared by every list of the catalog, the addresses   *)
(* and the other domains: BaseRepository.list_page, paginate and the       *)
(* routes that join them.  A client follows the cursors of one list while  *)
(* other requests insert, move and delete rows.                            *)
(*                                                                         *)
(* A page holds the rows that match the filter, are not deleted and sort   *)
(* after the cursor, by created_at and id.  created_at is now(), which in  *)
(* PostgreSQL is the time a transaction began, so that rows may become     *)
(* visible in another order than that of their keys.  Encoding a cursor    *)
(* and decoding it loses nothing of the key: a cursor is a key here.       *)
(***************************************************************************)
EXTENDS Integers, FiniteSets

CONSTANTS Ids,        \* identifiers of rows, compared as UUIDs are
          PageSize,
          MaxTime     \* the last tick of the clock

ASSUME IdAssumption == Ids \subseteq Int /\ IsFiniteSet(Ids)
ASSUME PageAssumption == PageSize \in Nat \ {0}
ASSUME TimeAssumption == MaxTime \in Nat

VARIABLES
  clock,
  row,      \* status and created_at of every row
  parent,   \* the owner of the list, a category say, is not deleted
  state,    \* of the client: "idle", "reading", "done" or "refused"
  found,    \* the request for its next page has seen the owner
  cursor,   \* the key to continue after
  page,     \* the last page it got
  listed,   \* the rows of the pages before
  steady    \* the rows that were in the list all the time it has read

dbVars == <<clock, row, parent>>
clientVars == <<state, found, cursor, page, listed, steady>>
vars == <<dbVars, clientVars>>

(* "pending" is inserted and not committed; "elsewhere" does not match the
   filter, as a product of another category. *)
Statuses == {"none", "pending", "listed", "elsewhere", "deleted"}

Key(i) == [at |-> row[i].at, id |-> i]
Before(x, y) == x.at < y.at \/ (x.at = y.at /\ x.id < y.id)

Start == [at |-> -1, id |-> 0]    \* no cursor: before all keys

Matching == {i \in Ids : row[i].status = "listed"}

Init ==
  /\ clock = 0
  /\ row = [i \in Ids |-> [status |-> "none", at |-> 0]]
  /\ parent = TRUE
  /\ state = "idle"
  /\ found = FALSE
  /\ cursor = Start
  /\ page = {}
  /\ listed = {}
  /\ steady = {}

-----------------------------------------------------------------------------
Tick ==
  /\ clock < MaxTime
  /\ clock' = clock + 1
  /\ UNCHANGED <<row, parent, clientVars>>

(* create: the row is stamped with the time its transaction began. *)
Insert(i) ==
  /\ row[i].status = "none"
  /\ row' = [row EXCEPT ![i] = [status |-> "pending", at |-> clock]]
  /\ UNCHANGED <<clock, parent, clientVars>>

Commit(i) ==
  /\ row[i].status = "pending"
  /\ \E s \in {"listed", "elsewhere"} : row' = [row EXCEPT ![i].status = s]
  /\ UNCHANGED <<clock, parent, clientVars>>

Rollback(i) ==
  /\ row[i].status = "pending"
  /\ row' = [row EXCEPT ![i].status = "none"]
  /\ UNCHANGED <<clock, parent, clientVars>>

(* An update moves a row into the list or out of it; its key stays. *)
Enter(i) ==
  /\ row[i].status = "elsewhere"
  /\ row' = [row EXCEPT ![i].status = "listed"]
  /\ UNCHANGED <<clock, parent, clientVars>>

Quit(i, s) ==
  /\ row[i].status = "listed"
  /\ row' = [row EXCEPT ![i].status = s]
  /\ steady' = steady \ {i}
  /\ UNCHANGED <<clock, parent, state, found, cursor, page, listed>>

Delete(i) == Quit(i, "deleted")
Move(i) == Quit(i, "elsewhere")

DeleteParent ==
  /\ parent
  /\ parent' = FALSE
  /\ UNCHANGED <<clock, row, clientVars>>

-----------------------------------------------------------------------------
(* list_page: filter, deleted_at and the cursor; order and limit. *)
AfterInclusive(c) ==                       \* mutant: >= for the id
  {i \in Matching : ~Before(Key(i), c)}
AfterTime(c) ==                            \* mutant: created_at alone
  {i \in Matching : c.at < row[i].at}

AfterAny(c) == Matching                    \* mutant: the cursor is not applied

After(c) == {i \in Matching : Before(c, Key(i))}

Preceding(i, S) == {j \in S : Before(Key(j), Key(i))}
FirstAndOne(n, S) ==                       \* mutant: one row more
  {i \in S : Cardinality(Preceding(i, S)) <= n}
First(n, S) == {i \in S : Cardinality(Preceding(i, S)) < n}

ListPage(limit, c) == First(limit, After(c))

(* paginate trims the extra row; a cursor is that of the last row kept. *)
HasMoreAtLeast(rows) == Cardinality(rows) >= PageSize      \* mutant: off by one
HasMore(rows) == Cardinality(rows) > PageSize

Last(i, S) == i \in S /\ \A j \in S : j = i \/ Before(Key(j), Key(i))

(* The services of nested lists look the owner up before every page; it may be
   deleted by the time the rows are read. *)
Lookup ==
  /\ state = "reading"
  /\ ~found
  /\ parent
  /\ found' = TRUE
  /\ UNCHANGED <<dbVars, state, cursor, page, listed, steady>>

Refused ==
  /\ state = "reading"
  /\ ~found
  /\ ~parent
  /\ state' = "refused"
  /\ UNCHANGED <<dbVars, found, cursor, page, listed, steady>>

Fetch ==
  /\ state = "reading"
  /\ found
  /\ found' = FALSE
  /\ LET rows == ListPage(PageSize + 1, cursor) IN
       /\ page' = First(PageSize, rows)
       /\ IF HasMore(rows)
          THEN state' = state /\ \E i \in Ids : Last(i, page') /\ cursor' = Key(i)
          ELSE state' = "done" /\ UNCHANGED cursor
  /\ listed' = listed \cup page
  /\ UNCHANGED <<dbVars, steady>>

Begin ==
  /\ state # "reading"
  /\ state' = "reading"
  /\ cursor' = Start
  /\ page' = {}
  /\ listed' = {}
  /\ steady' = Matching
  /\ UNCHANGED <<dbVars, found>>

-----------------------------------------------------------------------------
Write == \/ Tick \/ DeleteParent
         \/ \E i \in Ids : \/ Insert(i) \/ Commit(i) \/ Rollback(i)
                           \/ Enter(i) \/ Delete(i) \/ Move(i)
Read == Begin \/ Lookup \/ Refused \/ Fetch
Next == Write \/ Read

(* A client that has a cursor asks for the next page. *)
Spec == Init /\ [][Next]_vars /\ WF_vars(Lookup \/ Refused \/ Fetch)

-----------------------------------------------------------------------------
TypeOK ==
  /\ clock \in 0..MaxTime
  /\ row \in [Ids -> [status : Statuses, at : 0..MaxTime]]
  /\ parent \in BOOLEAN
  /\ state \in {"idle", "reading", "done", "refused"} /\ found \in BOOLEAN
  /\ cursor = Start \/ cursor \in [at : 0..MaxTime, id : Ids]
  /\ page \subseteq Ids /\ Cardinality(page) <= PageSize
  /\ listed \subseteq Ids
  /\ steady \subseteq Matching

(***************************************************************************)
(* Pages continue each other: every row of a page sorts after all rows of  *)
(* the pages before, so that none is returned twice, whatever was          *)
(* inserted, moved or deleted in the meantime.                             *)
(***************************************************************************)
PagesContinue ==
  \A i \in listed, j \in page : Before(Key(i), Key(j))

(***************************************************************************)
(* A client that has read a list to its end got every row that was in the  *)
(* list all the time.  A row that others committed or moved in while it    *)
(* read may be missing, also one that is in the list when it ends.         *)
(***************************************************************************)
NothingMissed == state = "done" => steady \subseteq listed \cup page

(* Between pages, the steady rows up to the cursor have been returned. *)
Returned == listed \cup page

Progress ==
  /\ \A i \in Returned : row[i].status \notin {"none", "pending"}
  /\ state = "reading" => \A i \in Returned : ~Before(cursor, Key(i))
  /\ state = "reading" => \A i \in steady : i \in Returned \/ Before(cursor, Key(i))

IInv == TypeOK /\ Progress /\ PagesContinue /\ NothingMissed

(***************************************************************************)
(* A page with a cursor is full, and promises at least one row after it.   *)
(***************************************************************************)
CursorPromises ==
  [][Fetch /\ state' = "reading" =>
       /\ Cardinality(page') = PageSize
       /\ \E i \in Matching : Before(cursor', Key(i))]_vars

(***************************************************************************)
(* A client that keeps following the cursors gets to the end: there are    *)
(* finitely many rows, and no page goes back.                              *)
(***************************************************************************)
ReadingEnds == (state = "reading") ~> (state # "reading")
=============================================================================
