------------------------------- MODULE Identity -------------------------------
(***************************************************************************)
(* The identity domain: the account of one customer, its addresses and its *)
(* preferences, and the handlers of CustomerService and AddressService at  *)
(* the granularity of their SQL statements.  Rows of two customers never   *)
(* meet, except that an e-mail address may be taken.                       *)
(*                                                                         *)
(* As in Inventory, a worker is a thread that serves one request in one    *)
(* transaction at READ COMMITTED; what it wrote and has not committed is   *)
(* in its drafts, and a row in the draft of one transaction is locked for  *)
(* the others.  An address that is the default is so because every request *)
(* for a default first clears the column with one bulk UPDATE, whose rows  *)
(* are those its snapshot sees when the statement begins.                  *)
(***************************************************************************)

CONSTANTS Workers,      \* concurrent requests the application serves
          Addresses,    \* identifiers of address rows
          Labels,
          Keys,         \* preference keys a caller may send
          Allowed,      \* the public keys of allowed_preferences.json
          Values,       \* values of a preference
          Crashes,      \* a process, a connection or a commit may fail
          NoRow,        \* a row that was never inserted
          NoJob,        \* what an idle worker works on
          Unset         \* a field that a request leaves out

ASSUME KeyAssumption == Allowed \subseteq Keys
ASSUME FlagAssumption == Crashes \in BOOLEAN

VARIABLES
  account,   \* the customer row: "absent", "live" or "deleted"
  row,       \* the committed address rows
  pref,      \* the committed preference rows, Unset when there is none
  job,       \* the request a worker serves
  pc,        \* how far its handler got
  mine,      \* its uncommitted image of the customer row, or "none"
  draft,     \* its uncommitted address rows, NoRow where it wrote nothing
  kept,      \* its uncommitted preferences, Unset where it wrote nothing
  saw,       \* the live addresses in the snapshot of its bulk UPDATE
  loaded,    \* the address object of its session
  known,     \* customer.preferences as loaded
  todo,      \* the preferences it has still to upsert
  key,       \* the preference it is upserting
  alone      \* nothing else committed since the request began

rowVars == <<account, row, pref>>
draftVars == <<mine, draft, kept>>
localVars == <<saw, loaded, known, todo, key>>
vars == <<rowVars, job, pc, draftVars, localVars, alone>>

Row == [removed : BOOLEAN, label : Labels, dflt : BOOLEAN]
Prefs == [Keys -> Values \cup {Unset}]
NoPrefs == [k \in Keys |-> Unset]
NoRows == [a \in Addresses |-> NoRow]

Job(ops, addresses, labels, dflts, prefs) ==
  [op : ops, addr : addresses, label : labels, dflt : dflts, prefs : prefs]

(* The bodies the schemas admit.  is_default of an update may be sent as null
   next to another field; a request that only changes the street is the one
   with neither label nor default. *)
Requests ==
  Job({"register", "profile", "delete"}, {Unset}, {Unset}, {"keep"}, {NoPrefs})
    \cup Job({"add"}, Addresses, Labels, {"yes", "no"}, {NoPrefs})
    \cup Job({"update"}, Addresses, Labels \cup {Unset},
             {"keep", "yes", "no", "null"}, {NoPrefs})
    \cup Job({"remove"}, Addresses, {Unset}, {"keep"}, {NoPrefs})
    \cup Job({"prefs"}, {Unset}, {Unset}, {"keep"}, Prefs \ {NoPrefs})

ASSUME NameAssumption == /\ NoRow \notin Row
                         /\ NoJob \notin Requests
                         /\ Unset \notin Addresses \cup Labels \cup Values

Removed(r) == r # NoRow /\ r.removed
Live(r) == r # NoRow /\ ~r.removed
Default(r) == Live(r) /\ r.dflt

-----------------------------------------------------------------------------
Init ==
  /\ account = "absent"
  /\ row = NoRows
  /\ pref = NoPrefs
  /\ job = [w \in Workers |-> NoJob]
  /\ pc = [w \in Workers |-> "idle"]
  /\ mine = [w \in Workers |-> "none"]
  /\ draft = [w \in Workers |-> NoRows]
  /\ kept = [w \in Workers |-> NoPrefs]
  /\ saw = [w \in Workers |-> {}]
  /\ loaded = [w \in Workers |-> NoRow]
  /\ known = [w \in Workers |-> NoPrefs]
  /\ todo = [w \in Workers |-> {}]
  /\ key = [w \in Workers |-> Unset]
  /\ alone = [w \in Workers |-> TRUE]

(* The identifier of a new address is a fresh UUID. *)
Adding == {w \in Workers : job[w] # NoJob /\ job[w].op = "add"}
Fresh(a) == row[a] = NoRow /\ \A v \in Adding : job[v].addr # a

Start(w) ==
  /\ job[w] = NoJob
  /\ \E j \in Requests :
       /\ j.op = "add" => Fresh(j.addr)
       /\ job' = [job EXCEPT ![w] = j]
  /\ pc' = [pc EXCEPT ![w] = "start"]
  /\ UNCHANGED <<rowVars, draftVars, localVars, alone>>

At(w, label, ops) == pc[w] = label /\ job[w].op \in ops

Goto(w, label) ==
  /\ pc' = [pc EXCEPT ![w] = label]
  /\ UNCHANGED <<rowVars, job, alone>>

(* The session closes, and with it its transaction and its objects. *)
End(w) ==
  /\ job' = [job EXCEPT ![w] = NoJob]
  /\ pc' = [pc EXCEPT ![w] = "idle"]
  /\ mine' = [mine EXCEPT ![w] = "none"]
  /\ draft' = [draft EXCEPT ![w] = NoRows]
  /\ kept' = [kept EXCEPT ![w] = NoPrefs]
  /\ saw' = [saw EXCEPT ![w] = {}]
  /\ loaded' = [loaded EXCEPT ![w] = NoRow]
  /\ known' = [known EXCEPT ![w] = NoPrefs]
  /\ todo' = [todo EXCEPT ![w] = {}]
  /\ key' = [key EXCEPT ![w] = Unset]

(* A request that ends without an effect: an early return, a domain error or
   a failed statement. *)
Leave(w) ==
  /\ End(w)
  /\ alone' = [alone EXCEPT ![w] = TRUE]
  /\ UNCHANGED rowVars

-----------------------------------------------------------------------------
(* Who holds a row, and what a statement waits for. *)
AccountHolders(w) == {v \in Workers \ {w} : mine[v] # "none"}
RowHolders(w, a) == {v \in Workers \ {w} : draft[v][a] # NoRow}
PrefHolders(w, k) == {v \in Workers \ {w} : kept[v][k] # Unset}

Labelled(r, l) == r # NoRow /\ r.label = l

(* The unique index on the label counts removed rows, and a statement that
   adds an entry waits for the writers of the rows that carry the label. *)
LabelHolders(w, l) ==
  {v \in Workers \ {w} : \E a \in Addresses :
     draft[v][a] # NoRow /\ (Labelled(draft[v][a], l) \/ Labelled(row[a], l))}

Image(w, a) == IF draft[w][a] # NoRow THEN draft[w][a] ELSE row[a]

LabelTaken(w, l) ==
  \E a \in Addresses \ {job[w].addr} : Labelled(Image(w, a), l)

-----------------------------------------------------------------------------
(* register: the lookup of a live account, then the INSERT.  The unique
   indexes also count a deleted account, and the e-mail of another one. *)
RegisterCheck(w) ==
  /\ At(w, "start", {"register"})
  /\ account # "live"
  /\ Goto(w, "load")
  /\ UNCHANGED <<draftVars, localVars>>

RegisterInsert(w) ==
  /\ At(w, "load", {"register"})
  /\ AccountHolders(w) = {}
  /\ account = "absent"
  /\ mine' = [mine EXCEPT ![w] = "live"]
  /\ Goto(w, "written")
  /\ UNCHANGED <<draft, kept, localVars>>

RegisterRefuse(w) ==
  /\ \/ At(w, "start", {"register"}) /\ account = "live"
     \/ At(w, "load", {"register"}) /\ AccountHolders(w) = {}
  /\ Leave(w)

(* _require_owner and get_by_id of the customer: the account is live. *)
Others == {"profile", "delete", "add", "update", "remove", "prefs"}

Enter(w) ==
  /\ At(w, "start", Others)
  /\ account = "live"
  /\ Goto(w, "load")
  /\ UNCHANGED <<draftVars, localVars>>

NotFound(w) ==
  /\ At(w, "start", Others)
  /\ account # "live"
  /\ Leave(w)

AccountWriteHard(w) ==                     \* mutant: the row is deleted for good
  /\ At(w, "load", {"profile", "delete"})
  /\ AccountHolders(w) = {}
  /\ mine' = [mine EXCEPT ![w] = IF job[w].op = "delete" THEN "absent" ELSE account]
  /\ Goto(w, "written")
  /\ UNCHANGED <<draft, kept, localVars>>

(* update_profile and delete_customer: the UPDATE names the row by its id and
   writes the changed columns, also those of a row deleted meanwhile. *)
AccountWrite(w) ==
  /\ At(w, "load", {"profile", "delete"})
  /\ AccountHolders(w) = {}
  /\ mine' = [mine EXCEPT ![w] = IF job[w].op = "delete" THEN "deleted" ELSE account]
  /\ Goto(w, "written")
  /\ UNCHANGED <<draft, kept, localVars>>

(* A profile as it is: no column differs from what was loaded. *)
AccountNothing(w) ==
  /\ At(w, "load", {"profile"})
  /\ Goto(w, "written")
  /\ UNCHANGED <<draftVars, localVars>>

-----------------------------------------------------------------------------
(* add_address: get_by_customer_and_label.  A live address with the label is
   returned as it is. *)
SameLabelDefault(l) ==                              \* mutant: finds default ones only
  {a \in Addresses : Default(row[a]) /\ row[a].label = l}

SameLabel(l) == {a \in Addresses : Live(row[a]) /\ row[a].label = l}

WantsDefault(w) == job[w] # NoJob /\ job[w].dflt = "yes"
AfterLoad(w) == IF WantsDefault(w) THEN "clear" ELSE "write"

AddFind(w) ==
  /\ At(w, "load", {"add"})
  /\ SameLabel(job[w].label) = {}
  /\ Goto(w, AfterLoad(w))
  /\ UNCHANGED <<draftVars, localVars>>

AddFound(w) ==
  /\ At(w, "load", {"add"})
  /\ SameLabel(job[w].label) # {}
  /\ Leave(w)

(* update_address, remove_address: get_by_id of the address. *)
AddressLoad(w) ==
  /\ At(w, "load", {"update", "remove"})
  /\ Live(row[job[w].addr])
  /\ loaded' = [loaded EXCEPT ![w] = row[job[w].addr]]
  /\ Goto(w, AfterLoad(w))
  /\ UNCHANGED <<draftVars, saw, known, todo, key>>

AddressNotFound(w) ==
  /\ At(w, "load", {"update", "remove"})
  /\ ~Live(row[job[w].addr])
  /\ Leave(w)

-----------------------------------------------------------------------------
(* clear_default.  The snapshot of the UPDATE is taken when it begins; the
   rows in it are written one by one, each after the transaction that holds
   it, and only if it is not removed by then. *)
ClearStart(w) ==
  /\ pc[w] = "clear"
  /\ saw' = [saw EXCEPT ![w] = {a \in Addresses : Live(row[a])}]
  /\ Goto(w, "clearing")
  /\ UNCHANGED <<draftVars, loaded, known, todo, key>>

PendingDefaults(w) ==                      \* mutant: WHERE is_default as well
  {a \in saw[w] : draft[w][a] = NoRow /\ Default(row[a])}

Pending(w) == {a \in saw[w] : draft[w][a] = NoRow /\ Live(row[a])}

ClearRow(w) ==
  /\ pc[w] = "clearing"
  /\ \E a \in Pending(w) :
       /\ RowHolders(w, a) = {}
       /\ draft' = [draft EXCEPT ![w][a] = [row[a] EXCEPT !.dflt = FALSE]]
  /\ Goto(w, "clearing")
  /\ UNCHANGED <<mine, kept, localVars>>

(* The ORM applies the UPDATE to the objects of the session as well. *)
SynchronizedNot(w) == loaded[w]                     \* mutant: it does not

Synchronized(w) ==
  IF loaded[w] = NoRow THEN NoRow ELSE [loaded[w] EXCEPT !.dflt = FALSE]

ClearDone(w) ==
  /\ pc[w] = "clearing"
  /\ Pending(w) = {}
  /\ loaded' = [loaded EXCEPT ![w] = Synchronized(w)]
  /\ Goto(w, "write")
  /\ UNCHANGED <<draftVars, saw, known, todo, key>>

-----------------------------------------------------------------------------
NewRow(w) ==
  [removed |-> FALSE, label |-> job[w].label, dflt |-> job[w].dflt = "yes"]

AddInsert(w) ==
  /\ At(w, "write", {"add"})
  /\ LabelHolders(w, job[w].label) = {}
  /\ ~LabelTaken(w, job[w].label)
  /\ draft' = [draft EXCEPT ![w][job[w].addr] = NewRow(w)]
  /\ Goto(w, "written")
  /\ UNCHANGED <<mine, kept, localVars>>

(* uq_identity_customer_addresses_customer_id_label; nobody handles the
   IntegrityError. *)
AddConflict(w) ==
  /\ At(w, "write", {"add"})
  /\ LabelHolders(w, job[w].label) = {}
  /\ LabelTaken(w, job[w].label)
  /\ Leave(w)

(* The columns of an UPDATE are those that differ from the loaded object. *)
SetsLabel(w) == job[w].label \notin {Unset, loaded[w].label}
SetsDefault(w) ==
  job[w].dflt # "keep" /\ (job[w].dflt = "yes") # loaded[w].dflt

(* What it makes of the newest version of the row. *)
UpdatedWhole(w) ==                         \* mutant: writes every column
  [removed |-> FALSE,
   label |-> IF SetsLabel(w) THEN job[w].label ELSE loaded[w].label,
   dflt |-> IF SetsDefault(w) THEN job[w].dflt = "yes" ELSE loaded[w].dflt]

Updated(w) ==
  LET r == Image(w, job[w].addr) IN
  [removed |-> r.removed,
   label |-> IF SetsLabel(w) THEN job[w].label ELSE r.label,
   dflt |-> IF SetsDefault(w) THEN job[w].dflt = "yes" ELSE r.dflt]

(* The flush waits for the holder of the row and, with a new label, for the
   holders of that label. *)
UpdateHolders(w) ==
  RowHolders(w, job[w].addr)
    \cup (IF job[w].op = "update" /\ SetsLabel(w) THEN LabelHolders(w, job[w].label)
          ELSE {})

UpdateWrite(w) ==
  /\ At(w, "write", {"update"})
  /\ job[w].dflt # "null"
  /\ UpdateHolders(w) = {}
  /\ SetsLabel(w) => ~LabelTaken(w, job[w].label)
  /\ draft' = [draft EXCEPT ![w][job[w].addr] = Updated(w)]
  /\ Goto(w, "written")
  /\ UNCHANGED <<mine, kept, localVars>>

(* Nothing differs from the loaded object: no statement is sent. *)
UpdateNothing(w) ==
  /\ At(w, "write", {"update"})
  /\ job[w].dflt # "null"
  /\ ~SetsLabel(w)
  /\ ~SetsDefault(w)
  /\ Goto(w, "written")
  /\ UNCHANGED <<draftVars, localVars>>

(* The label is taken, or a column that takes no NULL is set to it. *)
UpdateConflict(w) ==
  /\ At(w, "write", {"update"})
  /\ UpdateHolders(w) = {}
  /\ job[w].dflt = "null" \/ (SetsLabel(w) /\ LabelTaken(w, job[w].label))
  /\ Leave(w)

RemoveWrite(w) ==
  /\ At(w, "write", {"remove"})
  /\ UpdateHolders(w) = {}
  /\ draft' = [draft EXCEPT ![w][job[w].addr] = [row[job[w].addr] EXCEPT !.removed = TRUE]]
  /\ Goto(w, "written")
  /\ UNCHANGED <<mine, kept, localVars>>

-----------------------------------------------------------------------------
(* update_preferences *)
Sent(w) == {k \in Keys : job[w].prefs[k] # Unset}

PrefsLoad(w) ==
  /\ At(w, "load", {"prefs"})
  /\ Sent(w) \subseteq Allowed
  /\ known' = [known EXCEPT ![w] = pref]
  /\ todo' = [todo EXCEPT ![w] = Sent(w)]
  /\ Goto(w, "prefs")
  /\ UNCHANGED <<draftVars, saw, loaded, key>>

PrefsRefuse(w) ==
  /\ At(w, "load", {"prefs"})
  /\ ~(Sent(w) \subseteq Allowed)
  /\ Leave(w)

(* upsert_preference looks the customer up again, and does nothing for one
   that was deleted meanwhile. *)
PrefPick(w) ==
  /\ pc[w] = "prefs"
  /\ \E k \in todo[w] :
       /\ todo' = [todo EXCEPT ![w] = @ \ {k}]
       /\ key' = [key EXCEPT ![w] = IF account = "live" THEN k ELSE Unset]
  /\ Goto(w, IF account = "live" THEN "upsert" ELSE "prefs")
  /\ UNCHANGED <<draftVars, saw, loaded, known>>

PrefsDone(w) ==
  /\ pc[w] = "prefs"
  /\ todo[w] = {}
  /\ Goto(w, "written")
  /\ UNCHANGED <<draftVars, localVars>>

(* A value that equals the loaded one is not flushed. *)
SameValueExists(w) == known[w][key[w]] # Unset       \* mutant: never overwrites
SameValue(w) == known[w][key[w]] = job[w].prefs[key[w]]

PrefKeep(w) ==
  /\ pc[w] = "upsert"
  /\ SameValue(w)
  /\ Goto(w, "prefs")
  /\ UNCHANGED <<draftVars, localVars>>

PrefWrite(w) ==
  /\ pc[w] = "upsert"
  /\ ~SameValue(w)
  /\ PrefHolders(w, key[w]) = {}
  /\ known[w][key[w]] = Unset => pref[key[w]] = Unset
  /\ kept' = [kept EXCEPT ![w][key[w]] = job[w].prefs[key[w]]]
  /\ Goto(w, "prefs")
  /\ UNCHANGED <<mine, draft, localVars>>

(* The INSERT of a key that another request inserted first. *)
PrefConflict(w) ==
  /\ pc[w] = "upsert"
  /\ PrefHolders(w, key[w]) = {}
  /\ known[w][key[w]] = Unset
  /\ pref[key[w]] # Unset
  /\ Leave(w)

-----------------------------------------------------------------------------
(* db.commit() of the route *)
WroteNothing(w) == mine[w] = "none" /\ draft[w] = NoRows /\ kept[w] = NoPrefs

Commit(w) ==
  /\ pc[w] = "written"
  /\ account' = IF mine[w] # "none" THEN mine[w] ELSE account
  /\ row' = [a \in Addresses |-> Image(w, a)]
  /\ pref' = [k \in Keys |-> IF kept[w][k] # Unset THEN kept[w][k] ELSE pref[k]]
  /\ End(w)
  /\ alone' = [v \in Workers |->
                 v = w \/ job[v] = NoJob \/ (alone[v] /\ WroteNothing(w))]

(* The transactions that a blocked statement waits for, and the deadlock
   detector of PostgreSQL: of those that wait for each other one fails. *)
Blockers(w) ==
  CASE At(w, "load", {"register", "profile", "delete"}) -> AccountHolders(w)
    [] pc[w] = "clearing" -> UNION {RowHolders(w, a) : a \in Pending(w)}
    [] At(w, "write", {"add"}) -> LabelHolders(w, job[w].label)
    [] At(w, "write", {"update", "remove"}) -> UpdateHolders(w)
    [] pc[w] = "upsert" -> PrefHolders(w, key[w])
    [] OTHER -> {}

DeadlockVictim(w) ==
  /\ \E S \in SUBSET Workers :
       w \in S /\ \A v \in S : Blockers(v) \cap S # {}
  /\ Leave(w)

(* The commit, a statement or the process fails: rollback. *)
Abort(w) ==
  /\ Crashes
  /\ job[w] # NoJob
  /\ Leave(w)

-----------------------------------------------------------------------------
Customer(w) == \/ RegisterCheck(w) \/ RegisterInsert(w) \/ RegisterRefuse(w)
               \/ Enter(w) \/ NotFound(w) \/ AccountWrite(w)
               \/ AccountNothing(w)
Clear(w) == ClearStart(w) \/ ClearRow(w) \/ ClearDone(w)
Address(w) == \/ AddFind(w) \/ AddFound(w) \/ AddressLoad(w) \/ AddressNotFound(w)
              \/ AddInsert(w) \/ AddConflict(w) \/ UpdateWrite(w) \/ UpdateNothing(w)
              \/ UpdateConflict(w) \/ RemoveWrite(w)
Preference(w) == \/ PrefsLoad(w) \/ PrefsRefuse(w) \/ PrefPick(w) \/ PrefsDone(w)
                 \/ PrefKeep(w) \/ PrefWrite(w) \/ PrefConflict(w)

Next == \E w \in Workers :
          \/ Start(w) \/ Customer(w) \/ Clear(w) \/ Address(w) \/ Preference(w)
          \/ Commit(w) \/ DeadlockVictim(w) \/ Abort(w)

Spec == Init /\ [][Next]_vars

-----------------------------------------------------------------------------
Steps == {"idle", "start", "load", "clear", "clearing", "write", "prefs",
          "upsert", "written"}

TypeOK ==
  /\ account \in {"absent", "live", "deleted"}
  /\ row \in [Addresses -> Row \cup {NoRow}]
  /\ pref \in Prefs
  /\ job \in [Workers -> Requests \cup {NoJob}]
  /\ pc \in [Workers -> Steps]
  /\ mine \in [Workers -> {"none", "live", "deleted"}]
  /\ draft \in [Workers -> [Addresses -> Row \cup {NoRow}]]
  /\ kept \in [Workers -> Prefs]
  /\ saw \in [Workers -> SUBSET Addresses]
  /\ loaded \in [Workers -> Row \cup {NoRow}]
  /\ known \in [Workers -> Prefs]
  /\ todo \in [Workers -> SUBSET Keys]
  /\ key \in [Workers -> Keys \cup {Unset}]
  /\ alone \in [Workers -> BOOLEAN]

(***************************************************************************)
(* The inductive invariant behind the theorems of IdentityProofs.          *)
(***************************************************************************)
(* A handler only reaches the steps of its own operation, with what these
   steps need; the address an add request will insert is not there. *)
Control(w) ==
  /\ pc[w] = "idle" <=> job[w] = NoJob
  /\ pc[w] \in {"prefs", "upsert"} => job[w].op = "prefs"
  /\ pc[w] \in {"clear", "clearing"} => WantsDefault(w)
  /\ pc[w] = "write" => job[w].op \in {"add", "update", "remove"}
  /\ pc[w] = "load" /\ job[w].op # "register" => account # "absent"
  /\ pc[w] = "upsert" => key[w] \in Keys
  /\ pc[w] \in {"clear", "clearing", "write"} /\ job[w].op # "add" =>
       loaded[w] # NoRow /\ row[job[w].addr] # NoRow
  /\ w \in Adding => row[job[w].addr] = NoRow

(* What a draft has to do with the committed row. *)
Drafted(w) ==
  /\ account = "deleted" => mine[w] # "live"
  /\ \A a \in Addresses : draft[w][a] # NoRow =>
       /\ pc[w] \in {"clearing", "write", "written"}
       /\ row[a] = NoRow => w \in Adding /\ job[w].addr = a
       /\ Removed(row[a]) => draft[w][a].removed
       /\ WantsDefault(w) /\ (pc[w] # "written" \/ a # job[w].addr) =>
            ~draft[w][a].dflt
       /\ w \in Adding /\ row[a] # NoRow =>
            Live(row[a]) /\ draft[w][a].label = row[a].label

(* What the bulk UPDATE saw is in the draft, or was removed meanwhile. *)
Cleared(w) ==
  /\ \A a \in saw[w] : row[a] # NoRow
  /\ WantsDefault(w) =>
       /\ pc[w] \in {"write", "written"} =>
            /\ loaded[w] # NoRow => ~loaded[w].dflt
            /\ \A a \in saw[w] : draft[w][a] # NoRow \/ Removed(row[a])
       /\ pc[w] = "written" =>
            draft[w][job[w].addr] # NoRow /\ draft[w][job[w].addr].dflt

(* The lookup of the label still holds while nobody else commits. *)
Looked(w) ==
  w \in Adding /\ alone[w] /\ pc[w] \in {"clear", "clearing", "write"} =>
    SameLabel(job[w].label) = {}

(* So do the lookups of update_preferences: what was sent is still to be
   upserted, or in the draft, or was stored before. *)
ToUpsert(w) == todo[w] \cup (IF pc[w] = "upsert" THEN {key[w]} ELSE {})

Upserting(w) ==
  /\ pc[w] \in {"idle", "start", "load"} => kept[w] = NoPrefs
  /\ pc[w] = "upsert" => key[w] \notin todo[w]
  /\ job[w] # NoJob /\ job[w].op = "prefs" /\ alone[w] =>
       /\ pc[w] # "start" => account = "live"
       /\ pc[w] \in {"prefs", "upsert", "written"} =>
            /\ known[w] = pref
            /\ ToUpsert(w) \subseteq Sent(w)
            /\ pc[w] = "written" => ToUpsert(w) = {}
            /\ \A k \in Keys :
                 IF k \in Sent(w) \ ToUpsert(w)
                 THEN (IF kept[w][k] # Unset THEN kept[w][k] ELSE pref[k]) = job[w].prefs[k]
                 ELSE kept[w][k] = Unset

WorkerOK(w) == Control(w) /\ Drafted(w) /\ Cleared(w) /\ Looked(w) /\ Upserting(w)

(* Two transactions never write the same row. *)
Apart(v, w) ==
  v # w =>
    /\ {v, w} \subseteq Adding => job[v].addr # job[w].addr
    /\ mine[v] = "none" \/ mine[w] = "none"
    /\ \A a \in Addresses : draft[v][a] = NoRow \/ draft[w][a] = NoRow

IInv ==
  /\ TypeOK
  /\ \A w \in Workers : WorkerOK(w)
  /\ \A v, w \in Workers : Apart(v, w)

-----------------------------------------------------------------------------
Committing(w) == Commit(w)

(***************************************************************************)
(* A request for a default leaves its own address the default one of all   *)
(* that its bulk UPDATE could see: a second default is always a row that   *)
(* another transaction committed after that statement began.               *)
(***************************************************************************)
DefaultsWereUnseen ==
  [][\A w \in Workers : Committing(w) /\ WantsDefault(w) =>
       \A a \in saw[w] \ {job[w].addr} : ~Default(row'[a])]_vars

(* Such a request makes its address the default, also one that was loaded as
   the default and whose assignment the ORM compares with what it loaded. *)
DefaultTakesEffect ==
  [][\A w \in Workers : Committing(w) /\ WantsDefault(w) =>
       row'[job[w].addr].dflt]_vars

(***************************************************************************)
(* A removed address and a deleted account never come back, whatever an    *)
(* update that loaded them before still writes.                            *)
(***************************************************************************)
RemovedStaysRemoved ==
  [][/\ \A a \in Addresses : Removed(row[a]) => Removed(row'[a])
     /\ account = "deleted" => account' = "deleted"]_vars

(* The preferences that were sent are the stored ones after the request, as
   long as nothing else committed while it was served. *)
UpsertTakesEffect ==
  [][\A w \in Workers :
       Committing(w) /\ alone[w] /\ job[w].op = "prefs" =>
         \A k \in Keys : pref'[k] = IF k \in Sent(w) THEN job[w].prefs[k] ELSE pref[k]]_vars

(***************************************************************************)
(* Adding an address is idempotent on its label, so that the INSERT can    *)
(* only fail on a removed address, as long as nothing else committed since *)
(* the lookup: the label of a removed address cannot be used again.        *)
(***************************************************************************)
AddFailsOnRemovedLabel ==
  [][\A w \in Workers : AddConflict(w) /\ alone[w] =>
       \E a \in Addresses : Removed(row[a]) /\ row[a].label = job[w].label]_vars

==============================================================================
