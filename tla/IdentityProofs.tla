---------------------------- MODULE IdentityProofs ----------------------------
(***************************************************************************)
(* Theorems about Identity, for any workers, addresses, labels and         *)
(* preferences, crashes and deadlock victims included: IInv is inductive,  *)
(* and the five action properties that the run checks follow from it.      *)
(***************************************************************************)
EXTENDS Identity, TLAPS

Ops == {"register", "profile", "delete", "add", "update", "remove", "prefs"}

(* What the shape of a request tells about its fields. *)
LEMMA JobShape ==
  ASSUME NEW j \in Requests
  PROVE  /\ j # NoJob
         /\ j.op \in Ops
         /\ j.prefs \in Prefs
         /\ j.dflt = "yes" => j.op \in {"add", "update"}
         /\ j.op \in {"add", "update", "remove"} => j.addr \in Addresses
         /\ j.op = "add" => j.label \in Labels
         /\ j.op = "update" => j.label \in Labels \cup {Unset}
<1>. j # NoJob
  BY NameAssumption
<1>. NoPrefs \in Prefs
  BY DEF NoPrefs, Prefs
<1>. USE DEF Job, Ops
<1>1. CASE j \in Job({"register", "profile", "delete"}, {Unset}, {Unset}, {"keep"}, {NoPrefs})
  BY <1>1
<1>2. CASE j \in Job({"add"}, Addresses, Labels, {"yes", "no"}, {NoPrefs})
  BY <1>2
<1>3. CASE j \in Job({"update"}, Addresses, Labels \cup {Unset},
                     {"keep", "yes", "no", "null"}, {NoPrefs})
  BY <1>3
<1>4. CASE j \in Job({"remove"}, Addresses, {Unset}, {"keep"}, {NoPrefs})
  BY <1>4
<1>5. CASE j \in Job({"prefs"}, {Unset}, {Unset}, {"keep"}, Prefs \ {NoPrefs})
  BY <1>5
<1>. QED BY <1>1, <1>2, <1>3, <1>4, <1>5 DEF Requests

(* A busy worker has such a request. *)
LEMMA BusyJob ==
  ASSUME IInv, NEW w \in Workers, pc[w] # "idle"
  PROVE  job[w] # NoJob /\ job[w] \in Requests
BY DEF IInv, WorkerOK, Control, TypeOK

LEMMA InitIInv == Init => IInv
<1>. SUFFICES ASSUME Init PROVE IInv
  OBVIOUS
<1>1. TypeOK
  BY DEF Init, TypeOK, NoRows, NoPrefs, Prefs, Steps
<1>2. ASSUME NEW w \in Workers PROVE WorkerOK(w)
  BY DEF Init, WorkerOK, Control, Drafted, Cleared, Looked, Upserting, WantsDefault,
         Adding, NoRows
<1>3. ASSUME NEW v \in Workers, NEW w \in Workers PROVE Apart(v, w)
  BY DEF Init, Apart, Adding, NoRows
<1>. QED BY <1>1, <1>2, <1>3 DEF IInv

(* What a worker knows of its own. *)
SameLocal(v) ==
  /\ job'[v] = job[v] /\ pc'[v] = pc[v]
  /\ mine'[v] = mine[v] /\ draft'[v] = draft[v] /\ kept'[v] = kept[v]
  /\ saw'[v] = saw[v] /\ loaded'[v] = loaded[v]
  /\ known'[v] = known[v] /\ todo'[v] = todo[v] /\ key'[v] = key[v]

(* A worker whose own state did not change is as well off as before while
   the committed rows stay what they are. *)
LEMMA Frame ==
  ASSUME NEW v \in Workers, WorkerOK(v), UNCHANGED rowVars, SameLocal(v),
         alone'[v] = alone[v]
  PROVE  WorkerOK(v)'
<1>. USE DEF SameLocal, rowVars
<1>0. (v \in Adding)' <=> v \in Adding
  BY DEF Adding
<1>1. Control(v)'
  BY <1>0 DEF WorkerOK, Control, WantsDefault
<1>2. Drafted(v)'
  BY <1>0 DEF WorkerOK, Drafted, WantsDefault, Live, Removed
<1>3. Cleared(v)'
  BY DEF WorkerOK, Cleared, WantsDefault, Removed
<1>4. Looked(v)'
  BY <1>0 DEF WorkerOK, Looked, SameLabel, Live
<1>5. Upserting(v)'
  <2>1. ToUpsert(v)' = ToUpsert(v) /\ Sent(v)' = Sent(v)
    BY DEF ToUpsert, Sent
  <2>. QED  BY <2>1 DEF WorkerOK, Upserting
<1>. QED BY <1>1, <1>2, <1>3, <1>4, <1>5 DEF WorkerOK

(* A request goes on without committing: it suffices to look at its own
   worker, and at the rows it newly writes. *)
LEMMA StepIInv ==
  ASSUME IInv, NEW w \in Workers, UNCHANGED <<rowVars, job, alone>>, TypeOK',
         WorkerOK(w)',
         \A v \in Workers \ {w} : SameLocal(v),
         \A v \in Workers \ {w} :
           /\ mine'[w] = mine[w] \/ mine[v] = "none"
           /\ \A a \in Addresses : draft'[w][a] = draft[w][a] \/ draft[v][a] = NoRow
  PROVE  IInv'
<1>1. ASSUME NEW v \in Workers PROVE WorkerOK(v)'
  BY Frame DEF IInv
<1>2. ASSUME NEW u \in Workers, NEW v \in Workers PROVE Apart(u, v)'
  <2>. SUFFICES ASSUME u # v PROVE Apart(u, v)'
    BY DEF Apart
  <2>1. Adding' = Adding
    BY DEF Adding
  <2>2. Apart(u, v) /\ Apart(v, u)
    BY DEF IInv
  <2>3. CASE u # w /\ v # w
    BY <2>1, <2>2, <2>3 DEF Apart, SameLocal
  <2>4. CASE u = w
    BY <2>1, <2>2, <2>4 DEF Apart, SameLocal
  <2>5. CASE v = w
    BY <2>1, <2>2, <2>5 DEF Apart, SameLocal
  <2>. QED  BY <2>3, <2>4, <2>5
<1>. QED BY <1>1, <1>2 DEF IInv

(* A request ends without an effect. *)
LEMMA LeaveIInv ==
  ASSUME IInv, NEW w \in Workers, Leave(w)
  PROVE  IInv'
<1>. USE DEF Leave, End, rowVars
<1>1. TypeOK'
  BY DEF IInv, TypeOK, NoRows, NoPrefs, Prefs, Steps
<1>2. ASSUME NEW v \in Workers PROVE WorkerOK(v)'
  <2>1. CASE v = w
    BY <2>1 DEF IInv, TypeOK, WorkerOK, Control, Drafted, Cleared, Looked, Upserting,
                WantsDefault, Adding, NoRows
  <2>2. CASE v # w
    <3>1. SameLocal(v) /\ alone'[v] = alone[v]
      BY <2>2 DEF IInv, TypeOK, SameLocal
    <3>. QED  BY <3>1, Frame DEF IInv
  <2>. QED  BY <2>1, <2>2
<1>3. ASSUME NEW u \in Workers, NEW v \in Workers PROVE Apart(u, v)'
  <2>1. Apart(u, v)
    BY DEF IInv
  <2>. QED  BY <2>1 DEF IInv, TypeOK, Apart, Adding, NoRows
<1>. QED BY <1>1, <1>2, <1>3 DEF IInv

LEMMA StartIInv ==
  ASSUME IInv, NEW w \in Workers, Start(w)
  PROVE  IInv'
<1>. USE DEF Start, rowVars, draftVars, localVars
<1>1. PICK j \in Requests :
        /\ j.op = "add" => Fresh(j.addr)
        /\ job' = [job EXCEPT ![w] = j]
  OBVIOUS
<1>2. TypeOK'
  BY <1>1 DEF IInv, TypeOK, Steps
<1>3. pc[w] = "idle" /\ draft[w] = [a \in Addresses |-> NoRow]
  BY DEF IInv, TypeOK, WorkerOK, Control, Drafted
<1>4. pc'[w] = "start" /\ job'[w] = j /\ j # NoJob /\ j \in Requests
  BY <1>1, JobShape DEF IInv, TypeOK
<1>5. ASSUME NEW v \in Workers PROVE WorkerOK(v)'
  <2>1. CASE v = w
    <3>. USE <2>1, <1>1, <1>3, <1>4
    <3>1. Control(w)'
      BY DEF Control, Adding, Fresh
    <3>2. Drafted(w)'
      BY DEF IInv, WorkerOK, Drafted
    <3>3. Cleared(w)' /\ Looked(w)'
      BY DEF IInv, WorkerOK, Cleared, Looked
    <3>4. Upserting(w)'
      BY DEF IInv, WorkerOK, Upserting
    <3>. QED  BY <3>1, <3>2, <3>3, <3>4 DEF WorkerOK
  <2>2. CASE v # w
    BY <2>2, <1>1, Frame DEF IInv, TypeOK, SameLocal
  <2>. QED  BY <2>1, <2>2
<1>6. ASSUME NEW u \in Workers, NEW v \in Workers PROVE Apart(u, v)'
  <2>1. Apart(u, v)
    BY DEF IInv
  <2>. QED  BY <2>1, <1>1, <1>4 DEF IInv, TypeOK, Apart, Adding, Fresh
<1>. QED BY <1>2, <1>5, <1>6 DEF IInv

-----------------------------------------------------------------------------
(* The steps that only move the handler on. *)
LEMMA MoveIInv ==
  ASSUME IInv, NEW w \in Workers,
         \/ RegisterCheck(w) \/ Enter(w) \/ AddFind(w) \/ UpdateNothing(w)
         \/ AccountNothing(w)
         \/ PrefsDone(w) \/ PrefKeep(w)
  PROVE  IInv'
<1>. USE DEF Goto, At, draftVars, localVars, rowVars
<1>1. job[w] # NoJob /\ job[w] \in Requests
  BY BusyJob DEF RegisterCheck, Enter, AddFind, UpdateNothing, AccountNothing,
         PrefsDone, PrefKeep
<1>2. /\ UNCHANGED <<rowVars, job, alone, draftVars, localVars>>
      /\ \E l \in {"load", "clear", "write", "written", "prefs"} : pc' = [pc EXCEPT ![w] = l]
  BY DEF RegisterCheck, Enter, AddFind, AfterLoad, UpdateNothing, AccountNothing, PrefsDone,
         PrefKeep
<1>3. TypeOK'
  BY <1>2 DEF IInv, TypeOK, Steps
<1>4. \A v \in Workers \ {w} : SameLocal(v)
  BY <1>2 DEF IInv, TypeOK, SameLocal
<1>5. WorkerOK(w) /\ pc[w] \in Steps /\ pc \in [Workers -> Steps]
  BY DEF IInv, TypeOK
<1>6. WorkerOK(w)'
  <2>. USE <1>1, <1>2, <1>5, JobShape
  <2>1. CASE RegisterCheck(w)
    BY <2>1 DEF RegisterCheck, WorkerOK, Control, Drafted, Cleared, Looked, Upserting,
                Adding, WantsDefault
  <2>2. CASE Enter(w)
    BY <2>2 DEF Enter, Others, WorkerOK, Control, Drafted, Cleared, Looked, Upserting,
                Adding, WantsDefault
  <2>3. CASE AddFind(w)
    BY <2>3 DEF AddFind, AfterLoad, WorkerOK, Control, Drafted, Cleared, Looked, Upserting,
                Adding, WantsDefault, SameLabel
  <2>4. CASE UpdateNothing(w)
    BY <2>4 DEF UpdateNothing, SetsDefault, WorkerOK, Control, Drafted, Cleared, Looked,
                Upserting, Adding, WantsDefault
  <2>5. CASE PrefsDone(w)
    BY <2>5 DEF PrefsDone, WorkerOK, Control, Drafted, Cleared, Looked, Upserting,
                Adding, WantsDefault, ToUpsert, Sent
  <2>6. CASE PrefKeep(w)
    BY <2>6 DEF PrefKeep, SameValue, WorkerOK, Control, Drafted, Cleared, Looked, Upserting,
                Adding, WantsDefault, ToUpsert, Sent
  <2>7. CASE AccountNothing(w)
    BY <2>7 DEF AccountNothing, WorkerOK, Control, Drafted, Cleared, Looked, Upserting,
                Adding, WantsDefault
  <2>. QED  BY <2>1, <2>2, <2>3, <2>4, <2>5, <2>6, <2>7
<1>. QED  BY <1>2, <1>3, <1>4, <1>6, StepIInv

(* The INSERT of the account, and its UPDATEs. *)
LEMMA AccountIInv ==
  ASSUME IInv, NEW w \in Workers, RegisterInsert(w) \/ AccountWrite(w)
  PROVE  IInv'
<1>. USE DEF Goto, At, rowVars, localVars, RegisterInsert, AccountWrite
<1>1. job[w] # NoJob /\ job[w] \in Requests
  BY BusyJob
<1>2. job[w].op # "register" => account # "absent"
  BY DEF IInv, WorkerOK, Control
<1>3. TypeOK'
  BY <1>2 DEF IInv, TypeOK, Steps
<1>4. \A v \in Workers \ {w} : SameLocal(v)
  BY DEF IInv, TypeOK, SameLocal
<1>5. WorkerOK(w)'
  BY <1>1, JobShape DEF IInv, TypeOK, WorkerOK, Control, Drafted, Cleared, Looked, Upserting,
     Adding, WantsDefault
<1>6. \A v \in Workers \ {w} : mine[v] = "none" /\ draft'[w] = draft[w]
  BY DEF IInv, TypeOK, AccountHolders
<1>. QED  BY <1>3, <1>4, <1>5, <1>6, StepIInv

LEMMA AddressLoadIInv ==
  ASSUME IInv, NEW w \in Workers, AddressLoad(w)
  PROVE  IInv'
<1>. USE DEF Goto, At, rowVars, draftVars, AddressLoad
<1>1. job[w] # NoJob /\ job[w] \in Requests /\ job[w].addr \in Addresses
  BY BusyJob, JobShape
<1>2. TypeOK' /\ row[job[w].addr] # NoRow
  BY <1>1 DEF IInv, TypeOK, Steps, AfterLoad, Live
<1>3. \A v \in Workers \ {w} : SameLocal(v)
  BY DEF IInv, TypeOK, SameLocal
<1>4. WorkerOK(w)'
  BY <1>1, <1>2 DEF IInv, TypeOK, WorkerOK, Control, Drafted, Cleared, Looked, Upserting,
     Adding, WantsDefault, AfterLoad
<1>. QED  BY <1>2, <1>3, <1>4, StepIInv

-----------------------------------------------------------------------------
(* clear_default *)
LEMMA ClearStartIInv ==
  ASSUME IInv, NEW w \in Workers, ClearStart(w)
  PROVE  IInv'
<1>. USE DEF Goto, rowVars, draftVars, ClearStart
<1>1. job[w] # NoJob /\ job[w] \in Requests
  BY BusyJob
<1>2. TypeOK'
  BY DEF IInv, TypeOK, Steps
<1>3. \A v \in Workers \ {w} : SameLocal(v)
  BY DEF IInv, TypeOK, SameLocal
<1>4. WorkerOK(w)'
  BY <1>1 DEF IInv, TypeOK, WorkerOK, Control, Drafted, Cleared, Looked, Upserting,
     Adding, WantsDefault, SameLabel, Live
<1>. QED  BY <1>2, <1>3, <1>4, StepIInv

LEMMA ClearRowIInv ==
  ASSUME IInv, NEW w \in Workers, ClearRow(w)
  PROVE  IInv'
<1>. USE DEF Goto, rowVars, localVars, ClearRow
<1>1. job[w] # NoJob /\ job[w] \in Requests
  BY BusyJob
<1>2. PICK a \in Pending(w) :
        /\ RowHolders(w, a) = {}
        /\ draft' = [draft EXCEPT ![w][a] = [row[a] EXCEPT !.dflt = FALSE]]
  OBVIOUS
<1>3. /\ a \in Addresses /\ Live(row[a]) /\ row[a] \in Row
      /\ draft'[w] = [draft[w] EXCEPT ![a] = [row[a] EXCEPT !.dflt = FALSE]]
  BY <1>2 DEF IInv, TypeOK, Pending, Live
<1>4. /\ [row[a] EXCEPT !.dflt = FALSE] \in Row
      /\ draft'[w][a] # NoRow /\ ~draft'[w][a].dflt
      /\ draft'[w][a].label = row[a].label
      /\ \A b \in Addresses \ {a} : draft'[w][b] = draft[w][b]
  <2>. DEFINE r == [row[a] EXCEPT !.dflt = FALSE]
  <2>1. r \in Row /\ ~r.dflt /\ r.label = row[a].label
    BY <1>3 DEF Row
  <2>2. draft[w] \in [Addresses -> Row \cup {NoRow}]
    BY DEF IInv, TypeOK
  <2>3. draft'[w][a] = r /\ \A b \in Addresses \ {a} : draft'[w][b] = draft[w][b]
    BY <1>3, <2>2
  <2>. HIDE DEF r
  <2>4. draft'[w][a] # NoRow
    BY <2>1, <2>3, NameAssumption
  <2>. QED  BY <2>1, <2>3, <2>4 DEF r
<1>5. TypeOK'
  BY <1>2, <1>4 DEF IInv, TypeOK, Steps
<1>6. \A v \in Workers \ {w} : SameLocal(v)
  BY <1>2 DEF IInv, TypeOK, SameLocal
<1>7. pc[w] = "clearing" /\ pc' = pc
  BY DEF IInv, TypeOK
<1>8. Drafted(w)'
  BY <1>3, <1>4, <1>7 DEF IInv, WorkerOK, Drafted, WantsDefault, Adding, Live, Removed
<1>9. WorkerOK(w)'
  BY <1>1, <1>7, <1>8 DEF IInv, WorkerOK, Control, Cleared, Looked, Upserting,
     Adding, WantsDefault, SameLabel, Live
<1>10. \A v \in Workers \ {w} : draft[v][a] = NoRow
  BY <1>2 DEF RowHolders
<1>. QED  BY <1>4, <1>5, <1>6, <1>9, <1>10, StepIInv

LEMMA ClearDoneIInv ==
  ASSUME IInv, NEW w \in Workers, ClearDone(w)
  PROVE  IInv'
<1>. USE DEF Goto, rowVars, draftVars, ClearDone
<1>1. job[w] # NoJob /\ job[w] \in Requests
  BY BusyJob
<1>2. /\ Synchronized(w) \in Row \cup {NoRow}
      /\ Synchronized(w) = NoRow <=> loaded[w] = NoRow
      /\ Synchronized(w) # NoRow => ~Synchronized(w).dflt
  <2>1. CASE loaded[w] = NoRow
    BY <2>1 DEF Synchronized
  <2>2. CASE loaded[w] # NoRow
    BY <2>2, NameAssumption DEF Synchronized, IInv, TypeOK, Row
  <2>. QED  BY <2>1, <2>2
<1>3. TypeOK'
  BY <1>2 DEF IInv, TypeOK, Steps
<1>4. \A v \in Workers \ {w} : SameLocal(v)
  BY DEF IInv, TypeOK, SameLocal
<1>5. \A a \in saw[w] : draft[w][a] # NoRow \/ Removed(row[a])
  BY DEF IInv, WorkerOK, Cleared, Pending, Live, Removed
<1>6. loaded'[w] = Synchronized(w) /\ pc'[w] = "write"
  BY DEF IInv, TypeOK
<1>7. WorkerOK(w)'
  BY <1>1, <1>2, <1>5, <1>6, JobShape DEF IInv, WorkerOK, Control, Drafted, Cleared, Looked,
     Upserting, Adding, WantsDefault, SameLabel
<1>. QED  BY <1>3, <1>4, <1>7, StepIInv

-----------------------------------------------------------------------------
(* A write of the address that the request names: r is what it writes. *)
LEMMA WriteIInv ==
  ASSUME IInv, NEW w \in Workers, NEW r \in Row, job[w] # NoJob,
         pc[w] = "write", pc' = [pc EXCEPT ![w] = "written"],
         draft' = [draft EXCEPT ![w][job[w].addr] = r],
         UNCHANGED <<rowVars, job, alone, mine, kept, localVars>>,
         \A v \in Workers \ {w} : draft[v][job[w].addr] = NoRow,
         Removed(row[job[w].addr]) => r.removed,
         WantsDefault(w) => r.dflt
  PROVE  IInv'
<1>. USE DEF rowVars, localVars
<1>1. /\ job[w] \in Requests /\ job[w].op \in {"add", "update", "remove"}
      /\ job[w].addr \in Addresses
  BY JobShape DEF IInv, TypeOK, WorkerOK, Control
<1>2. /\ draft'[w][job[w].addr] = r /\ r # NoRow
      /\ \A b \in Addresses \ {job[w].addr} : draft'[w][b] = draft[w][b]
  <2>1. draft[w] \in [Addresses -> Row \cup {NoRow}]
    BY DEF IInv, TypeOK
  <2>2. draft'[w] = [draft[w] EXCEPT ![job[w].addr] = r]
    BY DEF IInv, TypeOK
  <2>3. r # NoRow
    BY NameAssumption
  <2>. QED  BY <1>1, <2>1, <2>2, <2>3
<1>3. TypeOK'
  BY <1>1 DEF IInv, TypeOK, Steps
<1>4. \A v \in Workers \ {w} : SameLocal(v)
  BY DEF IInv, TypeOK, SameLocal
<1>5. pc'[w] = "written"
  BY DEF IInv, TypeOK
<1>6. Control(w) /\ Drafted(w) /\ Cleared(w) /\ Upserting(w)
  BY DEF IInv, WorkerOK
<1>7. Drafted(w)'
  BY <1>1, <1>2, <1>5, <1>6 DEF Control, Drafted, WantsDefault, Adding, Live, Removed
<1>8. WorkerOK(w)'
  BY <1>1, <1>2, <1>5, <1>6, <1>7 DEF WorkerOK, Control, Cleared, Looked, Upserting,
     Adding, WantsDefault
<1>. QED  BY <1>2, <1>3, <1>4, <1>8, StepIInv

LEMMA AddInsertIInv ==
  ASSUME IInv, NEW w \in Workers, AddInsert(w)
  PROVE  IInv'
<1>. USE DEF Goto, At, AddInsert
<1>1. job[w] # NoJob /\ job[w].addr \in Addresses /\ job[w].label \in Labels
  BY BusyJob, JobShape
<1>2. row[job[w].addr] = NoRow
  BY <1>1 DEF IInv, WorkerOK, Control, Adding
<1>3. ASSUME NEW v \in Workers \ {w} PROVE draft[v][job[w].addr] = NoRow
  BY <1>1, <1>2 DEF IInv, WorkerOK, Drafted, Apart, Adding
<1>4. NewRow(w) \in Row /\ (WantsDefault(w) => NewRow(w).dflt)
  BY <1>1 DEF NewRow, Row, WantsDefault
<1>. QED  BY <1>1, <1>2, <1>3, <1>4, WriteIInv DEF Removed

LEMMA UpdateWriteIInv ==
  ASSUME IInv, NEW w \in Workers, UpdateWrite(w)
  PROVE  IInv'
<1>. USE DEF Goto, At, UpdateWrite
<1>1. /\ job[w] # NoJob /\ job[w].addr \in Addresses
      /\ job[w].label \in Labels \cup {Unset}
  BY BusyJob, JobShape
<1>2. /\ row[job[w].addr] \in Row /\ loaded[w] \in Row
      /\ draft[w][job[w].addr] \in Row \cup {NoRow}
  BY <1>1 DEF IInv, TypeOK, WorkerOK, Control
<1>3. /\ Image(w, job[w].addr) \in Row
      /\ Removed(row[job[w].addr]) => Image(w, job[w].addr).removed
  BY <1>1, <1>2 DEF Image, IInv, WorkerOK, Drafted, Removed
<1>4. WantsDefault(w) => SetsDefault(w) /\ job[w].dflt = "yes"
  <2>. SUFFICES ASSUME WantsDefault(w) PROVE SetsDefault(w) /\ job[w].dflt = "yes"
    OBVIOUS
  <2>1. loaded[w] # NoRow /\ loaded[w].dflt \in BOOLEAN
    BY <1>2, NameAssumption DEF Row
  <2>2. loaded[w].dflt = FALSE
    BY <2>1 DEF IInv, WorkerOK, Cleared
  <2>. QED  BY <2>2 DEF WantsDefault, SetsDefault
<1>5. /\ Updated(w) \in Row
      /\ Removed(row[job[w].addr]) => Updated(w).removed
      /\ WantsDefault(w) => Updated(w).dflt
  BY <1>1, <1>3, <1>4 DEF Updated, Row, SetsLabel
<1>6. \A v \in Workers \ {w} : draft[v][job[w].addr] = NoRow
  BY DEF UpdateHolders, RowHolders
<1>. QED  BY <1>1, <1>5, <1>6, WriteIInv

LEMMA RemoveWriteIInv ==
  ASSUME IInv, NEW w \in Workers, RemoveWrite(w)
  PROVE  IInv'
<1>. USE DEF Goto, At, RemoveWrite
<1>1. job[w] # NoJob /\ job[w].addr \in Addresses /\ ~WantsDefault(w)
  BY BusyJob, JobShape DEF WantsDefault
<1>2. row[job[w].addr] \in Row
  BY <1>1 DEF IInv, TypeOK, WorkerOK, Control
<1>3. /\ [row[job[w].addr] EXCEPT !.removed = TRUE] \in Row
      /\ [row[job[w].addr] EXCEPT !.removed = TRUE].removed
  BY <1>2 DEF Row
<1>4. \A v \in Workers \ {w} : draft[v][job[w].addr] = NoRow
  BY DEF UpdateHolders, RowHolders
<1>. QED  BY <1>1, <1>3, <1>4, WriteIInv

-----------------------------------------------------------------------------
(* update_preferences *)
LEMMA PrefsLoadIInv ==
  ASSUME IInv, NEW w \in Workers, PrefsLoad(w)
  PROVE  IInv'
<1>. USE DEF Goto, At, rowVars, draftVars, PrefsLoad
<1>1. job[w] # NoJob /\ job[w] \in Requests
  BY BusyJob
<1>2. TypeOK'
  BY DEF IInv, TypeOK, Steps, Sent
<1>3. \A v \in Workers \ {w} : SameLocal(v)
  BY DEF IInv, TypeOK, SameLocal
<1>4. pc'[w] = "prefs" /\ todo'[w] = Sent(w) /\ known'[w] = pref /\ kept'[w] = NoPrefs
      /\ Sent(w)' = Sent(w)
  BY DEF IInv, TypeOK, WorkerOK, Upserting, Sent
<1>5. Control(w)' /\ Drafted(w)' /\ Cleared(w)' /\ Looked(w)'
  BY <1>1, <1>4 DEF IInv, WorkerOK, Control, Drafted, Cleared, Looked, Adding, WantsDefault
<1>6. Upserting(w)'
  BY <1>1, <1>4 DEF IInv, WorkerOK, Upserting, ToUpsert, NoPrefs
<1>. QED  BY <1>2, <1>3, <1>5, <1>6, StepIInv DEF WorkerOK

LEMMA PrefPickIInv ==
  ASSUME IInv, NEW w \in Workers, PrefPick(w)
  PROVE  IInv'
<1>. USE DEF Goto, At, rowVars, draftVars, PrefPick
<1>1. job[w] # NoJob /\ job[w] \in Requests /\ job[w].op = "prefs"
  BY BusyJob DEF IInv, WorkerOK, Control
<1>2. PICK k \in todo[w] :
        /\ todo' = [todo EXCEPT ![w] = @ \ {k}]
        /\ key' = [key EXCEPT ![w] = IF account = "live" THEN k ELSE Unset]
  OBVIOUS
<1>3. TypeOK'
  BY <1>2 DEF IInv, TypeOK, Steps
<1>4. \A v \in Workers \ {w} : SameLocal(v)
  BY <1>2 DEF IInv, TypeOK, SameLocal
<1>5. /\ todo'[w] = todo[w] \ {k} /\ k \in Keys
      /\ pc'[w] = IF account = "live" THEN "upsert" ELSE "prefs"
      /\ key'[w] = IF account = "live" THEN k ELSE Unset
      /\ Sent(w)' = Sent(w)
  BY <1>2 DEF IInv, TypeOK, Sent
<1>6. Control(w)' /\ Drafted(w)' /\ Cleared(w)' /\ Looked(w)'
  BY <1>1, <1>5 DEF IInv, WorkerOK, Control, Drafted, Cleared, Looked, Adding, WantsDefault
<1>7. account = "live" => ToUpsert(w)' = ToUpsert(w)
  BY <1>5 DEF ToUpsert
<1>8. Upserting(w)'
  BY <1>1, <1>5, <1>7 DEF IInv, WorkerOK, Upserting
<1>. QED  BY <1>3, <1>4, <1>6, <1>8, StepIInv DEF WorkerOK

LEMMA PrefWriteIInv ==
  ASSUME IInv, NEW w \in Workers, PrefWrite(w)
  PROVE  IInv'
<1>. USE DEF Goto, rowVars, localVars, PrefWrite
<1>1. job[w] # NoJob /\ job[w] \in Requests /\ job[w].op = "prefs" /\ key[w] \in Keys
  BY BusyJob DEF IInv, WorkerOK, Control
<1>2. job[w].prefs \in Prefs
  BY <1>1, JobShape
<1>3. TypeOK'
  BY <1>1, <1>2 DEF IInv, TypeOK, Steps, Prefs
<1>4. \A v \in Workers \ {w} : SameLocal(v)
  BY DEF IInv, TypeOK, SameLocal
<1>5. /\ pc'[w] = "prefs" /\ Sent(w)' = Sent(w)
      /\ ToUpsert(w)' = todo[w] /\ ToUpsert(w) = todo[w] \cup {key[w]}
      /\ kept'[w] = [kept[w] EXCEPT ![key[w]] = job[w].prefs[key[w]]]
  BY DEF IInv, TypeOK, Sent, ToUpsert
<1>6. Control(w)' /\ Drafted(w)' /\ Cleared(w)' /\ Looked(w)'
  BY <1>1, <1>5 DEF IInv, WorkerOK, Control, Drafted, Cleared, Looked, Adding, WantsDefault
<1>7. kept[w] \in Prefs
  BY DEF IInv, TypeOK
<1>8. Upserting(w)'
  BY <1>1, <1>2, <1>5, <1>7 DEF IInv, WorkerOK, Upserting, Prefs, Sent
<1>. QED  BY <1>3, <1>4, <1>6, <1>8, StepIInv DEF WorkerOK

-----------------------------------------------------------------------------
(* The requests that end without an effect. *)
LEMMA EndIInv ==
  ASSUME IInv, NEW w \in Workers,
         \/ RegisterRefuse(w) \/ NotFound(w) \/ AddFound(w) \/ AddressNotFound(w)
         \/ AddConflict(w) \/ UpdateConflict(w) \/ PrefsRefuse(w) \/ PrefConflict(w)
         \/ DeadlockVictim(w) \/ Abort(w)
  PROVE  IInv'
<1>1. Leave(w)
  BY DEF RegisterRefuse, NotFound, AddFound, AddressNotFound, AddConflict, UpdateConflict,
         PrefsRefuse, PrefConflict, DeadlockVictim, Abort
<1>. QED  BY <1>1, LeaveIInv

(* What a commit makes of a row. *)
LEMMA CommitRows ==
  ASSUME IInv, NEW w \in Workers, Commit(w), NEW a \in Addresses
  PROVE  /\ row'[a] = IF draft[w][a] # NoRow THEN draft[w][a] ELSE row[a]
         /\ row[a] # NoRow => row'[a] # NoRow
         /\ Removed(row[a]) => Removed(row'[a])
BY DEF IInv, WorkerOK, Drafted, Commit, Image, Removed

(* Who has written nothing leaves the committed rows alone. *)
LEMMA CommitNothing ==
  ASSUME IInv, NEW w \in Workers, Commit(w), WroteNothing(w)
  PROVE  UNCHANGED rowVars
<1>1. account' = account
  BY DEF Commit, WroteNothing
<1>2. row' = row
  BY DEF IInv, TypeOK, Commit, WroteNothing, Image, NoRows
<1>3. pref' = pref
  BY DEF IInv, TypeOK, Commit, WroteNothing, NoPrefs, Prefs
<1>. QED  BY <1>1, <1>2, <1>3 DEF rowVars

LEMMA CommitAccount ==
  ASSUME IInv, NEW w \in Workers, Commit(w)
  PROVE  /\ account # "absent" => account' # "absent"
         /\ account = "deleted" => account' = "deleted"
         /\ \A v \in Workers \ {w} : mine[v] # "none" => account' = account
BY DEF IInv, TypeOK, WorkerOK, Drafted, Apart, Commit

(* It leaves the drafts of the others as good as they were. *)
LEMMA CommitOther ==
  ASSUME IInv, NEW w \in Workers, Commit(w), NEW v \in Workers \ {w}
  PROVE  WorkerOK(v)'
<1>1. SameLocal(v)
  BY DEF IInv, TypeOK, Commit, End, SameLocal
<1>2. alone'[v] => job[v] = NoJob \/ (alone[v] /\ UNCHANGED rowVars)
  BY CommitNothing DEF Commit
<1>3. \A a \in Addresses : draft[v][a] # NoRow => row'[a] = row[a]
  BY CommitRows DEF IInv, Apart
<1>4. (v \in Adding)' <=> v \in Adding
  BY <1>1 DEF Adding, SameLocal
<1>5. ASSUME v \in Adding PROVE row'[job[v].addr] = NoRow
  <2>1. job[v].addr \in Addresses /\ row[job[v].addr] = NoRow
    BY <1>5, JobShape DEF IInv, TypeOK, WorkerOK, Control, Adding
  <2>2. draft[w][job[v].addr] = NoRow
    BY <1>5, <2>1 DEF IInv, WorkerOK, Drafted, Apart
  <2>. QED  BY <2>1, <2>2, CommitRows
<1>. USE <1>1 DEF SameLocal
<1>6. Control(v)'
  <2>1. pc[v] \in {"clear", "clearing", "write"} => job[v] # NoJob
    BY DEF IInv, WorkerOK, Control
  <2>2. pc[v] \in {"clear", "clearing", "write"} /\ job[v].op # "add"
          => job[v].addr \in Addresses
    BY <2>1, JobShape DEF IInv, TypeOK, WorkerOK, Control, WantsDefault
  <2>. QED  BY <2>2, <1>4, <1>5, CommitRows, CommitAccount
            DEF IInv, WorkerOK, Control, WantsDefault
<1>7. Drafted(v)'
  <2>1. account' = "deleted" => mine[v] # "live"
    BY CommitAccount DEF IInv, WorkerOK, Drafted
  <2>. QED  BY <2>1, <1>3, <1>4 DEF IInv, WorkerOK, Drafted, WantsDefault, Removed, Live
<1>8. Cleared(v)'
  <2>1. saw[v] \subseteq Addresses
    BY DEF IInv, TypeOK
  <2>. QED  BY <2>1, CommitRows DEF IInv, WorkerOK, Cleared, WantsDefault
<1>9. Looked(v)'
  BY <1>2, <1>4 DEF IInv, WorkerOK, Looked, SameLabel, Live, rowVars, Adding
<1>10. Upserting(v)'
  <2>1. ToUpsert(v)' = ToUpsert(v) /\ Sent(v)' = Sent(v)
    BY DEF ToUpsert, Sent
  <2>. QED  BY <2>1, <1>2 DEF IInv, WorkerOK, Upserting, rowVars
<1>. QED  BY <1>6, <1>7, <1>8, <1>9, <1>10 DEF WorkerOK

LEMMA CommitIInv ==
  ASSUME IInv, NEW w \in Workers, Commit(w)
  PROVE  IInv'
<1>1. TypeOK'
  BY DEF IInv, TypeOK, Commit, End, Image, NoRows, NoPrefs, Prefs, Steps
<1>2. WorkerOK(w)'
  BY DEF IInv, TypeOK, Commit, End, NoRows, WorkerOK, Control, Drafted, Cleared, Looked,
         Upserting, Adding, WantsDefault
<1>3. ASSUME NEW u \in Workers, NEW v \in Workers PROVE Apart(u, v)'
  <2>1. Apart(u, v)
    BY DEF IInv
  <2>. QED  BY <2>1 DEF IInv, TypeOK, Apart, Adding, Commit, End, NoRows
<1>. QED  BY <1>1, <1>2, <1>3, CommitOther DEF IInv

(* The inductive invariant holds: a step of any handler, the commit and the
   rollbacks included, keeps it. *)
THEOREM Inductive == Spec => []IInv
<1>1. ASSUME IInv, [Next]_vars PROVE IInv'
  <2>1. ASSUME NEW w \in Workers, Start(w) PROVE IInv'
    BY <1>1, <2>1, StartIInv
  <2>2. ASSUME NEW w \in Workers, Customer(w) PROVE IInv'
    BY <1>1, <2>2, MoveIInv, AccountIInv, EndIInv DEF Customer
  <2>3. ASSUME NEW w \in Workers, Clear(w) PROVE IInv'
    BY <1>1, <2>3, ClearStartIInv, ClearRowIInv, ClearDoneIInv DEF Clear
  <2>4. ASSUME NEW w \in Workers, Address(w) PROVE IInv'
    BY <1>1, <2>4, MoveIInv, AddressLoadIInv, AddInsertIInv, UpdateWriteIInv,
       RemoveWriteIInv, EndIInv DEF Address
  <2>5. ASSUME NEW w \in Workers, Preference(w) PROVE IInv'
    BY <1>1, <2>5, MoveIInv, PrefsLoadIInv, PrefPickIInv, PrefWriteIInv, EndIInv
       DEF Preference
  <2>6. ASSUME NEW w \in Workers, Commit(w) PROVE IInv'
    BY <1>1, <2>6, CommitIInv
  <2>7. ASSUME NEW w \in Workers, DeadlockVictim(w) \/ Abort(w) PROVE IInv'
    BY <1>1, <2>7, EndIInv
  <2>8. CASE UNCHANGED vars
    <3>1. ASSUME NEW v \in Workers PROVE WorkerOK(v)'
      BY <1>1, <2>8, Frame DEF IInv, vars, draftVars, localVars, SameLocal
    <3>2. TypeOK'
      BY <1>1, <2>8 DEF IInv, TypeOK, vars, rowVars, draftVars, localVars
    <3>3. ASSUME NEW u \in Workers, NEW v \in Workers PROVE Apart(u, v)'
      BY <1>1, <2>8 DEF IInv, Apart, Adding, vars, draftVars
    <3>. QED  BY <3>1, <3>2, <3>3 DEF IInv
  <2>. QED  BY <1>1, <2>1, <2>2, <2>3, <2>4, <2>5, <2>6, <2>7, <2>8 DEF Next
<1>. QED  BY <1>1, InitIInv, PTL DEF Spec

-----------------------------------------------------------------------------
(* Type correctness of accounts, rows, drafts and requests. *)
THEOREM TypeCorrect == Spec => []TypeOK
<1>1. IInv => TypeOK
  BY DEF IInv
<1>. QED  BY <1>1, Inductive, PTL

(* A request for a default that commits has cleared every other address its
   bulk UPDATE saw, and none of them is a default afterwards. *)
THEOREM ClearedWhatItSaw == Spec => DefaultsWereUnseen
<1>1. ASSUME IInv, NEW w \in Workers, Commit(w), WantsDefault(w),
             NEW a \in saw[w] \ {job[w].addr}
      PROVE  ~Default(row'[a])
  <2>1. pc[w] = "written" /\ a \in Addresses
    BY <1>1 DEF Commit, IInv, TypeOK
  <2>2. draft[w][a] # NoRow => ~draft[w][a].dflt
    BY <1>1, <2>1 DEF IInv, WorkerOK, Drafted
  <2>3. draft[w][a] # NoRow \/ Removed(row[a])
    BY <1>1, <2>1 DEF IInv, WorkerOK, Cleared
  <2>4. CASE draft[w][a] # NoRow
    BY <1>1, <2>1, <2>2, <2>4, CommitRows DEF Default
  <2>5. CASE Removed(row[a])
    BY <1>1, <2>1, <2>5, CommitRows DEF Default, Live, Removed
  <2>. QED  BY <2>3, <2>4, <2>5
<1>2. IInv => \A w \in Workers : Committing(w) /\ WantsDefault(w) =>
                \A a \in saw[w] \ {job[w].addr} : ~Default(row'[a])
  BY <1>1 DEF Committing
<1>. QED  BY <1>2, Inductive, PTL DEF DefaultsWereUnseen

(* The address of such a request is a default afterwards. *)
THEOREM RequestedDefaultIsSet == Spec => DefaultTakesEffect
<1>1. ASSUME IInv, NEW w \in Workers, Commit(w), WantsDefault(w)
      PROVE  row'[job[w].addr].dflt
  <2>1. pc[w] = "written" /\ job[w].addr \in Addresses
    BY <1>1, JobShape DEF Commit, IInv, TypeOK, WantsDefault
  <2>2. draft[w][job[w].addr] # NoRow /\ draft[w][job[w].addr].dflt
    BY <1>1, <2>1 DEF IInv, WorkerOK, Cleared
  <2>. QED  BY <1>1, <2>1, <2>2, CommitRows
<1>2. IInv => \A w \in Workers : Committing(w) /\ WantsDefault(w) =>
                row'[job[w].addr].dflt
  BY <1>1 DEF Committing
<1>. QED  BY <1>2, Inductive, PTL DEF DefaultTakesEffect

(* Only a commit changes the committed rows. *)
LEMMA OnlyCommits ==
  ASSUME [Next]_vars
  PROVE  UNCHANGED rowVars \/ \E w \in Workers : Commit(w)
<1>1. CASE UNCHANGED vars
  BY <1>1 DEF vars
<1>2. ASSUME NEW w \in Workers,
             \/ Start(w) \/ Customer(w) \/ Clear(w) \/ Address(w) \/ Preference(w)
             \/ DeadlockVictim(w) \/ Abort(w)
      PROVE  UNCHANGED rowVars
  <2>1. CASE Start(w) \/ DeadlockVictim(w) \/ Abort(w)
    BY <2>1 DEF Start, DeadlockVictim, Abort, Leave
  <2>2. CASE Customer(w) \/ Clear(w)
    BY <2>2 DEF Customer, Clear, RegisterCheck, RegisterInsert, RegisterRefuse, Enter, NotFound,
       AccountWrite, AccountNothing, ClearStart, ClearRow, ClearDone, Goto, Leave
  <2>3. CASE Address(w)
    BY <2>3 DEF Address, AddFind, AddFound, AddressLoad, AddressNotFound, AddInsert,
       AddConflict, UpdateWrite, UpdateNothing, UpdateConflict, RemoveWrite, Goto, Leave
  <2>4. CASE Preference(w)
    BY <2>4 DEF Preference, PrefsLoad, PrefsRefuse, PrefPick, PrefsDone, PrefKeep, PrefWrite,
       PrefConflict, Goto, Leave
  <2>. QED  BY <1>2, <2>1, <2>2, <2>3, <2>4
<1>. QED  BY <1>1, <1>2 DEF Next

(* Removing an address and deleting an account are final. *)
THEOREM RemovalIsFinal == Spec => RemovedStaysRemoved
<1>1. ASSUME IInv, [Next]_vars
      PROVE  /\ \A a \in Addresses : Removed(row[a]) => Removed(row'[a])
             /\ account = "deleted" => account' = "deleted"
  <2>1. CASE UNCHANGED rowVars
    BY <2>1 DEF rowVars
  <2>2. CASE \E w \in Workers : Commit(w)
    BY <1>1, <2>2, CommitRows, CommitAccount
  <2>. QED  BY <1>1, <2>1, <2>2, OnlyCommits
<1>. QED  BY <1>1, Inductive, PTL DEF Spec, RemovedStaysRemoved

(* A request that nobody else's commit interrupts stores the preferences it
   was sent, and no others. *)
THEOREM PreferencesAreStored == Spec => UpsertTakesEffect
<1>1. ASSUME IInv, NEW w \in Workers, Commit(w), alone[w], job[w].op = "prefs",
             NEW k \in Keys
      PROVE  pref'[k] = IF k \in Sent(w) THEN job[w].prefs[k] ELSE pref[k]
  <2>1. pc[w] = "written" /\ job[w] # NoJob
    BY <1>1, BusyJob DEF Commit
  <2>2. pref'[k] = IF kept[w][k] # Unset THEN kept[w][k] ELSE pref[k]
    BY <1>1 DEF Commit
  <2>3. IF k \in Sent(w)
        THEN (IF kept[w][k] # Unset THEN kept[w][k] ELSE pref[k]) = job[w].prefs[k]
        ELSE kept[w][k] = Unset
    BY <1>1, <2>1 DEF IInv, WorkerOK, Upserting
  <2>. QED  BY <2>2, <2>3
<1>2. IInv => \A w \in Workers :
        Committing(w) /\ alone[w] /\ job[w].op = "prefs" =>
          \A k \in Keys : pref'[k] = IF k \in Sent(w) THEN job[w].prefs[k] ELSE pref[k]
  BY <1>1 DEF Committing
<1>. QED  BY <1>2, Inductive, PTL DEF UpsertTakesEffect

(* An INSERT that nobody else's commit interrupts conflicts with a removed
   address only. *)
THEOREM ConflictsAreRemoved == Spec => AddFailsOnRemovedLabel
<1>1. ASSUME IInv, NEW w \in Workers, AddConflict(w), alone[w]
      PROVE  \E a \in Addresses : Removed(row[a]) /\ row[a].label = job[w].label
  <2>1. job[w] # NoJob /\ w \in Adding /\ pc[w] = "write"
    BY <1>1, BusyJob DEF AddConflict, At, Adding
  <2>2. \A a \in Addresses : ~(Live(row[a]) /\ row[a].label = job[w].label)
    BY <1>1, <2>1 DEF IInv, WorkerOK, Looked, SameLabel
  <2>3. PICK a \in Addresses \ {job[w].addr} : Labelled(Image(w, a), job[w].label)
    BY <1>1 DEF AddConflict, LabelTaken
  <2>4. draft[w][a] = NoRow
    <3>. SUFFICES ASSUME draft[w][a] # NoRow PROVE FALSE
      OBVIOUS
    <3>1. row[a] # NoRow /\ Live(row[a]) /\ draft[w][a].label = row[a].label
      BY <1>1, <2>1, <2>3 DEF IInv, WorkerOK, Drafted
    <3>. QED  BY <2>2, <2>3, <3>1 DEF Labelled, Image
  <2>5. row[a] # NoRow /\ row[a].label = job[w].label
    BY <2>3, <2>4 DEF Labelled, Image
  <2>. QED  BY <2>2, <2>3, <2>5 DEF Live, Removed
<1>2. IInv => \A w \in Workers : AddConflict(w) /\ alone[w] =>
                \E a \in Addresses : Removed(row[a]) /\ row[a].label = job[w].label
  BY <1>1
<1>. QED  BY <1>2, Inductive, PTL DEF AddFailsOnRemovedLabel
=============================================================================
