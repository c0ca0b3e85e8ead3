---- MODULE Detection_proofs ----
(***************************************************************************)
(* Proofs about Detection, for any resource, any policies and any number   *)
(* of replicas, anomalies and actions: type correctness, that a pipeline   *)
(* never brings back an anomaly with the action that waits for it, that no *)
(* anomaly is proposed for again in haste, and that it has at most one     *)
(* live action.                                                            *)
(*                                                                         *)
(* An evaluation works on anomalies that it listed earlier, while other    *)
(* replicas, operators, the runner and retention write.  The invariant     *)
(* says what it can still rely on: an anomaly it refers to is on record    *)
(* with the type it had (Refers), since retention deletes none that is in  *)
(* use; and, while no two evaluations have overlapped, it is the only one  *)
(* (Alone) and the anomaly it checks has nothing but old failed attempts   *)
(* (Spent), as only an evaluation adds others.                             *)
(***************************************************************************)
EXTENDS Detection, SequenceTheorems, TLAPS

Pcs == {"idle", "list", "fetch", "write", "record", "evaluate", "consider", "check", "insert"}
Checking == {"check", "insert"}

AnomalyRows == {NoAnomaly} \cup [type : Types, status : Closed \cup {"active"}, old : BOOLEAN]
ActionRows == {NoAction} \cup [for : Anomalies, type : {Remedy[t] : t \in Types} \ {None},
                               status : NeverAgain \cup {"failed"}, recent : BOOLEAN]

WriteType == {w \in [op : {"record", "clear", "quiet"}, types : SUBSET Types] : w.op = "record" => w.types # {}}
JobState == [pc : Pcs, row : ResourceRow \cup {None}, writes : Seq(WriteType), found : Anomalies \cup {None},
             then : {"list", "evaluate", None}, todo : SUBSET Anomalies, at : Anomalies \cup {None}]

\* What a job holds where it stands.
Job(j) ==
    /\ j \in JobState
    /\ j.pc \in {"fetch", "consider"} \cup Checking => j.row \in ResourceRow
    /\ j.pc \in {"write", "record"} => j.writes # <<>> /\ j.then \in {"list", "evaluate"}
    /\ j.pc = "record" => Head(j.writes).op = "record"

\* What it refers to is in the table of anomalies.
Refers(j, table) ==
    /\ \A i \in j.todo : table[i].status # "none"
    /\ j.pc \in Checking =>
         j.at \in Anomalies /\ table[j.at].status # "none" /\ Remedy[table[j.at].type] # None

\* The anomaly that it checks has only failed attempts, and none within the cooldown.
Spent(j, table) ==
    j.pc \in Checking => \A a \in Actions : table[a].for = j.at => table[a].status = "failed" /\ ~table[a].recent

Seen == \E w \in Worlds, s \in {"running", "stopped", "gone"} :
          kind = w.kind /\ row = [w.row EXCEPT !.state = s] /\ load = w.load
Tables == /\ anomaly \in [Anomalies -> AnomalyRows] /\ action \in [Actions -> ActionRows]
          /\ overlapped \in BOOLEAN /\ edits \in Nat
Jobs == /\ pipe \in [Pipelines -> JobState]
        /\ \A p \in Pipelines : Job(pipe[p]) /\ Refers(pipe[p], anomaly)
Alone == ~overlapped => \A p, q \in Pipelines : Evaluating(p) /\ Evaluating(q) => p = q
Unhurried == ~overlapped => \A p \in Pipelines : Spent(pipe[p], action)

DInv == Seen /\ Tables /\ Jobs /\ Alone /\ Unhurried

----
\* What the runner and the approvers may write in a step: one status, what follows for the anomaly and
\* the resource's state, and nothing of the jobs.
LEMMA RunnerWrites ==
    ASSUME NEW a \in Actions, Runner(a) \/ LeaveAnomaly(a)
    PROVE  /\ action[a].status \in Open \cup {"closing"}
           /\ \E s \in NeverAgain \cup {"failed"} : SetAction(a, s)
           /\ UNCHANGED anomaly \/ CloseFor(a)
           /\ UNCHANGED row \/ \E s \in {"running", "stopped"} : row' = [row EXCEPT !.state = s]
           /\ UNCHANGED <<kind, load, pipe, overlapped, changes, edits>>
<1>1. CASE CompleteVerified(a)
  <2>1. UNCHANGED row \/ \E s \in {"running", "stopped"} : row' = [row EXCEPT !.state = s]
    BY <1>1 DEF CompleteVerified, Verified
  <2>2. "completed" \in NeverAgain /\ "executing" \in Open
    BY DEF NeverAgain, Open
  <2> QED BY <1>1, <2>1, <2>2 DEF CompleteVerified, bounds
<1>2. CASE Execute(a) \/ Fail(a) \/ Reject(a)
  <2>1. {"executing", "rejected", "failed"} \subseteq NeverAgain \cup {"failed"} /\ "pending" \in Open
    BY DEF NeverAgain, Open
  <2> QED BY <1>2, <2>1 DEF Execute, Fail, Reject, world, bounds
<1>3. CASE CompleteDry(a) \/ CompleteNow(a) \/ ResolveAnomaly(a) \/ LeaveAnomaly(a)
  <2>1. {"closing", "completed"} \subseteq NeverAgain /\ "executing" \in Open
    BY DEF NeverAgain, Open
  <2> QED BY <1>3, <2>1 DEF CompleteDry, CompleteNow, ResolveAnomaly, LeaveAnomaly, world, bounds
<1> QED BY <1>1, <1>2, <1>3 DEF Runner, Complete

----
\* The resource.

LEMMA SeenType == ASSUME Seen PROVE kind \in Kinds /\ row \in ResourceRow /\ load \in Load
  BY WorldsAssumption DEF Seen, ResourceRow

LEMMA SeenStays == ASSUME Seen, [Next]_vars PROVE Seen'
<1>1. CASE UNCHANGED world
  BY <1>1 DEF Seen, world
<1>2. CASE Change
  <2>1. PICK w \in Worlds : w.kind = kind /\ row' = w.row /\ load' = w.load
    BY <1>2 DEF Change
  <2>2. w.row = [w.row EXCEPT !.state = w.row.state] /\ w.row.state \in {"running", "stopped", "gone"}
    BY WorldsAssumption DEF ResourceRow
  <2> QED BY <1>2, <2>1, <2>2 DEF Change, Seen
<1>3. ASSUME NEW a \in Actions, Runner(a) \/ LeaveAnomaly(a) PROVE Seen'
  <2>1. UNCHANGED <<kind, load>>
    BY <1>3, RunnerWrites
  <2>2. CASE UNCHANGED row
    BY <2>1, <2>2 DEF Seen
  <2>3. CASE \E n \in {"running", "stopped"} : row' = [row EXCEPT !.state = n]
    <3>1. PICK n \in {"running", "stopped"} : row' = [row EXCEPT !.state = n]
      BY <2>3
    <3>2. PICK w \in Worlds, s \in {"running", "stopped", "gone"} :
            kind = w.kind /\ row = [w.row EXCEPT !.state = s] /\ load = w.load
      BY DEF Seen
    <3>3. row' = [w.row EXCEPT !.state = n]
      BY <3>1, <3>2, WorldsAssumption DEF ResourceRow
    <3> QED BY <2>1, <3>2, <3>3 DEF Seen
  <2> QED BY <1>3, <2>2, <2>3, RunnerWrites
<1>4. ASSUME NEW a \in Actions, CoolDown(a) PROVE UNCHANGED world
  BY <1>4 DEF CoolDown
<1>5. ASSUME NEW i \in Anomalies, NEW s \in Closed \cup {"active"}, Edit(i, s) PROVE UNCHANGED world
  BY <1>5 DEF Edit
<1>6. ASSUME NEW i \in Anomalies, Age(i) PROVE UNCHANGED world
  BY <1>6 DEF Age
<1>7. ASSUME NEW p \in Pipelines, Start(p) \/ Proceed(p) \/ FailVisit(p) \/ Crash(p) PROVE UNCHANGED world
  BY <1>7 DEF Start, Proceed, FailVisit, Crash, List, Fetch, Write, RecordAnomaly, Evaluate, Consider, Check, Insert
<1>8. CASE UNCHANGED vars
  BY <1>8 DEF vars, world, Seen
<1> QED BY <1>1, <1>2, <1>3, <1>4, <1>5, <1>6, <1>7, <1>8 DEF Next

----
\* The writes of a visit.

LEMMA OneWrite ==
    ASSUME NEW ts \in SUBSET Types
    PROVE  /\ Clear(ts) \in Seq(WriteType) /\ Quiet(ts) \in Seq(WriteType)
           /\ \A t \in ts : Record(t) \in Seq(WriteType)
<1>1. [op |-> "clear", types |-> ts] \in WriteType /\ [op |-> "quiet", types |-> ts] \in WriteType
  BY DEF WriteType
<1>2. \A t \in ts : [op |-> "record", types |-> {t}] \in WriteType
  BY DEF WriteType
<1> HIDE DEF WriteType
<1> QED BY <1>1, <1>2 DEF Clear, Quiet, Record

LEMMA NoWrite == <<>> \in Seq(WriteType)
  OBVIOUS

LEMMA ApplyWrites ==
    ASSUME NEW t \in Types, NEW finding \in Findings
    PROVE  Apply(t, finding) \in Seq(WriteType)
<1>1. {t} \in SUBSET Types
  OBVIOUS
<1> QED BY <1>1, OneWrite, NoWrite DEF Apply, Findings

LEMMA BehaviorWrites == ASSUME NEW k, NEW l \in Load PROVE Behavior(k, l) \in Seq(WriteType)
<1> DEFINE quiet == IF k = "lambda" THEN Quiet({"runaway_lambda"}) ELSE <<>>
           odd == IF l.odd \in Statistical THEN Record(l.odd) ELSE <<>>
           rest == Quiet(Statistical \ {l.odd})
<1>1. {"runaway_lambda"} \in SUBSET Types /\ Statistical \in SUBSET Types /\ Statistical \ {l.odd} \in SUBSET Types
  BY DEF Types, Behavioral
<1>2. quiet \in Seq(WriteType)
  BY <1>1, OneWrite, NoWrite
<1>3. odd \in Seq(WriteType)
  BY <1>1, OneWrite, NoWrite
<1>4. rest \in Seq(WriteType)
  BY <1>1, OneWrite
<1>5. quiet \o odd \in Seq(WriteType)
  BY <1>2, <1>3, ConcatProperties
<1>6. (quiet \o odd) \o rest \in Seq(WriteType)
  BY <1>4, <1>5, ConcatProperties
<1>7. Record("runaway_lambda") \in Seq(WriteType)
  BY <1>1, OneWrite
<1> QED BY <1>6, <1>7 DEF Behavior

LEMMA IdleOrWrites ==
    ASSUME NEW k, NEW l \in Load, NEW t \in Types
    PROVE  IdleOr(k, l, t) \in Seq(WriteType)
<1>1. Apply(t, l.idle) \in Seq(WriteType)
  BY ApplyWrites DEF Load
<1>2. Statistical \in SUBSET Types
  BY DEF Types, Behavioral
<1>3. (IF l.idle = "yes" THEN Clear(Statistical) ELSE Behavior(k, l)) \in Seq(WriteType)
  BY <1>2, OneWrite, BehaviorWrites
<1> QED BY <1>1, <1>3, ConcatProperties DEF IdleOr

LEMMA SamplesWrites ==
    ASSUME NEW k, NEW r \in ResourceRow, NEW l \in Load
    PROVE  Samples(k, r, l) \in Seq(WriteType)
<1>1. /\ {"idle_compute"} \in SUBSET Types /\ Behavioral \in SUBSET Types
      /\ {"idle_database"} \cup Statistical \in SUBSET Types
      /\ {"idle_compute", "idle_database", "low_storage"} \subseteq Types
  BY DEF Types, Rules, Behavioral
<1>2. Clear({"idle_compute"}) \o Clear(Behavioral) \in Seq(WriteType)
  BY <1>1, OneWrite, ConcatProperties
<1>3. Clear({"idle_database"} \cup Statistical) \in Seq(WriteType)
  BY <1>1, OneWrite
<1>4. Apply("low_storage", l.full) \o IdleOr(k, l, "idle_database") \in Seq(WriteType)
  <2>1. Apply("low_storage", l.full) \in Seq(WriteType)
    BY <1>1, ApplyWrites DEF Load
  <2>2. IdleOr(k, l, "idle_database") \in Seq(WriteType)
    BY <1>1, IdleOrWrites
  <2> QED BY <2>1, <2>2, ConcatProperties
<1>5. IdleOr(k, l, "idle_compute") \in Seq(WriteType)
  BY <1>1, IdleOrWrites
<1> QED BY <1>2, <1>3, <1>4, <1>5, NoWrite, BehaviorWrites DEF Samples

\* However the resource looks, a visit is a sequence of writes, each of which that records has a type.
LEMMA VisitWrites ==
    ASSUME NEW k, NEW r \in ResourceRow, NEW l \in Load
    PROVE  Visit(k, r, l) \in Seq(WriteType)
<1> DEFINE tags == Apply("untagged_resource", r.untagged)
           volume == IF k = "ebs" THEN Apply("unused_volume", r.unused) ELSE <<>>
<1>1. "untagged_resource" \in Types /\ "unused_volume" \in Types
  BY DEF Types, Rules
<1>2. tags \in Seq(WriteType)
  BY <1>1, ApplyWrites DEF ResourceRow
<1>3. volume \in Seq(WriteType)
  BY <1>1, ApplyWrites, NoWrite DEF ResourceRow
<1>4. tags \o volume \in Seq(WriteType)
  BY <1>2, <1>3, ConcatProperties
<1> QED BY <1>4, SamplesWrites, ConcatProperties DEF Visit

----
\* The tables.

\* What one step does to an anomaly on record: it stays, with its type, unless no job refers to it.
StaysOnRecord(i) == anomaly[i].status # "none" => anomaly'[i].status # "none" /\ anomaly'[i].type = anomaly[i].type
Unreferenced(i) == \A p \in Pipelines : i \notin {pipe[p].found, pipe[p].at} \cup pipe[p].todo
AnomaliesWell == /\ anomaly' \in [Anomalies -> AnomalyRows]
                 /\ \A i \in Anomalies : StaysOnRecord(i) \/ Unreferenced(i)

LEMMA OnRecord ==
    ASSUME NEW r \in AnomalyRows, r.status # "none"
    PROVE  r \in [type : Types, status : Closed \cup {"active"}, old : BOOLEAN]
  BY DEF AnomalyRows, NoAnomaly

\* A write of other columns than the type to one row on record.
LEMMA OneAnomaly ==
    ASSUME Tables, NEW i \in Anomalies, NEW new \in AnomalyRows, anomaly' = [anomaly EXCEPT ![i] = new],
           anomaly[i].status # "none" => new.status # "none" /\ new.type = anomaly[i].type
    PROVE  AnomaliesWell
  BY DEF Tables, AnomaliesWell, StaysOnRecord

LEMMA WriteAnomalies == ASSUME DInv, NEW p \in Pipelines, Write(p) PROVE AnomaliesWell
<1> DEFINE w == Head(pipe[p].writes)
<1>1. CASE UNCHANGED anomaly
  BY <1>1 DEF DInv, Tables, AnomaliesWell, StaysOnRecord
<1>2. CASE anomaly' = [i \in Anomalies |-> IF Closes(w, i) THEN Close(i, "resolved") ELSE anomaly[i]]
  <2>1. ASSUME NEW i \in Anomalies PROVE anomaly'[i] \in AnomalyRows /\ StaysOnRecord(i)
    <3>1. CASE Closes(w, i)
      <4>1. anomaly[i] \in AnomalyRows /\ anomaly[i].status = "active"
        BY <3>1 DEF DInv, Tables, Closes
      <4>2. anomaly'[i] = [anomaly[i] EXCEPT !.status = "resolved", !.old = FALSE]
        BY <1>2, <3>1 DEF Close
      <4>3. anomaly'[i] \in AnomalyRows /\ anomaly'[i].status # "none" /\ anomaly'[i].type = anomaly[i].type
        BY <4>1, <4>2, OnRecord DEF AnomalyRows, Closed
      <4> QED BY <4>3 DEF StaysOnRecord
    <3>2. CASE ~Closes(w, i)
      <4>1. anomaly'[i] = anomaly[i]
        BY <1>2, <3>2
      <4> QED BY <4>1 DEF DInv, Tables, StaysOnRecord
    <3> QED BY <3>1, <3>2
  <2>2. anomaly' = [i \in Anomalies |-> anomaly'[i]]
    BY <1>2
  <2> QED BY <2>1, <2>2 DEF AnomaliesWell
<1> QED BY <1>1, <1>2 DEF Write

\* Where a recorded anomaly goes, and its type.
LEMMA NewAnomalyFree ==
    ASSUME Tables, NEW i \in NewAnomaly
    PROVE  i \in Anomalies /\ (anomaly[i].status = "none" \/ Unreferenced(i))
  BY DEF NewAnomaly, Unused, Deleted, Unreferenced

LEMMA RecordedType ==
    ASSUME NEW j, Job(j), j.pc = "record"
    PROVE  (CHOOSE t \in Head(j.writes).types : TRUE) \in Types
<1>1. j.writes \in Seq(WriteType) /\ j.writes # <<>> /\ Head(j.writes).op = "record"
  BY DEF Job, JobState
<1>2. Head(j.writes) \in WriteType
  BY <1>1, HeadTailProperties
<1> QED BY <1>1, <1>2 DEF WriteType

LEMMA RecordAnomalies == ASSUME DInv, NEW p \in Pipelines, RecordAnomaly(p) PROVE AnomaliesWell
<1> DEFINE t == CHOOSE t \in Head(pipe[p].writes).types : TRUE
           i == pipe[p].found
<1>1. i \in Anomalies \cup {None} /\ t \in Types
  BY RecordedType DEF DInv, Jobs, JobState, RecordAnomaly, At
<1> HIDE DEF t
<1>2. CASE UNCHANGED anomaly
  BY <1>2 DEF DInv, Tables, AnomaliesWell, StaysOnRecord
<1>3. CASE i # None /\ anomaly' = [anomaly EXCEPT ![i] = Stamp(i)]
  <2>1. i \in Anomalies /\ anomaly[i] \in AnomalyRows
    BY <1>1, <1>3 DEF DInv, Tables
  <2>2. Stamp(i) \in AnomalyRows /\ Stamp(i).status = anomaly[i].status /\ Stamp(i).type = anomaly[i].type
    <3>1. CASE anomaly[i] = NoAnomaly
      <4>1. NoAnomaly.old = FALSE
        BY DEF NoAnomaly
      <4>2. NoAnomaly = [x \in DOMAIN NoAnomaly |-> NoAnomaly[x]]
        BY DEF NoAnomaly
      <4>3. Stamp(i) = NoAnomaly
        BY <3>1, <4>1, <4>2 DEF Stamp
      <4> QED BY <3>1, <4>3 DEF AnomalyRows
    <3>2. CASE anomaly[i] # NoAnomaly
      <4>1. anomaly[i] \in [type : Types, status : Closed \cup {"active"}, old : BOOLEAN]
        BY <2>1, <3>2 DEF AnomalyRows
      <4> QED BY <4>1 DEF Stamp, AnomalyRows
    <3> QED BY <3>1, <3>2
  <2> QED BY <1>3, <2>1, <2>2, OneAnomaly DEF DInv
<1>4. CASE /\ NewAnomaly # {}
           /\ LET j == CHOOSE j \in NewAnomaly : TRUE IN
              anomaly' = [anomaly EXCEPT ![j] = [type |-> t, status |-> "active", old |-> FALSE]]
  <2>1. PICK j \in NewAnomaly : anomaly' = [anomaly EXCEPT ![j] = [type |-> t, status |-> "active", old |-> FALSE]]
    BY <1>4
  <2>2. j \in Anomalies /\ (anomaly[j].status = "none" \/ Unreferenced(j))
    BY NewAnomalyFree DEF DInv
  <2>3. [type |-> t, status |-> "active", old |-> FALSE] \in AnomalyRows
    BY <1>1 DEF AnomalyRows
  <2> QED BY <2>1, <2>2, <2>3 DEF DInv, Tables, AnomaliesWell, StaysOnRecord
<1> QED BY <1>2, <1>3, <1>4 DEF RecordAnomaly, t

LEMMA OthersAnomalies ==
    ASSUME DInv,
           \/ \E i \in Anomalies : Age(i) \/ \E s \in Closed \cup {"active"} : Edit(i, s)
           \/ \E a \in Actions : Runner(a) \/ LeaveAnomaly(a)
    PROVE  AnomaliesWell
<1>1. ASSUME NEW i \in Anomalies, Age(i) PROVE AnomaliesWell
  <2>1. anomaly[i] \in AnomalyRows /\ anomaly[i].status = "active"
    BY <1>1 DEF DInv, Tables, Age
  <2> DEFINE new == [anomaly[i] EXCEPT !.status = "active", !.old = TRUE]
  <2>2. anomaly' = [anomaly EXCEPT ![i] = new]
    BY <1>1, <2>1, OnRecord DEF Age
  <2>3. new \in AnomalyRows /\ new.status # "none" /\ new.type = anomaly[i].type
    BY <2>1, OnRecord DEF AnomalyRows, Closed
  <2> HIDE DEF new
  <2> QED BY <2>2, <2>3, OneAnomaly DEF DInv
<1>2. ASSUME NEW i \in Anomalies, NEW s \in Closed \cup {"active"}, Edit(i, s) PROVE AnomaliesWell
  <2>1. anomaly[i] \in AnomalyRows /\ anomaly[i].status # "none"
    BY <1>2 DEF DInv, Tables, Edit
  <2>2. PICK o \in BOOLEAN : anomaly' = [anomaly EXCEPT ![i] = [anomaly[i] EXCEPT !.status = s, !.old = o]]
    BY <1>2, <2>1 DEF Edit, Close
  <2> DEFINE new == [anomaly[i] EXCEPT !.status = s, !.old = o]
  <2>3. new \in AnomalyRows /\ new.status # "none" /\ new.type = anomaly[i].type
    BY <2>1, OnRecord DEF AnomalyRows, Closed
  <2> HIDE DEF new
  <2> QED BY <2>2, <2>3, OneAnomaly DEF DInv, new
<1>3. ASSUME NEW a \in Actions, Runner(a) \/ LeaveAnomaly(a) PROVE AnomaliesWell
  <2> DEFINE i == action[a].for
  <2>1. CASE UNCHANGED anomaly
    BY <2>1 DEF DInv, Tables, AnomaliesWell, StaysOnRecord
  <2>2. CASE anomaly[i].status = "active" /\ anomaly' = [anomaly EXCEPT ![i] = Close(i, "resolved")]
    <3>1. action[a] \in ActionRows /\ action[a].status # "none"
      BY <1>3, RunnerWrites DEF DInv, Tables, Open
    <3>2. i \in Anomalies
      BY <3>1 DEF ActionRows, NoAction
    <3>3. anomaly[i] \in AnomalyRows
      BY <3>2 DEF DInv, Tables
    <3>4. Close(i, "resolved") \in AnomalyRows /\ Close(i, "resolved").status # "none"
          /\ Close(i, "resolved").type = anomaly[i].type
      BY <2>2, <3>3, OnRecord DEF AnomalyRows, Close, Closed
    <3> QED BY <2>2, <3>2, <3>4, OneAnomaly DEF DInv
  <2> QED BY <1>3, <2>1, <2>2, RunnerWrites DEF CloseFor
<1> QED BY <1>1, <1>2, <1>3

LEMMA NextAnomalies == ASSUME DInv, [Next]_vars PROVE AnomaliesWell
<1>1. CASE UNCHANGED anomaly
  BY <1>1 DEF DInv, Tables, AnomaliesWell, StaysOnRecord
<1>2. ASSUME NEW p \in Pipelines, Start(p) \/ Proceed(p) \/ FailVisit(p) \/ Crash(p) PROVE AnomaliesWell
  BY <1>1, <1>2, WriteAnomalies, RecordAnomalies
     DEF Start, Proceed, FailVisit, Crash, List, Fetch, Evaluate, Consider, Check, Insert
<1>3. ASSUME NEW a \in Actions, CoolDown(a) PROVE AnomaliesWell
  BY <1>1, <1>3 DEF CoolDown
<1>4. CASE Change \/ UNCHANGED vars
  BY <1>1, <1>4 DEF Change, vars
<1> QED BY <1>2, <1>3, <1>4, OthersAnomalies DEF Next

\* What every step but a proposal does to an attempt: it goes, or stays for its anomaly, failed if it
\* had failed, and is not made recent.
Keeps(a) == \/ action'[a].for = None
            \/ /\ action'[a].for = action[a].for
               /\ action[a].status = "failed" => action'[a].status = "failed"
               /\ action'[a].recent => action[a].recent
ActionsWell == action' \in [Actions -> ActionRows]
AttemptsKept == \A a \in Actions : Keeps(a)

LEMMA ActionOnRecord ==
    ASSUME NEW r \in ActionRows, r.status # "none"
    PROVE  r \in [for : Anomalies, type : {Remedy[t] : t \in Types} \ {None},
                  status : NeverAgain \cup {"failed"}, recent : BOOLEAN]
  BY DEF ActionRows, NoAction

LEMMA SameActions == ASSUME Tables, UNCHANGED action PROVE ActionsWell /\ AttemptsKept
  BY DEF Tables, ActionsWell, AttemptsKept, Keeps

\* The runner and the approvers move proposals that are not at their end.
LEMMA RunnerActions ==
    ASSUME Tables, NEW a \in Actions, Runner(a) \/ LeaveAnomaly(a)
    PROVE  ActionsWell /\ AttemptsKept
<1>1. PICK s \in NeverAgain \cup {"failed"} : SetAction(a, s)
  BY RunnerWrites
<1>2. action[a] \in ActionRows /\ action[a].status \notin {"none", "failed"}
  BY RunnerWrites DEF Tables, Open
<1>3. action' = [action EXCEPT ![a] = [action[a] EXCEPT !.status = s]]
  BY <1>1 DEF SetAction
<1> DEFINE new == [action[a] EXCEPT !.status = s]
<1>4. new \in ActionRows /\ new.for = action[a].for /\ new.recent = action[a].recent
  BY <1>2, ActionOnRecord DEF ActionRows
<1> HIDE DEF new
<1>5. ActionsWell
  BY <1>3, <1>4 DEF Tables, ActionsWell, new
<1>6. AttemptsKept
  BY <1>2, <1>3, <1>4 DEF Tables, AttemptsKept, Keeps, new
<1> QED BY <1>5, <1>6

LEMMA CoolDownActions == ASSUME Tables, NEW a \in Actions, CoolDown(a) PROVE ActionsWell /\ AttemptsKept
<1>1. action[a] \in ActionRows /\ action[a].recent
  BY DEF Tables, CoolDown
<1>2. action[a].status # "none"
  BY <1>1 DEF ActionRows, NoAction, NeverAgain, Open
<1>3. action' = [action EXCEPT ![a] = [action[a] EXCEPT !.recent = FALSE]]
  BY DEF CoolDown
<1> DEFINE new == [action[a] EXCEPT !.recent = FALSE]
<1>4. new \in ActionRows /\ new.for = action[a].for /\ new.status = action[a].status /\ ~new.recent
  BY <1>1, <1>2, ActionOnRecord DEF ActionRows
<1> HIDE DEF new
<1>5. ActionsWell
  BY <1>3, <1>4 DEF Tables, ActionsWell, new
<1>6. AttemptsKept
  BY <1>3, <1>4 DEF Tables, AttemptsKept, Keeps, new
<1> QED BY <1>5, <1>6

\* The actions of a deleted anomaly go with it.
LEMMA RecordActions == ASSUME Tables, NEW p \in Pipelines, RecordAnomaly(p) PROVE ActionsWell /\ AttemptsKept
<1>1. CASE UNCHANGED action
  BY <1>1, SameActions
<1>2. CASE LET j == CHOOSE j \in NewAnomaly : TRUE IN
           action' = [a \in Actions |-> IF action[a].for = j THEN NoAction ELSE action[a]]
  <2>1. PICK j : action' = [a \in Actions |-> IF action[a].for = j THEN NoAction ELSE action[a]]
    BY <1>2
  <2>2. NoAction \in ActionRows /\ NoAction.for = None
    BY DEF ActionRows, NoAction
  <2>3. ActionsWell
    BY <2>1, <2>2 DEF Tables, ActionsWell
  <2>4. AttemptsKept
    BY <2>1, <2>2 DEF AttemptsKept, Keeps
  <2> QED BY <2>3, <2>4
<1> QED BY <1>1, <1>2 DEF RecordAnomaly

\* A proposal is a row for the anomaly, with the remedy of its type.
LEMMA InsertActions ==
    ASSUME DInv, NEW p \in Pipelines, Insert(p)
    PROVE  /\ ActionsWell
           /\ \A a \in Actions : action'[a] # action[a] => action'[a].for = pipe[p].at
           /\ pipe[p].at \in Anomalies
<1> DEFINE i == pipe[p].at
           type == Remedy[anomaly[i].type]
           new == [for |-> i, type |-> type, status |-> "pending", recent |-> TRUE]
<1>1. i \in Anomalies /\ anomaly[i].status # "none" /\ type # None
  BY DEF DInv, Jobs, Refers, Insert, At, Checking
<1>2. anomaly[i].type \in Types
  BY <1>1, OnRecord DEF DInv, Tables
<1>3. new \in ActionRows /\ new.for = i
  BY <1>1, <1>2 DEF ActionRows, NeverAgain, Open
<1>4. CASE UNCHANGED action
  BY <1>1, <1>4, SameActions DEF DInv
<1>5. CASE NewAction # {} /\ action' = [action EXCEPT ![CHOOSE a \in NewAction : TRUE] = new]
  <2>1. PICK b \in NewAction : action' = [action EXCEPT ![b] = new]
    BY <1>5
  <2>2. b \in Actions
    BY DEF NewAction
  <2> HIDE DEF new
  <2> QED BY <1>1, <1>3, <2>1, <2>2 DEF DInv, Tables, ActionsWell
<1> QED BY <1>4, <1>5 DEF Insert

LEMMA OtherActions ==
    ASSUME Tables, [Next]_vars, ~\E p \in Pipelines : Insert(p)
    PROVE  ActionsWell /\ AttemptsKept
<1>1. CASE UNCHANGED action
  BY <1>1, SameActions
<1>2. ASSUME NEW p \in Pipelines, Start(p) \/ Proceed(p) \/ FailVisit(p) \/ Crash(p)
      PROVE  ActionsWell /\ AttemptsKept
  BY <1>1, <1>2, RecordActions
     DEF Start, Proceed, FailVisit, Crash, List, Fetch, Write, Evaluate, Consider, Check
<1>3. CASE \E i \in Anomalies : Age(i) \/ \E s \in Closed \cup {"active"} : Edit(i, s)
  BY <1>1, <1>3 DEF Age, Edit
<1>4. CASE Change \/ UNCHANGED vars
  BY <1>1, <1>4 DEF Change, vars
<1> QED BY <1>2, <1>3, <1>4, RunnerActions, CoolDownActions DEF Next

LEMMA TablesStay == ASSUME DInv, [Next]_vars PROVE Tables'
<1>1. anomaly' \in [Anomalies -> AnomalyRows]
  BY NextAnomalies DEF AnomaliesWell
<1>2. action' \in [Actions -> ActionRows]
  BY OtherActions, InsertActions DEF DInv, ActionsWell
<1>3. overlapped' \in BOOLEAN
  <2>1. ASSUME NEW p \in Pipelines, Evaluate(p) PROVE overlapped' \in BOOLEAN
    BY <2>1 DEF DInv, Tables, Evaluate
  <2>2. CASE UNCHANGED overlapped
    BY <2>2 DEF DInv, Tables
  <2> QED BY <2>1, <2>2, RunnerWrites DEF Next, Start, Proceed, FailVisit, Crash, List, Fetch, Write,
          RecordAnomaly, Consider, Check, Insert, CoolDown, Age, Edit, Change, vars
<1>4. edits' \in Nat
  <2>1. ASSUME NEW i \in Anomalies, NEW s \in Closed \cup {"active"}, Edit(i, s) PROVE edits' \in Nat
    BY <2>1 DEF DInv, Tables, Edit
  <2>2. CASE UNCHANGED edits
    BY <2>2 DEF DInv, Tables
  <2> QED BY <2>1, <2>2, RunnerWrites DEF Next, Start, Proceed, FailVisit, Crash, List, Fetch, Write,
          RecordAnomaly, Evaluate, Consider, Check, Insert, CoolDown, Age, Change, vars, bounds
<1> QED BY <1>1, <1>2, <1>3, <1>4 DEF Tables

----
\* The jobs.

LEMMA RefersStay ==
    ASSUME DInv, AnomaliesWell, NEW p \in Pipelines
    PROVE  Refers(pipe[p], anomaly')
<1>1. pipe[p] \in JobState /\ Refers(pipe[p], anomaly)
  BY DEF DInv, Jobs
<1>2. ASSUME NEW i \in Anomalies, i \in pipe[p].todo \/ i = pipe[p].at, anomaly[i].status # "none"
      PROVE  anomaly'[i].status # "none" /\ anomaly'[i].type = anomaly[i].type
  BY <1>2 DEF AnomaliesWell, Unreferenced, StaysOnRecord
<1>3. pipe[p].todo \subseteq Anomalies
  BY <1>1 DEF JobState
<1> QED BY <1>1, <1>2, <1>3 DEF Refers

\* A step of one job.
NewJob(p) == \E r : Become(p, r) /\ Job(r) /\ Refers(r, anomaly')

LEMMA OneJob == ASSUME DInv, AnomaliesWell, NEW p \in Pipelines, NewJob(p) PROVE Jobs'
<1>1. PICK r : pipe' = [pipe EXCEPT ![p] = r] /\ Job(r) /\ Refers(r, anomaly')
  BY DEF NewJob, Become
<1>2. r \in JobState
  BY <1>1 DEF Job
<1>3. pipe \in [Pipelines -> JobState] /\ \A q \in Pipelines : Job(pipe[q])
  BY DEF DInv, Jobs
<1>4. pipe' \in [Pipelines -> JobState]
  BY <1>1, <1>2, <1>3
<1>5. ASSUME NEW q \in Pipelines PROVE Job(pipe'[q]) /\ Refers(pipe'[q], anomaly')
  <2>1. CASE q = p
    BY <1>1, <1>3, <2>1
  <2>2. CASE q # p
    <3>1. pipe'[q] = pipe[q]
      BY <1>1, <1>3, <2>2
    <3> QED BY <1>3, <3>1, RefersStay
  <2> QED BY <2>1, <2>2
<1> QED BY <1>4, <1>5 DEF Jobs

LEMMA SameJobs == ASSUME DInv, AnomaliesWell, UNCHANGED pipe PROVE Jobs'
  BY RefersStay DEF DInv, Jobs

LEMMA IdleState ==
    /\ Idle \in JobState /\ Idle.pc = "idle" /\ Idle.todo = {} /\ Idle.writes = <<>>
    /\ Idle = [Idle EXCEPT !.pc = "idle"]
<1>1. Idle \in JobState
  BY NoWrite DEF Idle, JobState, Pcs
<1>2. Idle.pc = "idle" /\ Idle.todo = {} /\ Idle.writes = <<>>
  BY DEF Idle
<1>3. Idle = [x \in DOMAIN Idle |-> Idle[x]]
  BY DEF Idle
<1>4. Idle = [Idle EXCEPT !.pc = "idle"]
  BY <1>2, <1>3
<1> QED BY <1>1, <1>2, <1>4

\* A job that holds no list refers to nothing.
LEMMA FreshJob ==
    ASSUME NEW c \in {"idle", "list", "evaluate"}, NEW table
    PROVE  Job([Idle EXCEPT !.pc = c]) /\ Refers([Idle EXCEPT !.pc = c], table)
<1> DEFINE j == [Idle EXCEPT !.pc = c]
<1>1. j \in JobState /\ j.pc = c /\ j.todo = {}
  BY IdleState DEF JobState, Pcs
<1>2. c \notin {"fetch", "consider", "write", "record"} \cup Checking
  BY DEF Checking
<1> HIDE DEF j
<1>3. Job(j)
  BY <1>1, <1>2 DEF Job
<1>4. Refers(j, table)
  BY <1>1, <1>2 DEF Refers
<1> QED BY <1>3, <1>4 DEF j

LEMMA WritingJob ==
    ASSUME NEW ws \in Seq(WriteType), NEW c \in {"list", "evaluate"}, NEW table
    PROVE  Job(Writing(ws, c)) /\ Refers(Writing(ws, c), table)
<1> DEFINE j == Writing(ws, c)
           at == IF ws = <<>> THEN c ELSE "write"
<1>1. at \in Pcs /\ at \notin {"fetch", "record", "consider"} \cup Checking /\ (at = "write" => ws # <<>>)
  BY DEF Pcs, Checking
<1>2. j = [Idle EXCEPT !.pc = at, !.writes = ws, !.then = c]
  BY DEF Writing
<1> HIDE DEF at
<1>3. j \in JobState /\ j.pc = at /\ j.todo = {} /\ j.writes = ws /\ j.then = c
  BY <1>1, <1>2, IdleState DEF JobState
<1> HIDE DEF j
<1>4. Job(j)
  BY <1>1, <1>3 DEF Job
<1>5. Refers(j, table)
  BY <1>1, <1>3 DEF Refers
<1> QED BY <1>4, <1>5 DEF j

LEMMA StartJob == ASSUME DInv, NEW p \in Pipelines, Start(p) PROVE NewJob(p)
<1>1. (IF Gone(row) THEN Clear(Types) ELSE <<>>) \in Seq(WriteType)
  BY OneWrite, NoWrite
<1> QED BY <1>1, WritingJob DEF Start, NewJob

LEMMA ListJob == ASSUME DInv, NEW p \in Pipelines, List(p) PROVE NewJob(p)
<1>1. CASE Become(p, [Idle EXCEPT !.pc = "evaluate"])
  BY <1>1, FreshJob DEF NewJob
<1>2. CASE Become(p, [Idle EXCEPT !.pc = "fetch", !.row = row])
  <2> DEFINE j == [Idle EXCEPT !.pc = "fetch", !.row = row]
  <2>1. row \in ResourceRow
    BY SeenType DEF DInv
  <2>2. j \in JobState /\ j.pc = "fetch" /\ j.todo = {} /\ j.row = row
    BY <2>1, IdleState DEF JobState, Pcs
  <2> HIDE DEF j
  <2>3. Job(j) /\ Refers(j, anomaly')
    BY <2>1, <2>2 DEF Job, Refers, Checking
  <2> QED BY <1>2, <2>3 DEF NewJob, j
<1> QED BY <1>1, <1>2 DEF List

LEMMA FetchJob == ASSUME DInv, NEW p \in Pipelines, Fetch(p) PROVE NewJob(p)
<1>1. pipe[p].row \in ResourceRow /\ load \in Load
  BY SeenType DEF DInv, Jobs, Job, Fetch, At
<1>2. Visit(kind, pipe[p].row, load) \in Seq(WriteType)
  BY <1>1, VisitWrites
<1> QED BY <1>2, WritingJob DEF Fetch, NewJob

LEMMA WriteJob == ASSUME DInv, NEW p \in Pipelines, Write(p) PROVE NewJob(p)
<1> DEFINE w == Head(pipe[p].writes)
<1>1. /\ Job(pipe[p]) /\ pipe[p] \in JobState /\ Refers(pipe[p], anomaly)
      /\ pipe[p].writes \in Seq(WriteType) /\ pipe[p].writes # <<>> /\ pipe[p].then \in {"list", "evaluate"}
  BY DEF DInv, Jobs, Job, JobState, Write, At
<1>2. CASE Become(p, Writing(Tail(pipe[p].writes), pipe[p].then))
  <2>1. Tail(pipe[p].writes) \in Seq(WriteType)
    BY <1>1, HeadTailProperties
  <2> QED BY <1>1, <1>2, <2>1, WritingJob DEF NewJob
<1>3. CASE /\ w.op = "record" /\ UNCHANGED anomaly
           /\ \E i \in IF Known(w.types) = {} THEN {None} ELSE Known(w.types) :
                Become(p, [pipe[p] EXCEPT !.pc = "record", !.found = i])
  <2>1. PICK i \in Anomalies \cup {None} : Become(p, [pipe[p] EXCEPT !.pc = "record", !.found = i])
    BY <1>3 DEF Known, Active
  <2> DEFINE j == [pipe[p] EXCEPT !.pc = "record", !.found = i]
  <2>2. j \in JobState
    BY <1>1 DEF JobState, Pcs
  <2>3. j.pc = "record" /\ j.todo = pipe[p].todo /\ j.writes = pipe[p].writes /\ j.then = pipe[p].then
    BY <1>1 DEF JobState
  <2> HIDE DEF j
  <2>4. Job(j) /\ Refers(j, anomaly')
    BY <1>1, <1>3, <2>2, <2>3 DEF Job, Refers, Checking
  <2> QED BY <2>1, <2>4 DEF NewJob, j
<1> QED BY <1>2, <1>3 DEF Write

LEMMA RecordJob == ASSUME DInv, NEW p \in Pipelines, RecordAnomaly(p) PROVE NewJob(p)
<1>1. pipe[p].writes \in Seq(WriteType) /\ pipe[p].writes # <<>> /\ pipe[p].then \in {"list", "evaluate"}
  BY DEF DInv, Jobs, Job, JobState, RecordAnomaly, At
<1>2. Tail(pipe[p].writes) \in Seq(WriteType)
  BY <1>1, HeadTailProperties
<1> QED BY <1>1, <1>2, WritingJob DEF NewJob, RecordAnomaly

LEMMA EvaluateJob == ASSUME DInv, NEW p \in Pipelines, Evaluate(p) PROVE NewJob(p)
<1> DEFINE j == [Idle EXCEPT !.pc = "consider", !.row = row, !.todo = Active]
<1>1. UNCHANGED anomaly /\ Become(p, j)
  BY DEF Evaluate
<1>2. row \in ResourceRow
  BY SeenType DEF DInv
<1>3. Active \subseteq Anomalies /\ \A i \in Active : anomaly[i].status # "none"
  BY DEF Active
<1>4. j \in JobState /\ j.pc = "consider" /\ j.todo = Active /\ j.row = row
  BY <1>2, <1>3, IdleState DEF JobState, Pcs
<1> HIDE DEF j
<1>5. Job(j) /\ Refers(j, anomaly')
  BY <1>1, <1>2, <1>3, <1>4 DEF Job, Refers, Checking
<1> QED BY <1>1, <1>5 DEF NewJob

LEMMA ConsiderJob == ASSUME DInv, NEW p \in Pipelines, Consider(p) PROVE NewJob(p)
<1>1. /\ Job(pipe[p]) /\ pipe[p] \in JobState /\ Refers(pipe[p], anomaly)
      /\ pipe[p].row \in ResourceRow /\ pipe[p].pc = "consider" /\ UNCHANGED anomaly
  BY DEF DInv, Jobs, Job, Consider, At
<1>2. CASE Become(p, Idle)
  BY <1>2, IdleState, FreshJob DEF NewJob
<1>3. CASE \E i \in pipe[p].todo : Become(p, [pipe[p] EXCEPT !.todo = @ \ {i}])
  <2>1. PICK i : Become(p, [pipe[p] EXCEPT !.todo = @ \ {i}])
    BY <1>3
  <2> DEFINE j == [pipe[p] EXCEPT !.todo = @ \ {i}]
  <2>2. j \in JobState /\ j.pc = "consider" /\ j.todo \subseteq pipe[p].todo /\ j.row = pipe[p].row
    BY <1>1 DEF JobState
  <2> HIDE DEF j
  <2>3. Job(j) /\ Refers(j, anomaly')
    BY <1>1, <2>2 DEF Job, Refers, Checking
  <2> QED BY <2>1, <2>3 DEF NewJob, j
<1>4. CASE \E i \in pipe[p].todo :
             /\ Remedy[anomaly[i].type] # None
             /\ Become(p, [pipe[p] EXCEPT !.todo = @ \ {i}, !.pc = "check", !.at = i])
  <2>1. PICK i \in pipe[p].todo :
          /\ Remedy[anomaly[i].type] # None
          /\ Become(p, [pipe[p] EXCEPT !.todo = @ \ {i}, !.pc = "check", !.at = i])
    BY <1>4
  <2> DEFINE j == [pipe[p] EXCEPT !.todo = @ \ {i}, !.pc = "check", !.at = i]
  <2>2. i \in Anomalies /\ anomaly[i].status # "none"
    BY <1>1 DEF Refers, JobState
  <2>3. j \in JobState /\ j.pc = "check" /\ j.todo \subseteq pipe[p].todo /\ j.row = pipe[p].row /\ j.at = i
    BY <1>1, <2>2 DEF JobState, Pcs
  <2> HIDE DEF j
  <2>4. Job(j) /\ Refers(j, anomaly')
    BY <1>1, <2>1, <2>2, <2>3 DEF Job, Refers, Checking
  <2> QED BY <2>1, <2>4 DEF NewJob, j
<1> QED BY <1>2, <1>3, <1>4 DEF Consider

LEMMA NextAnomalyJob ==
    ASSUME DInv, NEW p \in Pipelines, pipe[p].pc \in Checking, UNCHANGED anomaly, Become(p, NextAnomaly(p))
    PROVE  NewJob(p)
<1>1. /\ pipe[p] \in JobState /\ Refers(pipe[p], anomaly) /\ pipe[p].row \in ResourceRow
  BY DEF DInv, Jobs, Job
<1> DEFINE j == NextAnomaly(p)
<1>2. j \in JobState /\ j.pc = "consider" /\ j.todo = pipe[p].todo /\ j.row = pipe[p].row
  BY <1>1 DEF JobState, Pcs, NextAnomaly
<1> HIDE DEF j
<1>3. Job(j) /\ Refers(j, anomaly')
  BY <1>1, <1>2 DEF Job, Refers, Checking
<1> QED BY <1>3 DEF NewJob, j

LEMMA CheckJob == ASSUME DInv, NEW p \in Pipelines, Check(p) PROVE NewJob(p)
<1>1. /\ Job(pipe[p]) /\ pipe[p] \in JobState /\ Refers(pipe[p], anomaly)
      /\ pipe[p].row \in ResourceRow /\ pipe[p].pc = "check" /\ UNCHANGED anomaly
  BY DEF DInv, Jobs, Job, Check, At, Checking
<1>2. CASE Become(p, NextAnomaly(p))
  BY <1>1, <1>2, NextAnomalyJob DEF Checking
<1>3. CASE Become(p, [pipe[p] EXCEPT !.pc = "insert"])
  <2> DEFINE j == [pipe[p] EXCEPT !.pc = "insert"]
  <2>1. j \in JobState /\ j.pc = "insert" /\ j.todo = pipe[p].todo /\ j.row = pipe[p].row /\ j.at = pipe[p].at
    BY <1>1 DEF JobState, Pcs
  <2> HIDE DEF j
  <2>2. Job(j) /\ Refers(j, anomaly')
    BY <1>1, <2>1 DEF Job, Refers, Checking
  <2> QED BY <1>3, <2>2 DEF NewJob, j
<1> QED BY <1>2, <1>3 DEF Check

LEMMA InsertJob == ASSUME DInv, NEW p \in Pipelines, Insert(p) PROVE NewJob(p)
  BY NextAnomalyJob DEF Insert, At, Checking

LEMMA EndJob == ASSUME DInv, NEW p \in Pipelines, FailVisit(p) \/ Crash(p) PROVE NewJob(p)
  BY IdleState, FreshJob DEF FailVisit, Crash, NewJob

LEMMA JobsStay == ASSUME DInv, [Next]_vars PROVE Jobs'
<1>1. AnomaliesWell
  BY NextAnomalies
<1>2. ASSUME NEW p \in Pipelines, Start(p) \/ Proceed(p) \/ FailVisit(p) \/ Crash(p) PROVE Jobs'
  <2>1. NewJob(p)
    BY <1>2, StartJob, ListJob, FetchJob, WriteJob, RecordJob, EvaluateJob, ConsiderJob, CheckJob, InsertJob,
       EndJob DEF Proceed
  <2> QED BY <1>1, <2>1, OneJob
<1>3. CASE UNCHANGED pipe
  BY <1>1, <1>3, SameJobs
<1>4. CASE \/ \E i \in Anomalies : Age(i) \/ \E s \in Closed \cup {"active"} : Edit(i, s)
           \/ \E a \in Actions : Runner(a) \/ LeaveAnomaly(a) \/ CoolDown(a)
           \/ Change \/ UNCHANGED vars
  BY <1>3, <1>4, RunnerWrites DEF Age, Edit, CoolDown, Change, vars
<1> QED BY <1>2, <1>4 DEF Next

----
\* Evaluations.

\* Detection, and a job that ends, evaluate nothing.
LEMMA NoEvaluation ==
    ASSUME DInv, NEW p \in Pipelines,
           Start(p) \/ List(p) \/ Fetch(p) \/ Write(p) \/ RecordAnomaly(p) \/ FailVisit(p) \/ Crash(p)
    PROVE  \E r : Become(p, r) /\ r.pc \notin {"consider"} \cup Checking
<1>1. ASSUME NEW ws, NEW c \in {"list", "evaluate"}
      PROVE  Writing(ws, c).pc \notin {"consider"} \cup Checking
  BY DEF Writing, Idle, Checking
<1>2. \A c \in {"list", "evaluate", "fetch"} : [Idle EXCEPT !.pc = c].pc \notin {"consider"} \cup Checking
  BY DEF Idle, Checking
<1>3. [Idle EXCEPT !.pc = "fetch", !.row = row].pc \notin {"consider"} \cup Checking
  BY DEF Idle, Checking
<1>4. Idle.pc \notin {"consider"} \cup Checking
  BY DEF Idle, Checking
<1>5. ASSUME pipe[p].pc \in {"write", "record"}
      PROVE  pipe[p].then \in {"list", "evaluate"} /\ pipe[p] \in JobState
  BY <1>5 DEF DInv, Jobs, Job
<1>6. CASE Start(p)
  BY <1>1, <1>6 DEF Start
<1>7. CASE List(p)
  BY <1>2, <1>3, <1>7 DEF List
<1>8. CASE Fetch(p)
  BY <1>1, <1>8 DEF Fetch
<1>9. CASE Write(p)
  <2>1. CASE Become(p, Writing(Tail(pipe[p].writes), pipe[p].then))
    BY <1>1, <1>5, <1>9, <2>1 DEF Write, At
  <2>2. CASE \E i : Become(p, [pipe[p] EXCEPT !.pc = "record", !.found = i])
    <3>1. PICK i : Become(p, [pipe[p] EXCEPT !.pc = "record", !.found = i])
      BY <2>2
    <3>2. [pipe[p] EXCEPT !.pc = "record", !.found = i].pc = "record"
      BY <1>5, <1>9 DEF Write, At, JobState
    <3>3. "record" \notin {"consider"} \cup Checking
      BY DEF Checking
    <3> QED BY <3>1, <3>2, <3>3
  <2> QED BY <1>9, <2>1, <2>2 DEF Write
<1>10. CASE RecordAnomaly(p)
  BY <1>1, <1>5, <1>10 DEF RecordAnomaly, At
<1>11. CASE FailVisit(p)
  BY <1>2, <1>11 DEF FailVisit
<1>12. CASE Crash(p)
  BY <1>4, <1>12 DEF Crash
<1> QED BY <1>6, <1>7, <1>8, <1>9, <1>10, <1>11, <1>12

\* What a step of one job leaves of the others.
LEMMA OtherJobs ==
    ASSUME DInv, NEW p \in Pipelines, NEW r, Become(p, r)
    PROVE  pipe'[p] = r /\ \A q \in Pipelines : q # p => pipe'[q] = pipe[q]
  BY DEF DInv, Jobs, Become

\* Only Evaluate begins an evaluation, and it notes when another is under way.
LEMMA EvaluatingStays ==
    ASSUME DInv, [Next]_vars, ~\E p \in Pipelines : Evaluate(p)
    PROVE  UNCHANGED overlapped /\ \A q \in Pipelines : Evaluating(q)' => Evaluating(q)
<1>1. CASE UNCHANGED <<pipe, overlapped>>
  BY <1>1 DEF Evaluating
<1>2. ASSUME NEW p \in Pipelines,
             Start(p) \/ List(p) \/ Fetch(p) \/ Write(p) \/ RecordAnomaly(p) \/ FailVisit(p) \/ Crash(p)
      PROVE  UNCHANGED overlapped /\ \A q \in Pipelines : Evaluating(q)' => Evaluating(q)
  <2>1. PICK r : Become(p, r) /\ r.pc \notin {"consider"} \cup Checking
    BY <1>2, NoEvaluation
  <2>2. pipe'[p] = r /\ \A q \in Pipelines : q # p => pipe'[q] = pipe[q]
    BY <2>1, OtherJobs
  <2>3. UNCHANGED overlapped
    BY <1>2 DEF Start, List, Fetch, Write, RecordAnomaly, FailVisit, Crash
  <2> QED BY <2>1, <2>2, <2>3 DEF Evaluating, Checking
<1>3. ASSUME NEW p \in Pipelines, Consider(p) \/ Check(p) \/ Insert(p)
      PROVE  UNCHANGED overlapped /\ \A q \in Pipelines : Evaluating(q)' => Evaluating(q)
  <2>1. \E r : Become(p, r)
    BY <1>3 DEF Consider, Check, Insert
  <2>2. \A q \in Pipelines : q # p => pipe'[q] = pipe[q]
    BY <2>1, OtherJobs
  <2>3. Evaluating(p) /\ UNCHANGED overlapped
    BY <1>3 DEF Consider, Check, Insert, At, Evaluating
  <2> QED BY <2>2, <2>3 DEF Evaluating
<1>4. CASE \/ \E i \in Anomalies : Age(i) \/ \E s \in Closed \cup {"active"} : Edit(i, s)
           \/ \E a \in Actions : Runner(a) \/ LeaveAnomaly(a) \/ CoolDown(a)
           \/ Change \/ UNCHANGED vars
  BY <1>1, <1>4, RunnerWrites DEF Age, Edit, CoolDown, Change, vars
<1> QED BY <1>2, <1>3, <1>4 DEF Next, Proceed

LEMMA AloneStays == ASSUME DInv, [Next]_vars PROVE Alone'
<1>1. CASE ~\E p \in Pipelines : Evaluate(p)
  BY <1>1, EvaluatingStays DEF DInv, Alone
<1>2. ASSUME NEW p \in Pipelines, Evaluate(p) PROVE Alone'
  <2>1. \A q \in Pipelines : q # p => pipe'[q] = pipe[q]
    BY <1>2, OtherJobs DEF Evaluate
  <2>2. ~overlapped' => \A q \in Pipelines \ {p} : ~Evaluating(q)
    BY <1>2 DEF Evaluate, DInv, Tables
  <2> QED BY <2>1, <2>2 DEF Alone, Evaluating
<1> QED BY <1>1, <1>2

\* Only Consider takes up an anomaly.
LEMMA CheckingStays ==
    ASSUME DInv, [Next]_vars, ~\E p \in Pipelines : Consider(p)
    PROVE  \A q \in Pipelines : pipe'[q].pc \in Checking => pipe[q].pc \in Checking /\ pipe'[q].at = pipe[q].at
<1>1. CASE UNCHANGED pipe
  BY <1>1
<1>2. ASSUME NEW p \in Pipelines, NEW r, Become(p, r),
             r.pc \in Checking => pipe[p].pc \in Checking /\ r.at = pipe[p].at
      PROVE  \A q \in Pipelines : pipe'[q].pc \in Checking => pipe[q].pc \in Checking /\ pipe'[q].at = pipe[q].at
  BY <1>2, OtherJobs
<1>3. ASSUME NEW p \in Pipelines,
             Start(p) \/ List(p) \/ Fetch(p) \/ Write(p) \/ RecordAnomaly(p) \/ FailVisit(p) \/ Crash(p)
      PROVE  \E r : Become(p, r) /\ r.pc \notin Checking
  BY <1>3, NoEvaluation
<1>4. ASSUME NEW p \in Pipelines, Evaluate(p) PROVE \E r : Become(p, r) /\ r.pc \notin Checking
  <2>1. [Idle EXCEPT !.pc = "consider", !.row = row, !.todo = Active].pc = "consider"
    BY DEF Idle
  <2> QED BY <1>4, <2>1 DEF Evaluate, Checking
<1>5. ASSUME NEW p \in Pipelines, pipe[p].pc \in Checking, Become(p, NextAnomaly(p))
      PROVE  \E r : Become(p, r) /\ r.pc \notin Checking
  <2>1. NextAnomaly(p).pc = "consider"
    BY DEF DInv, Jobs, JobState, NextAnomaly
  <2> QED BY <1>5, <2>1 DEF Checking
<1>6. ASSUME NEW p \in Pipelines, Insert(p) PROVE \E r : Become(p, r) /\ r.pc \notin Checking
  BY <1>5, <1>6 DEF Insert, At, Checking
<1>7. ASSUME NEW p \in Pipelines, Check(p)
      PROVE  \E r : Become(p, r) /\ (r.pc \in Checking => pipe[p].pc \in Checking /\ r.at = pipe[p].at)
  <2>1. pipe[p].pc \in Checking
    BY <1>7 DEF Check, At, Checking
  <2>2. [pipe[p] EXCEPT !.pc = "insert"].at = pipe[p].at
    BY DEF DInv, Jobs, JobState
  <2> QED BY <1>5, <1>7, <2>1, <2>2 DEF Check
<1>8. CASE \/ \E i \in Anomalies : Age(i) \/ \E s \in Closed \cup {"active"} : Edit(i, s)
           \/ \E a \in Actions : Runner(a) \/ LeaveAnomaly(a) \/ CoolDown(a)
           \/ Change \/ UNCHANGED vars
  BY <1>1, <1>8, RunnerWrites DEF Age, Edit, CoolDown, Change, vars
<1>9. ASSUME NEW p \in Pipelines, Start(p) \/ Proceed(p) \/ FailVisit(p) \/ Crash(p)
      PROVE  \A q \in Pipelines : pipe'[q].pc \in Checking => pipe[q].pc \in Checking /\ pipe'[q].at = pipe[q].at
  <2>1. \E r : Become(p, r) /\ (r.pc \in Checking => pipe[p].pc \in Checking /\ r.at = pipe[p].at)
    BY <1>3, <1>4, <1>6, <1>7, <1>9 DEF Proceed
  <2> QED BY <1>2, <2>1
<1> QED BY <1>8, <1>9 DEF Next

\* Attempts that have failed and cooled down stay so, unless a proposal is inserted.
LEMMA SpentStays ==
    ASSUME DInv, ~overlapped, AttemptsKept, NEW q \in Pipelines,
           pipe'[q].pc \in Checking => pipe[q].pc \in Checking /\ pipe'[q].at = pipe[q].at
    PROVE  Spent(pipe'[q], action')
<1> SUFFICES ASSUME pipe'[q].pc \in Checking, NEW a \in Actions, action'[a].for = pipe'[q].at
             PROVE  action'[a].status = "failed" /\ ~action'[a].recent
  BY DEF Spent
<1>1. pipe[q].pc \in Checking /\ pipe'[q].at = pipe[q].at /\ pipe[q].at \in Anomalies
  BY DEF DInv, Jobs, Refers
<1>2. action'[a].for # None
  BY <1>1, NoneAssumption
<1>3. action'[a].for = action[a].for
  BY <1>2 DEF AttemptsKept, Keeps
<1>4. action[a].status = "failed" /\ ~action[a].recent
  BY <1>1, <1>3 DEF DInv, Unhurried, Spent
<1> QED BY <1>2, <1>4 DEF AttemptsKept, Keeps

\* An anomaly that _should_skip lets through has only failed attempts, and none within the cooldown.
LEMMA LetThrough ==
    ASSUME Tables, NEW i \in Anomalies, ~ShouldSkip(i), NEW a \in Actions, action[a].for = i
    PROVE  action[a].status = "failed" /\ ~action[a].recent
<1>1. action[a] \in ActionRows /\ action[a] # NoAction
  BY NoneAssumption DEF Tables, NoAction
<1>2. action[a].status \in NeverAgain \cup {"failed"}
  BY <1>1 DEF ActionRows
<1>3. action[a].status \notin NeverAgain /\ ~action[a].recent
  BY DEF ShouldSkip, ActionsFor
<1> QED BY <1>2, <1>3

LEMMA ConsiderSpent ==
    ASSUME DInv, ~overlapped, NEW p \in Pipelines, Consider(p), NEW q \in Pipelines
    PROVE  Spent(pipe'[q], action')
<1>1. UNCHANGED action /\ pipe[p].pc = "consider" /\ pipe[p] \in JobState
  BY DEF Consider, DInv, Jobs, At
<1>2. AttemptsKept
  BY <1>1, SameActions DEF DInv
<1>3. CASE pipe'[q].pc \in Checking => pipe[q].pc \in Checking /\ pipe'[q].at = pipe[q].at
  BY <1>2, <1>3, SpentStays
<1>4. CASE q # p
  <2>1. \E r : Become(p, r)
    BY DEF Consider
  <2> QED BY <1>3, <1>4, <2>1, OtherJobs
<1>5. CASE q = p /\ pipe'[q].pc \in Checking
  <2>1. CASE Become(p, Idle)
    BY <1>5, <2>1, OtherJobs DEF Idle, Checking
  <2>2. CASE \E i \in pipe[p].todo : Become(p, [pipe[p] EXCEPT !.todo = @ \ {i}])
    <3>1. PICK i : Become(p, [pipe[p] EXCEPT !.todo = @ \ {i}])
      BY <2>2
    <3>2. pipe'[p] = [pipe[p] EXCEPT !.todo = @ \ {i}]
      BY <3>1, OtherJobs
    <3> QED BY <1>1, <1>5, <3>2 DEF JobState, Checking
  <2>3. CASE \E i \in pipe[p].todo :
               ~ShouldSkip(i) /\ Become(p, [pipe[p] EXCEPT !.todo = @ \ {i}, !.pc = "check", !.at = i])
    <3>1. PICK i \in pipe[p].todo :
            ~ShouldSkip(i) /\ Become(p, [pipe[p] EXCEPT !.todo = @ \ {i}, !.pc = "check", !.at = i])
      BY <2>3
    <3>2. pipe'[p] = [pipe[p] EXCEPT !.todo = @ \ {i}, !.pc = "check", !.at = i]
      BY <3>1, OtherJobs
    <3>3. pipe'[p].at = i /\ i \in Anomalies
      BY <1>1, <3>2 DEF JobState
    <3> QED BY <1>1, <1>5, <3>1, <3>3, LetThrough DEF DInv, Spent
  <2> QED BY <2>1, <2>2, <2>3 DEF Consider
<1>6. CASE pipe'[q].pc \notin Checking
  BY <1>6 DEF Spent
<1> QED BY <1>4, <1>5, <1>6

LEMMA UnhurriedStays == ASSUME DInv, [Next]_vars PROVE Unhurried'
<1> SUFFICES ASSUME ~overlapped', NEW q \in Pipelines PROVE Spent(pipe'[q], action')
  BY DEF Unhurried
<1>1. ~overlapped
  <2>1. ASSUME NEW p \in Pipelines, Evaluate(p) PROVE ~overlapped
    BY <2>1 DEF Evaluate, DInv, Tables
  <2> QED BY <2>1, EvaluatingStays
<1>2. ASSUME NEW p \in Pipelines, Insert(p) PROVE Spent(pipe'[q], action')
  <2>1. pipe'[p] = NextAnomaly(p) /\ (q # p => pipe'[q] = pipe[q])
    BY <1>2, OtherJobs DEF Insert
  <2>2. NextAnomaly(p).pc = "consider"
    BY DEF DInv, Jobs, JobState, NextAnomaly
  <2>3. Evaluating(p) /\ (pipe[q].pc \in Checking => Evaluating(q))
    BY <1>2 DEF Insert, At, Evaluating, Checking
  <2>4. pipe[q].pc \in Checking => q = p
    BY <1>1, <2>3 DEF DInv, Alone
  <2> QED BY <2>1, <2>2, <2>4 DEF Spent, Checking
<1>3. CASE ~(\E p \in Pipelines : Insert(p)) /\ ~\E p \in Pipelines : Consider(p)
  BY <1>1, <1>3, OtherActions, CheckingStays, SpentStays DEF DInv
<1> QED BY <1>1, <1>2, <1>3, ConsiderSpent

----
\* The theorems.

LEMMA InitDInv == Init => DInv
<1> SUFFICES ASSUME Init PROVE DInv
  OBVIOUS
<1>1. Seen
  <2>1. PICK w \in Worlds : kind = w.kind /\ row = w.row /\ load = w.load
    BY DEF Init
  <2>2. w.row = [w.row EXCEPT !.state = w.row.state] /\ w.row.state \in {"running", "stopped", "gone"}
    BY WorldsAssumption DEF ResourceRow
  <2> QED BY <2>1, <2>2 DEF Seen
<1>2. Tables
  BY DEF Init, Tables, AnomalyRows, ActionRows
<1>3. Jobs
  <2>1. Job(Idle) /\ Refers(Idle, anomaly)
    BY IdleState, FreshJob
  <2> QED BY <2>1, IdleState DEF Init, Jobs
<1>4. Alone /\ Unhurried
  <2>1. Idle.pc \notin {"consider"} \cup Checking
    BY DEF Idle, Checking
  <2> QED BY <2>1 DEF Init, Alone, Unhurried, Evaluating, Spent, Checking
<1> QED BY <1>1, <1>2, <1>3, <1>4 DEF DInv

LEMMA DInvStays == DInv /\ [Next]_vars => DInv'
<1> SUFFICES ASSUME DInv, [Next]_vars PROVE DInv'
  OBVIOUS
<1>1. Seen'
  BY SeenStays DEF DInv
<1> QED BY <1>1, TablesStay, JobsStay, AloneStays, UnhurriedStays DEF DInv

THEOREM SpecDInv == Spec => []DInv
  BY InitDInv, DInvStays, PTL DEF Spec

\* Every state is well formed: an anomaly has a type of the rules and a status of its table, an action
\* is the remedy of some type for an anomaly (the checks and references of the tables, migrations 001
\* and 007), and what is known of the resource is one of the worlds, but for the state that a
\* completed stop or start writes.
THEOREM DetectionTypeCorrect == Spec => []TypeOK
<1>1. DInv => TypeOK
  BY DEF DInv, Seen, Tables, TypeOK, AnomalyRows, ActionRows
<1> QED BY <1>1, SpecDInv, PTL

\* What _record_anomaly, the closing updates, the runner and time do to a closed anomaly: nothing
\* brings it back, but as a new row without actions.
LEMMA OthersReopenNothing ==
    ASSUME DInv, [Next]_vars, ~\E i \in Anomalies, s \in Closed \cup {"active"} : Edit(i, s),
           NEW i \in Anomalies, anomaly[i].status \in Closed, anomaly'[i].status = "active"
    PROVE  ActionsFor(i)' = {}
<1>1. anomaly \in [Anomalies -> AnomalyRows] /\ anomaly[i].status # "active"
  BY DEF DInv, Tables, Closed
<1>2. CASE UNCHANGED anomaly
  BY <1>1, <1>2
<1>3. ASSUME NEW p \in Pipelines, Write(p) PROVE ActionsFor(i)' = {}
  BY <1>1, <1>2, <1>3 DEF Write, Closes
<1>4. ASSUME NEW p \in Pipelines, RecordAnomaly(p) PROVE ActionsFor(i)' = {}
  <2> DEFINE t == CHOOSE t \in Head(pipe[p].writes).types : TRUE
  <2>1. CASE \E k : anomaly' = [anomaly EXCEPT ![k] = Stamp(k)]
    <3>1. PICK k : anomaly' = [anomaly EXCEPT ![k] = Stamp(k)]
      BY <2>1
    <3>2. k # i => anomaly'[i] = anomaly[i]
      BY <1>1, <3>1
    <3>3. k = i => anomaly'[i].status = anomaly[i].status
      BY <1>1, <3>1 DEF Stamp, AnomalyRows, NoAnomaly
    <3> QED BY <1>1, <3>2, <3>3
  <2>2. CASE /\ NewAnomaly # {}
             /\ LET j == CHOOSE j \in NewAnomaly : TRUE IN
                /\ anomaly' = [anomaly EXCEPT ![j] = [type |-> t, status |-> "active", old |-> FALSE]]
                /\ action' = [a \in Actions |-> IF action[a].for = j THEN NoAction ELSE action[a]]
    <3> HIDE DEF t
    <3>1. PICK j \in NewAnomaly :
            /\ anomaly' = [anomaly EXCEPT ![j] = [type |-> t, status |-> "active", old |-> FALSE]]
            /\ action' = [a \in Actions |-> IF action[a].for = j THEN NoAction ELSE action[a]]
      BY <2>2
    <3>2. j = i
      BY <1>1, <3>1
    <3>3. NoAction.for # i
      BY NoneAssumption DEF NoAction
    <3> QED BY <3>1, <3>2, <3>3 DEF ActionsFor
  <2> QED BY <1>2, <1>4, <2>1, <2>2 DEF RecordAnomaly
<1>5. ASSUME NEW a \in Actions, Runner(a) \/ LeaveAnomaly(a) PROVE ActionsFor(i)' = {}
  <2>1. CASE anomaly' = [anomaly EXCEPT ![action[a].for] = Close(action[a].for, "resolved")]
    <3>1. action[a].for # i => anomaly'[i] = anomaly[i]
      BY <1>1, <2>1
    <3>2. action[a].for = i => anomaly'[i] = Close(i, "resolved")
      BY <1>1, <2>1
    <3>3. Close(i, "resolved").status # "active"
      BY <1>1, OnRecord DEF Close, Closed
    <3> QED BY <1>1, <3>1, <3>2, <3>3
  <2> QED BY <1>2, <1>5, <2>1, RunnerWrites DEF CloseFor
<1>6. ASSUME NEW k \in Anomalies, Age(k) PROVE ActionsFor(i)' = {}
  BY <1>1, <1>6 DEF Age
<1>7. ASSUME NEW p \in Pipelines, Start(p) \/ Proceed(p) \/ FailVisit(p) \/ Crash(p) PROVE ActionsFor(i)' = {}
  BY <1>2, <1>3, <1>4, <1>7
     DEF Start, Proceed, FailVisit, Crash, List, Fetch, Evaluate, Consider, Check, Insert
<1>8. CASE (\E a \in Actions : CoolDown(a)) \/ Change \/ UNCHANGED vars
  BY <1>2, <1>8 DEF CoolDown, Change, vars
<1> QED BY <1>5, <1>6, <1>7, <1>8 DEF Next

\* A closed anomaly with an action on record is reopened by operators only (_update_status): neither a
\* pipeline that found it active before, nor the runner, brings it back.
THEOREM OperatorsReopen == Spec => OnlyOperatorsReopen
<1>1. ASSUME DInv, [Next]_vars
      PROVE  \A i \in Anomalies :
               anomaly[i].status \in Closed /\ anomaly'[i].status = "active" /\ ActionsFor(i)' # {}
                 => edits' # edits
  <2>1. ASSUME NEW i \in Anomalies, NEW s \in Closed \cup {"active"}, Edit(i, s) PROVE edits' # edits
    BY <1>1, <2>1 DEF Edit, DInv, Tables
  <2> QED BY <1>1, <2>1, OthersReopenNothing
<1> QED BY <1>1, SpecDInv, PTL DEF Spec, OnlyOperatorsReopen

\* An anomaly gets a new proposal only after failed attempts and a cooldown, however detection,
\* operators, the runner, retention and crashes interleave with the evaluation that read them, as long
\* as no two evaluations have overlapped (_should_skip and the insert of evaluate_all).
THEOREM ProposalsAreUnhurried == Spec => NoHastyProposal
<1>1. ASSUME DInv, [Next]_vars, NEW a \in Actions,
             action'[a].for # None, action'[a] # action[a], action'[a].recent, ~action[a].recent, ~overlapped,
             NEW b \in ActionsFor(action'[a].for)
      PROVE  action[b].status = "failed" /\ ~action[b].recent
  <2>1. PICK p \in Pipelines : Insert(p)
    BY <1>1, OtherActions DEF DInv, AttemptsKept, Keeps
  <2>2. action'[a].for = pipe[p].at
    BY <1>1, <2>1, InsertActions
  <2>3. pipe[p].pc \in Checking
    BY <2>1 DEF Insert, At, Checking
  <2> QED BY <1>1, <2>2, <2>3 DEF DInv, Unhurried, Spent, ActionsFor
<1>2. ASSUME DInv, [Next]_vars
      PROVE  \A a \in Actions :
               action'[a].for # None /\ action'[a] # action[a] /\ action'[a].recent /\ ~action[a].recent
                 /\ ~overlapped
               => \A b \in ActionsFor(action'[a].for) : action[b].status = "failed" /\ ~action[b].recent
  BY <1>1, <1>2
<1> QED BY <1>2, SpecDInv, PTL DEF Spec, NoHastyProposal

LEMMA OneLiveStays == ASSUME DInv, OneLive, [Next]_vars PROVE OneLive'
<1> SUFFICES ASSUME ~overlapped', NEW a \in Actions, NEW b \in Actions,
                    Live(a)', Live(b)', action'[a].for = action'[b].for
             PROVE  a = b
  BY DEF OneLive
<1>1. ~overlapped
  <2>1. ASSUME NEW p \in Pipelines, Evaluate(p) PROVE ~overlapped
    BY <2>1 DEF Evaluate, DInv, Tables
  <2> QED BY <2>1, EvaluatingStays
<1>2. ASSUME NEW c \in Actions, Live(c)', Keeps(c) PROVE Live(c) /\ action[c].for = action'[c].for
  <2>1. action'[c].for = action[c].for /\ action[c].for # None /\ action[c].status # "failed"
    BY <1>2 DEF Live, Keeps, NeverAgain, Open
  <2>2. action[c] \in ActionRows /\ action[c] # NoAction
    BY <2>1 DEF DInv, Tables, NoAction
  <2> QED BY <2>1, <2>2 DEF ActionRows, Live
<1>3. CASE AttemptsKept
  BY <1>1, <1>2, <1>3 DEF AttemptsKept, OneLive
<1>4. ASSUME NEW p \in Pipelines, Insert(p) PROVE a = b
  <2>1. PICK k \in Actions : \A c \in Actions : c # k => action'[c] = action[c]
    <3>1. CASE UNCHANGED action
      BY <3>1
    <3>2. CASE \E new : NewAction # {} /\ action' = [action EXCEPT ![CHOOSE c \in NewAction : TRUE] = new]
      <4>1. PICK k \in NewAction : \E new : action' = [action EXCEPT ![k] = new]
        BY <3>2
      <4> QED BY <4>1 DEF NewAction, DInv, Tables
    <3> QED BY <1>4, <3>1, <3>2 DEF Insert
  <2>2. CASE action'[k] = action[k]
    BY <1>1, <2>1, <2>2 DEF OneLive, Live
  <2>3. CASE action'[k] # action[k]
    <3>1. action'[k].for = pipe[p].at /\ pipe[p].pc \in Checking
      BY <1>4, <2>3, InsertActions DEF Insert, At, Checking
    <3>2. ASSUME NEW c \in Actions, c # k, action'[c].for = pipe[p].at PROVE ~Live(c)'
      <4>1. action[c].status = "failed" /\ action'[c] = action[c]
        BY <1>1, <2>1, <3>1, <3>2 DEF DInv, Unhurried, Spent
      <4> QED BY <4>1 DEF Live, NeverAgain, Open
    <3> QED BY <1>1, <2>1, <3>1, <3>2 DEF OneLive, Live
  <2> QED BY <2>2, <2>3
<1> QED BY <1>3, <1>4, OtherActions DEF DInv

\* "An anomaly gets at most one live action": at most one of its proposals is open, completed or
\* rejected (_should_skip), as long as no two evaluations have overlapped.  Rollbacks, which a person
\* asks for, are not counted.
THEOREM OneLiveAction == Spec => []OneLive
<1>1. Init => OneLive
  BY DEF Init, OneLive, Live, NoAction
<1>2. DInv /\ OneLive /\ [Next]_vars => OneLive'
  BY OneLiveStays
<1> QED BY <1>1, <1>2, SpecDInv, PTL DEF Spec
====
