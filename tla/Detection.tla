---- MODULE Detection ----
(***************************************************************************)
(* From what is known of one resource to a proposed action: the pipeline   *)
(* job of each replica (detection, then policy evaluation), the anomaly    *)
(* rows it shares with operators and with the action runner, and the       *)
(* action rows it proposes.  Translated from                               *)
(* backend/app/services/anomaly_detector.py, policy_engine.py and          *)
(* api/anomalies.py.                                                       *)
(*                                                                         *)
(* What the rules compute from samples and tags is data: a row and a load  *)
(* say which findings they would report.  The order of the rules, the      *)
(* early returns and the writes they lead to are kept, in Visit.  Policies *)
(* are fixed: Remedy names the action of the policy that matches a type of *)
(* anomaly.  Every database access is a step; two pipelines overlap when   *)
(* leadership moves while a job is running.                                *)
(***************************************************************************)
EXTENDS Naturals, Sequences

CONSTANTS
    Worlds,       \* what a resource can be known to be: records [kind, row, load]
    Remedy,       \* type of anomaly -> action type, or None
    Pipelines, Anomalies, Actions,
    MaxChanges,   \* bound on changes of the world
    MaxEdits,     \* bound on operators' edits of an anomaly
    MaxFaults,    \* bound on crashes and failed visits
    None

Rules == {"untagged_resource", "unused_volume", "idle_compute", "idle_database", "low_storage"}
Statistical == {"ml_behavioral_anomaly", "statistical_anomaly"}   \* two stand for the three
Behavioral == {"runaway_lambda"} \cup Statistical
Types == Rules \cup Behavioral

Open == {"pending", "executing"}                    \* pending stands for pending_approval and approved too
\* completed stands for rolled_back too; closing is completed with the anomaly's write still to come.
NeverAgain == Open \cup {"closing", "completed", "rejected"}
Closed == {"resolved", "false_positive"}

\* What is known of a resource: its type, the columns of its row that the rules and the policies
\* read, and what its samples say.  What a rule finds may also be not evaluable.
Kinds == {"ec2", "lambda", "s3", "rds", "ebs"}
Findings == {"yes", "no", "unknown"}
ResourceRow == [state : {"running", "stopped", "gone"}, untagged : Findings, unused : Findings, protected : BOOLEAN]
Load == [fresh : BOOLEAN, idle : Findings, full : Findings, runaway : BOOLEAN, odd : Statistical \cup {None}]

ASSUME WorldsAssumption == Worlds \subseteq [kind : Kinds, row : ResourceRow, load : Load]
ASSUME NoneAssumption == None \notin Anomalies
ASSUME RemedyAssumption == DOMAIN Remedy = Types
ASSUME BoundsAssumption == MaxChanges \in Nat /\ MaxEdits \in Nat /\ MaxFaults \in Nat

VARIABLES
    kind, row, load,   \* the resource: its type, its row in resources, its samples
    anomaly,           \* rows of anomalies; old: not seen for BEHAVIORAL_CLEAR_WINDOW
    action,            \* rows of optimization_actions; recent: within the cooldown
    pipe,              \* each replica's pipeline job
    overlapped,        \* two evaluations have overlapped
    changes, edits, faults

world == <<kind, row, load>>
bounds == <<changes, edits, faults>>
vars == <<world, anomaly, action, pipe, overlapped, bounds>>

NoAnomaly == [type |-> None, status |-> "none", old |-> FALSE]
NoAction == [for |-> None, type |-> None, status |-> "none", recent |-> FALSE]
Idle == [pc |-> "idle", row |-> None, writes |-> <<>>, found |-> None, then |-> None,
         todo |-> {}, at |-> None]

Init ==
    /\ \E w \in Worlds : kind = w.kind /\ row = w.row /\ load = w.load
    /\ anomaly = [i \in Anomalies |-> NoAnomaly]
    /\ action = [a \in Actions |-> NoAction]
    /\ pipe = [p \in Pipelines |-> Idle]
    /\ overlapped = FALSE
    /\ changes = 0 /\ edits = 0 /\ faults = 0

----
\* process_resource: the writes that one visit leads to, in order.

Record(t) == <<[op |-> "record", types |-> {t}]>>
Clear(ts) == <<[op |-> "clear", types |-> ts]>>       \* _resolve_cleared, _resolve_types
Quiet(ts) == <<[op |-> "quiet", types |-> ts]>>       \* _resolve_quiet

\* _apply_rule: a finding is "yes", "no" or "unknown" (not evaluable).
Apply(t, finding) ==
    CASE finding = "yes" -> Record(t)
      [] finding = "no" -> Clear({t})
      [] finding = "unknown" -> <<>>

\* The end of process_resource: runaway functions, then the statistics.
Behavior(k, l) ==
    IF k = "lambda" /\ l.runaway THEN Record("runaway_lambda")
    ELSE (IF k = "lambda" THEN Quiet({"runaway_lambda"}) ELSE <<>>)
         \o (IF l.odd \in Statistical THEN Record(l.odd) ELSE <<>>)
         \o Quiet(Statistical \ {l.odd})

\* Seeded fault: an idle resource leaves what the statistics saw on record.
IdleOrOnly(k, l, t) ==
    Apply(t, l.idle) \o (IF l.idle = "yes" THEN <<>> ELSE Behavior(k, l))

\* An idle resource explains what the statistics saw on the way down.
IdleOr(k, l, t) ==
    Apply(t, l.idle) \o (IF l.idle = "yes" THEN Clear(Statistical) ELSE Behavior(k, l))

Off(k, r) == (k = "ec2" /\ r.state # "running") \/ (k = "rds" /\ r.state = "stopped")

Samples(k, r, l) ==
    IF Off(k, r)
    THEN IF k = "ec2" THEN Clear({"idle_compute"}) \o Clear(Behavioral)
         ELSE Clear({"idle_database"} \cup Statistical)
    ELSE IF ~l.fresh THEN <<>>
    ELSE IF k = "ec2" THEN IdleOr(k, l, "idle_compute")
    ELSE IF k = "rds" THEN Apply("low_storage", l.full) \o IdleOr(k, l, "idle_database")
    ELSE Behavior(k, l)

Visit(k, r, l) ==
    Apply("untagged_resource", r.untagged)
    \o (IF k = "ebs" THEN Apply("unused_volume", r.unused) ELSE <<>>)
    \o Samples(k, r, l)

----
Gone(r) == r.state = "gone"      \* terminated or deleted
Active == {i \in Anomalies : anomaly[i].status = "active"}
ActiveOf(t) == {i \in Active : anomaly[i].type = t}
InFlight(type) == \E a \in Actions : action[a].type = type /\ action[a].status \in Open
Close(i, status) == [anomaly[i] EXCEPT !.status = status, !.old = FALSE]   \* its age no longer matters

\* The proposals for an anomaly.  Rollbacks of them, which have its id too, are left out: _should_skip
\* finds the original beside them, completed or rolled back.
ActionsFor(i) == {a \in Actions : action[a].for = i}

\* A new row takes an unused identity.  When there is none left, retention has deleted a settled
\* action, or a closed anomaly with its actions; how long it waits is left open.
Unused(i) == anomaly[i].status = "none"
Settled(a) == action[a].status \in {"failed", "completed", "rejected"} /\ ~action[a].recent
Deleted(i) ==
    /\ anomaly[i].status \in Closed /\ \A a \in ActionsFor(i) : Settled(a)
    /\ \A p \in Pipelines : i \notin {pipe[p].found, pipe[p].at} \cup pipe[p].todo

NewAnomaly == LET unused == {i \in Anomalies : Unused(i)} IN
              IF unused # {} THEN unused ELSE {i \in Anomalies : Deleted(i)}
NewAction == LET unused == {a \in Actions : action[a] = NoAction} IN
             IF unused # {} THEN unused ELSE {a \in Actions : Settled(a)}

At(p, pc) == pipe[p].pc = pc
Become(p, r) == pipe' = [pipe EXCEPT ![p] = r]
Fault == faults < MaxFaults /\ faults' = faults + 1

\* Make the writes ws one by one, then go on at pc.
Writing(ws, pc) ==
    [Idle EXCEPT !.pc = IF ws = <<>> THEN pc ELSE "write", !.writes = ws, !.then = pc]

----
\* Detection: AnomalyDetectorService.run.

\* The job starts with resolve_inactive_resources: close what is active on a resource that is gone.
Start(p) ==
    /\ At(p, "idle") /\ Become(p, Writing(IF Gone(row) THEN Clear(Types) ELSE <<>>, "list"))
    /\ UNCHANGED <<world, anomaly, action, overlapped, bounds>>

List(p) ==
    /\ At(p, "list")
    /\ Become(p, IF Gone(row) THEN [Idle EXCEPT !.pc = "evaluate"]
                 ELSE [Idle EXCEPT !.pc = "fetch", !.row = row])
    /\ UNCHANGED <<world, anomaly, action, overlapped, bounds>>

\* _fetch_metrics: the samples are read after the listing, and the visit uses both.
Fetch(p) ==
    /\ At(p, "fetch") /\ Become(p, Writing(Visit(kind, pipe[p].row, load), "evaluate"))
    /\ UNCHANGED <<world, anomaly, action, overlapped, bounds>>

\* Whether the update of a closing write reaches row i.
Closes(w, i) ==
    /\ anomaly[i].status = "active" /\ anomaly[i].type \in w.types
    /\ w.op = "quiet" => anomaly[i].old

\* Seeded fault: the lookup also finds rows that were closed.
KnownEver(types) == {i \in Anomalies : anomaly[i].type \in types}

\* What the lookup of _record_anomaly finds.
Known(types) == {i \in Active : anomaly[i].type \in types}

\* The next write: an update that closes rows, or the lookup of _record_anomaly.
Write(p) ==
    LET w == Head(pipe[p].writes) IN
    /\ At(p, "write")
    /\ IF w.op = "record"
       THEN /\ \E i \in IF Known(w.types) = {} THEN {None} ELSE Known(w.types) :
                 Become(p, [pipe[p] EXCEPT !.pc = "record", !.found = i])
            /\ UNCHANGED anomaly
       ELSE /\ anomaly' = [i \in Anomalies |->
                             IF Closes(w, i) THEN Close(i, "resolved") ELSE anomaly[i]]
            /\ Become(p, Writing(Tail(pipe[p].writes), pipe[p].then))
    /\ UNCHANGED <<world, action, overlapped, bounds>>

\* Seeded fault: the stamp makes the row active again.
StampActive(i) == [anomaly[i] EXCEPT !.old = FALSE, !.status = "active"]

\* An update of what was seen last: by id, and not of the status.
Stamp(i) == [anomaly[i] EXCEPT !.old = FALSE]

\* The rest of _record_anomaly: the row found is stamped again, by id; else one is inserted, unless
\* the index uq_anomalies_one_active refuses it or the insert fails.  The visit goes on in any case.
RecordAnomaly(p) ==
    LET t == CHOOSE t \in Head(pipe[p].writes).types : TRUE
        i == pipe[p].found
    IN
    /\ At(p, "record")
    /\ \/ i # None /\ anomaly' = [anomaly EXCEPT ![i] = Stamp(i)] /\ UNCHANGED <<action, faults>>
       \/ i = None /\ ActiveOf(t) # {} /\ UNCHANGED <<anomaly, action, faults>>
       \/ i = None /\ Fault /\ UNCHANGED <<anomaly, action>>
       \/ /\ i = None /\ ActiveOf(t) = {}
          /\ NewAnomaly # {}
          /\ LET j == CHOOSE j \in NewAnomaly : TRUE IN
             /\ anomaly' = [anomaly EXCEPT ![j] = [type |-> t, status |-> "active", old |-> FALSE]]
             /\ action' = [a \in Actions |-> IF action[a].for = j THEN NoAction ELSE action[a]]
          /\ UNCHANGED faults
    /\ Become(p, Writing(Tail(pipe[p].writes), pipe[p].then))
    /\ UNCHANGED <<world, overlapped, changes, edits>>

----
\* Policy evaluation: PolicyEngine.evaluate_all.

Evaluating(p) == pipe[p].pc \in {"consider", "check", "insert"}

\* The active anomalies, joined with the resource's row, in one query.
Evaluate(p) ==
    /\ At(p, "evaluate")
    /\ Become(p, [Idle EXCEPT !.pc = "consider", !.row = row, !.todo = Active])
    /\ overlapped' = (overlapped \/ \E q \in Pipelines \ {p} : Evaluating(q))
    /\ UNCHANGED <<world, anomaly, action, bounds>>

\* Seeded fault: a failed attempt is retried at once.
ShouldSkipDecided(i) == \E a \in ActionsFor(i) : action[a].status \in NeverAgain

\* Seeded fault: a failed attempt is final.
ShouldSkipAny(i) == ActionsFor(i) # {}

\* Seeded fault: only attempts within the cooldown count.
ShouldSkipRecent(i) == \E a \in ActionsFor(i) : action[a].recent

\* _should_skip: an anomaly is proposed for again only after failed attempts and a cooldown.
ShouldSkip(i) == \E a \in ActionsFor(i) : action[a].status \in NeverAgain \/ action[a].recent

\* One anomaly of the list: skip it, or match a policy (no seeded one matches a protected resource).
Consider(p) ==
    /\ At(p, "consider")
    /\ \/ pipe[p].todo = {} /\ Become(p, Idle)
       \/ \E i \in pipe[p].todo :
            LET rest == [pipe[p] EXCEPT !.todo = @ \ {i}] IN
            Become(p, IF ShouldSkip(i) \/ Remedy[anomaly[i].type] = None \/ pipe[p].row.protected THEN rest
                      ELSE [rest EXCEPT !.pc = "check", !.at = i])
    /\ UNCHANGED <<world, anomaly, action, overlapped, bounds>>

NextAnomaly(p) == [pipe[p] EXCEPT !.pc = "consider", !.at = None]

\* check_proposal.
Check(p) ==
    /\ At(p, "check")
    /\ Become(p, IF row.protected \/ InFlight(Remedy[anomaly[pipe[p].at].type]) THEN NextAnomaly(p)
                 ELSE [pipe[p] EXCEPT !.pc = "insert"])
    /\ UNCHANGED <<world, anomaly, action, overlapped, bounds>>

\* The proposal, unless the index uq_actions_one_in_flight refuses it or the insert fails.
Insert(p) ==
    LET i == pipe[p].at
        type == Remedy[anomaly[i].type]
    IN
    /\ At(p, "insert")
    /\ \/ InFlight(type) /\ UNCHANGED <<action, faults>>
       \/ Fault /\ UNCHANGED action
       \/ /\ ~InFlight(type) /\ NewAction # {}
          /\ action' = [action EXCEPT ![CHOOSE a \in NewAction : TRUE] =
                          [for |-> i, type |-> type, status |-> "pending", recent |-> TRUE]]
          /\ UNCHANGED faults
    /\ Become(p, NextAnomaly(p))
    /\ UNCHANGED <<world, anomaly, overlapped, changes, edits>>

\* Closing what is gone may fail, and detection goes on; a listing or a visit that raises ends it, and
\* the job goes on with the policies.
FailVisit(p) ==
    /\ pipe[p].pc \in {"list", "fetch", "write", "record"} /\ Fault
    /\ Become(p, [Idle EXCEPT !.pc = IF At(p, "write") /\ pipe[p].then = "list" THEN "list" ELSE "evaluate"])
    /\ UNCHANGED <<world, anomaly, action, overlapped, changes, edits>>

Crash(p) ==
    /\ ~At(p, "idle") /\ Fault /\ Become(p, Idle)
    /\ UNCHANGED <<world, anomaly, action, overlapped, changes, edits>>

----
\* What operators, the action runner and time do.

\* _update_status: audited first, then written by id; an anomaly made active again can collide with
\* uq_anomalies_one_active.
Edit(i, status) ==
    /\ anomaly[i].status # "none" /\ edits < MaxEdits
    /\ \/ /\ status = "active" /\ ActiveOf(anomaly[i].type) \subseteq {i}
          /\ \E o \in BOOLEAN : anomaly' = [anomaly EXCEPT ![i].status = status, ![i].old = o]
       \/ status # "active" /\ anomaly' = [anomaly EXCEPT ![i] = Close(i, status)]
    /\ edits' = edits + 1
    /\ UNCHANGED <<world, action, pipe, overlapped, changes, faults>>

SetAction(a, status) == action' = [action EXCEPT ![a].status = status]

\* execute_action: blocked if the anomaly is no longer active.
Execute(a) ==
    /\ action[a].status = "pending"
    /\ SetAction(a, IF anomaly[action[a].for].status = "active" THEN "executing" ELSE "failed")
    /\ UNCHANGED <<world, anomaly, pipe, overlapped, bounds>>

Verified == [stop_ec2 |-> "stopped", start_ec2 |-> "running"]   \* VERIFY_TARGETS
NotFixed == {"recommend_review", "start_ec2"}    \* types that never resolve their anomaly

CloseFor(a) ==
    LET i == action[a].for IN
    anomaly' = IF anomaly[i].status = "active" THEN [anomaly EXCEPT ![i] = Close(i, "resolved")] ELSE anomaly

\* A recommendation, and any action in dry-run mode or on demo data: nothing else is written.
CompleteDry(a) ==
    /\ action[a].status = "executing" /\ SetAction(a, "completed")
    /\ UNCHANGED <<world, anomaly, pipe, overlapped, bounds>>

\* complete_verified_action: one transaction with the resource's state, for an instance, and the anomaly.
CompleteVerified(a) ==
    /\ action[a].status = "executing" /\ action[a].type \in DOMAIN Verified \cup {"limit_lambda"}
    /\ SetAction(a, "completed")
    /\ row' = IF action[a].type \in DOMAIN Verified
              THEN [row EXCEPT !.state = Verified[action[a].type]] ELSE row
    /\ IF action[a].type \in NotFixed THEN UNCHANGED anomaly ELSE CloseFor(a)
    /\ UNCHANGED <<kind, load, pipe, overlapped, bounds>>

\* What needs no verification (tags, a limit that was there): the outcome, then the anomaly.
CompleteNow(a) ==
    /\ action[a].status = "executing" /\ action[a].type \notin NotFixed \cup DOMAIN Verified
    /\ SetAction(a, "closing")
    /\ UNCHANGED <<world, anomaly, pipe, overlapped, bounds>>

ResolveAnomaly(a) ==
    /\ action[a].status = "closing" /\ SetAction(a, "completed") /\ CloseFor(a)
    /\ UNCHANGED <<world, pipe, overlapped, bounds>>

\* The process dies between the two writes, or the second fails.
LeaveAnomaly(a) ==
    /\ action[a].status = "closing" /\ Fault /\ SetAction(a, "completed")
    /\ UNCHANGED <<world, anomaly, pipe, overlapped, changes, edits>>

Complete(a) == CompleteDry(a) \/ CompleteVerified(a) \/ CompleteNow(a) \/ ResolveAnomaly(a)

\* Seeded fault: an expired proposal gets a status that the table does not have.
FailExpired(a) ==
    /\ action[a].status \in Open /\ SetAction(a, "expired")
    /\ UNCHANGED <<world, anomaly, pipe, overlapped, bounds>>

\* An execution that failed or was blocked, a proposal that expired.
Fail(a) ==
    /\ action[a].status \in Open /\ SetAction(a, "failed")
    /\ UNCHANGED <<world, anomaly, pipe, overlapped, bounds>>

Reject(a) ==
    /\ action[a].status = "pending" /\ SetAction(a, "rejected")
    /\ UNCHANGED <<world, anomaly, pipe, overlapped, bounds>>

\* ACTION_COOLDOWN_MINUTES have passed since the attempt was created.
CoolDown(a) ==
    /\ action[a].recent /\ action[a].status \notin Open
    /\ action' = [action EXCEPT ![a].recent = FALSE]
    /\ UNCHANGED <<world, anomaly, pipe, overlapped, bounds>>

\* BEHAVIORAL_CLEAR_WINDOW has passed since the anomaly was last stamped.
Age(i) ==
    /\ anomaly[i].status = "active" /\ anomaly[i].type \in Behavioral /\ ~anomaly[i].old
    /\ anomaly' = [anomaly EXCEPT ![i].old = TRUE]
    /\ UNCHANGED <<world, action, pipe, overlapped, bounds>>

\* Discovery writes another row, new samples arrive or stop arriving.
Change ==
    /\ changes < MaxChanges /\ changes' = changes + 1
    /\ \E w \in Worlds : w.kind = kind /\ row' = w.row /\ load' = w.load
    /\ UNCHANGED <<kind, anomaly, action, pipe, overlapped, edits, faults>>

----
Proceed(p) ==
    \/ List(p) \/ Fetch(p) \/ Write(p) \/ RecordAnomaly(p)
    \/ Evaluate(p) \/ Consider(p) \/ Check(p) \/ Insert(p)

Runner(a) == Execute(a) \/ Complete(a) \/ Fail(a) \/ Reject(a)

Next ==
    \/ \E p \in Pipelines : Start(p) \/ Proceed(p) \/ FailVisit(p) \/ Crash(p)
    \/ \E i \in Anomalies : Age(i) \/ \E s \in Closed \cup {"active"} : Edit(i, s)
    \/ \E a \in Actions : Runner(a) \/ LeaveAnomaly(a) \/ CoolDown(a)
    \/ Change

Spec == Init /\ [][Next]_vars

\* The leader's job runs every few minutes; a job that has begun goes on unless it crashes; every
\* proposal ends (ActionRunner: ProposalEnds); time passes.
Fairness ==
    /\ WF_vars(\E p \in Pipelines : Start(p))
    /\ \A p \in Pipelines : WF_vars(Proceed(p))
    /\ \A a \in Actions : WF_vars(Runner(a)) /\ WF_vars(CoolDown(a))
    /\ \A i \in Anomalies : WF_vars(Age(i))

FairSpec == Spec /\ Fairness

----
\* Properties.

TypeOK ==
    /\ \E w \in Worlds, s \in {"running", "stopped", "gone"} :
         kind = w.kind /\ row = [w.row EXCEPT !.state = s] /\ load = w.load
    /\ \A i \in Anomalies :
         anomaly[i] = NoAnomaly \/ anomaly[i] \in [type : Types, status : Closed \cup {"active"}, old : BOOLEAN]
    /\ \A a \in Actions :
         action[a] = NoAction
         \/ action[a] \in [for : Anomalies, type : {Remedy[t] : t \in Types} \ {None},
                           status : NeverAgain \cup {"failed"}, recent : BOOLEAN]
    /\ overlapped \in BOOLEAN

\* What the rules say of a resource, type by type: what must be on record while it stays like that,
\* and what may stay on record.
IdleNow(k, l) == k \in {"ec2", "rds"} /\ l.idle = "yes"
RunsAway(k, l) == k = "lambda" /\ l.runaway
Watched(k, r, l) == ~Off(k, r) /\ l.fresh

Calls(t, k, r, l) ==
    ~Gone(r) /\
    CASE t = "untagged_resource" -> r.untagged = "yes"
      [] t = "unused_volume" -> k = "ebs" /\ r.unused = "yes"
      [] t = "idle_compute" -> k = "ec2" /\ Watched(k, r, l) /\ l.idle = "yes"
      [] t = "idle_database" -> k = "rds" /\ Watched(k, r, l) /\ l.idle = "yes"
      [] t = "low_storage" -> k = "rds" /\ Watched(k, r, l) /\ l.full = "yes"
      [] t = "runaway_lambda" -> Watched(k, r, l) /\ RunsAway(k, l)
      [] t \in Statistical -> Watched(k, r, l) /\ ~IdleNow(k, l) /\ ~RunsAway(k, l) /\ l.odd = t

Bears(t, k, r, l) ==
    ~Gone(r) /\
    CASE t = "untagged_resource" -> r.untagged # "no"
      [] t = "unused_volume" -> r.unused # "no"
      [] t \in {"idle_compute", "idle_database"} -> ~Off(k, r) /\ (l.fresh => l.idle # "no")
      [] t = "low_storage" -> Watched(k, r, l) => l.full # "no"
      [] t = "runaway_lambda" -> Watched(k, r, l) => RunsAway(k, l)
      [] t \in Statistical -> ~Off(k, r) /\ (l.fresh => ~IdleNow(k, l) /\ (RunsAway(k, l) \/ l.odd = t))

\* Once the resource stays as it is, no anomaly stays on record that the rules no longer bear out,
\* although visits with old rows or samples and operators wrote in between, visits failed and the
\* runner left anomalies open whose remedy it had completed.
DetectionSettles == <>[](\A i \in Active : Bears(anomaly[i].type, kind, row, load))

\* A condition that lasts is on record again and again, whoever closed it: an operator, the runner or
\* a visit.
ConditionsShow ==
    \A t \in Types : <>[]Calls(t, kind, row, load) => []<>(ActiveOf(t) # {})

\* An anomaly whose condition lasts and has a remedy is not left for good without an attempt of its own
\* that is open or decided: after failed attempts there is another, unless one for another anomaly of
\* the resource, of the same type, is open time and again.  A completed attempt is the last one, even
\* a dry run, and the anomaly it leaves on record waits for the condition to clear.
RemediesAreProposed ==
    \A t \in {t \in Types : Remedy[t] # None}, i \in Anomalies :
        <>[](Calls(t, kind, row, load) /\ ~row.protected)
            => []<>(i \in ActiveOf(t) =>
                      InFlight(Remedy[t]) \/ \E a \in ActionsFor(i) : action[a].status \in NeverAgain)

\* A proposal for an anomaly that is open or decided.
Live(a) == action[a].for # None /\ action[a].status \in NeverAgain

\* "An anomaly gets at most one live action": one proposal at most is open, completed or rejected,
\* whatever operators, the runner and retention write between the reads of an evaluation, as long as
\* no two evaluations have overlapped.  A rollback of a completed proposal is not counted.
OneLive == ~overlapped => \A a, b \in Actions : Live(a) /\ Live(b) /\ action[a].for = action[b].for => a = b

\* An anomaly is proposed for again only when all proposals before have failed and cooled down, as
\* long as no two evaluations have overlapped.
NoHastyProposal ==
    [][\A a \in Actions :
         action'[a].for # None /\ action'[a] # action[a] /\ action'[a].recent /\ ~action[a].recent /\ ~overlapped
         => \A b \in ActionsFor(action'[a].for) : action[b].status = "failed" /\ ~action[b].recent]_vars

\* An anomaly with an action on record, once closed, is reopened by operators only: a pipeline that
\* found it active before does not bring it back, and with it the action that waits for it.
OnlyOperatorsReopen ==
    [][\A i \in Anomalies :
         anomaly[i].status \in Closed /\ anomaly'[i].status = "active" /\ ActionsFor(i)' # {}
         => edits' # edits]_vars
====
