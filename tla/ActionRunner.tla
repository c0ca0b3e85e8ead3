---- MODULE ActionRunner ----
(***************************************************************************)
(* The life of an optimisation action: proposal, human decision, expiry,   *)
(* execution, verification, stale-claim sweep and rollback.  Translated    *)
(* from backend/app/services/action_runner.py, api/actions.py and the      *)
(* transactions of db/migrations/014 and 015.                              *)
(*                                                                         *)
(* A thread is one call of approve_action, execute_action or               *)
(* rollback_action, in any replica; every database write of those calls is *)
(* a step of its own, so two threads interleave between any two writes and *)
(* a crash can fall between them.  What a safety check or a cloud call     *)
(* answers is a free choice.  The rows are the actions of ONE resource:    *)
(* rows of different resources never touch each other here.                *)
(***************************************************************************)
EXTENDS Naturals, FiniteSets

CONSTANTS
    Forward,      \* ids of the actions the policy engine can propose
    Reverse,      \* ids of the rows a rollback can insert
    Threads,      \* concurrent calls of the handlers
    Proposable,   \* action types the enabled policies propose
    MaxFaults,    \* bound on crashes and failed best-effort writes
    None          \* SQL NULL

ForwardTypes == {"stop_ec2", "start_ec2", "limit_lambda", "apply_tags", "recommend_review"}

ASSUME RowsAssumption == Forward \cap Reverse = {} /\ None \notin Forward \cup Reverse
ASSUME TypesAssumption == Proposable \subseteq ForwardTypes
ASSUME FaultsAssumption == MaxFaults \in Nat

REVERSIBLE == [type \in {"stop_ec2", "limit_lambda", "apply_tags"} |->
    CASE type = "stop_ec2"     -> "start_ec2"
      [] type = "limit_lambda" -> "restore_lambda_concurrency"
      [] type = "apply_tags"   -> "remove_tags"]

Types == ForwardTypes \cup {"restore_lambda_concurrency", "remove_tags"}
NO_CLOUD_ACTIONS == {"recommend_review"}
Verifiable == {"stop_ec2", "start_ec2", "limit_lambda"}

Rows == Forward \cup Reverse
Undecided == {"pending", "pending_approval"}
IN_FLIGHT_STATUSES == Undecided \cup {"approved", "executing"}
Statuses == IN_FLIGHT_STATUSES \cup {"absent", "rejected", "completed", "failed", "rolled_back"}

\* The columns the handlers read: `executed` is "executed_at is not null", `pre` is
\* "pre_state is not null" and `link` is rollback_action_id.
Row == [status : Statuses, type : Types \cup {None}, approval : BOOLEAN, dry : BOOLEAN,
        pre : BOOLEAN, executed : BOOLEAN, link : Reverse \cup {None}]

NoRow == [status |-> "absent", type |-> None, approval |-> FALSE, dry |-> FALSE,
          pre |-> FALSE, executed |-> FALSE, link |-> None]

Events == {"approved", "rejected", "superseded", "expired", "started", "submitted", "completed",
           "blocked", "failed", "verified", "rollback_completed", "rollback_failed"}

\* What a call of execute_action (Working) or rollback_action (Undoing) does next.
Working == {"auditing", "gate", "mutating", "submitting", "finishing"}
Reporting == {"recording", "resolving"}
Undoing == {"linking", "superseding", "undoing", "submittingUndo", "finishingUndo"}
UndoReporting == {"marking", "recordingUndo"}
Pcs == {"idle", "deciding", "expiring", "claiming", "inserting"}
       \cup Working \cup Reporting \cup Undoing \cup UndoReporting
Outs == {"approved", "rejected", "dry", "real", "ok", "failed", "blocked", None}

Idle == [pc |-> "idle", row |-> None, seen |-> None, undo |-> None, out |-> None]

VARIABLES
    rows,      \* table optimization_actions
    anomaly,   \* anomaly[f]: the anomaly f was proposed for is still active
    thread,    \* local state of each handler call
    swept,     \* rows the stale-claim sweep has failed and not yet unlinked
    calls,     \* mutating cloud calls made for each row
    trail,     \* audit_logs: the events recorded for each row
    faults     \* crashes and failed best-effort writes so far

vars == <<rows, anomaly, thread, swept, calls, trail, faults>>

TypeOK ==
    /\ rows \in [Rows -> Row]
    /\ anomaly \in [Forward -> BOOLEAN]
    /\ thread \in [Threads -> [pc : Pcs, row : Forward \cup {None}, seen : Statuses \cup {None},
                               undo : Reverse \cup {None}, out : Outs]]
    /\ swept \subseteq Rows
    /\ calls \in [Rows -> Nat]
    /\ trail \in [Rows -> SUBSET Events]
    /\ faults \in 0..MaxFaults

Init ==
    /\ rows = [r \in Rows |-> NoRow]
    /\ anomaly = [f \in Forward |-> TRUE]
    /\ thread = [t \in Threads |-> Idle]
    /\ swept = {}
    /\ calls = [r \in Rows |-> 0]
    /\ trail = [r \in Rows |-> {}]
    /\ faults = 0

----
\* Helpers.

InFlight(r) == rows[r].status \in IN_FLIGHT_STATUSES

\* uq_actions_one_in_flight (007) lets a row of this type be in flight beside the others.
IndexAdmits(type, others) == \A r \in others : ~(rows[r].type = type /\ InFlight(r))

At(t, pc) == thread[t].pc = pc
Goto(t, pc) == thread' = [thread EXCEPT ![t].pc = pc]
GotoWith(t, pc, out) == thread' = [thread EXCEPT ![t].pc = pc, ![t].out = out]
Done(t) == thread' = [thread EXCEPT ![t] = Idle]
SetStatus(r, status) == rows' = [rows EXCEPT ![r].status = status]
Log(r, event) == trail' = [trail EXCEPT ![r] = @ \cup {event}]

\* Seeded fault: an action that still awaits its approval can be claimed.
ClaimableUndecided(r) == rows[r].status \in Undecided \cup {"approved"}

\* _claim's test of the row it read.
Claimable(r) == rows[r].status = "approved" \/ (rows[r].status = "pending" /\ ~rows[r].approval)

\* A live call holds r: it has claimed or inserted r and not yet written its outcome.
Held(r) == \E t \in Threads : \/ thread[t].row = r /\ thread[t].pc \in Working
                              \/ thread[t].undo = r /\ thread[t].pc \in Undoing

\* What happens to the original when rollback row q fails (_release_rollback_link, 015)
\* or is verified (014).
Unlinked(table, q) == [r \in Rows |->
    IF table[r].link = q /\ table[r].status = "completed" THEN [table[r] EXCEPT !.link = None] ELSE table[r]]
RolledBack(table, q) == [r \in Rows |->
    IF table[r].link = q THEN [table[r] EXCEPT !.status = "rolled_back"] ELSE table[r]]

Fault == faults < MaxFaults /\ faults' = faults + 1

----
\* Proposal, decision and expiry.

\* PolicyEngine.evaluate_all inserts a proposal for an active anomaly.
Propose(f) ==
    /\ rows[f].status = "absent" /\ anomaly[f]
    /\ \E type \in Proposable, approval \in BOOLEAN, dry \in BOOLEAN :
        /\ IndexAdmits(type, Rows)
        /\ rows' = [rows EXCEPT ![f] = [NoRow EXCEPT
              !.status = IF approval THEN "pending_approval" ELSE "pending",
              !.type = type, !.approval = approval, !.dry = dry]]
    /\ UNCHANGED <<anomaly, thread, swept, calls, trail, faults>>

\* The detector resolves the anomaly, or an operator dismisses it.
CloseAnomaly(f) ==
    /\ anomaly[f] /\ anomaly' = [anomaly EXCEPT ![f] = FALSE]
    /\ UNCHANGED <<rows, thread, swept, calls, trail, faults>>

\* approve_action reads the row and records the decision before applying it.
ReviewRead(t, f, verdict) ==
    /\ At(t, "idle") /\ rows[f].status \in Undecided
    /\ Log(f, verdict)
    /\ thread' = [thread EXCEPT ![t] = [Idle EXCEPT !.pc = "deciding", !.row = f,
                                                    !.seen = rows[f].status, !.out = verdict]]
    /\ UNCHANGED <<rows, anomaly, swept, calls, faults>>

\* approve_action applies it by compare-and-swap on the status it read.
Decide(t) ==
    LET f == thread[t].row IN
    /\ At(t, "deciding")
    /\ IF rows[f].status = thread[t].seen
       THEN SetStatus(f, thread[t].out) /\ UNCHANGED trail
       ELSE Log(f, "superseded") /\ UNCHANGED rows
    /\ Done(t)
    /\ UNCHANGED <<anomaly, swept, calls, faults>>

\* Seeded fault: the expiry pass forgets approved actions.
ExpiryReadUndecided(t, f) ==
    /\ At(t, "idle") /\ rows[f].status \in Undecided
    /\ thread' = [thread EXCEPT ![t] = [Idle EXCEPT !.pc = "expiring", !.row = f, !.seen = rows[f].status]]
    /\ UNCHANGED <<rows, anomaly, swept, calls, trail, faults>>

\* is_expired in approve_action, execute_action or expire_stale_proposals: the row read is
\* older than its TTL.
ExpiryRead(t, f) ==
    /\ At(t, "idle") /\ rows[f].status \in Undecided \cup {"approved"}
    /\ thread' = [thread EXCEPT ![t] = [Idle EXCEPT !.pc = "expiring", !.row = f, !.seen = rows[f].status]]
    /\ UNCHANGED <<rows, anomaly, swept, calls, trail, faults>>

Expire(t) ==
    LET f == thread[t].row IN
    /\ At(t, "expiring")
    /\ IF rows[f].status = thread[t].seen
       THEN SetStatus(f, "failed") /\ Log(f, "expired")
       ELSE UNCHANGED <<rows, trail>>
    /\ Done(t)
    /\ UNCHANGED <<anomaly, swept, calls, faults>>

----
\* execute_action, one step per database write or cloud call.

ExecuteRead(t, f) ==
    /\ At(t, "idle") /\ Claimable(f)
    /\ thread' = [thread EXCEPT ![t] = [Idle EXCEPT !.pc = "claiming", !.row = f, !.seen = rows[f].status]]
    /\ UNCHANGED <<rows, anomaly, swept, calls, trail, faults>>

\* Seeded fault: the claim updates by id, whatever the status is by now.
ClaimById(t) ==
    /\ At(t, "claiming")
    /\ SetStatus(thread[t].row, "executing") /\ Goto(t, "auditing")
    /\ UNCHANGED <<anomaly, swept, calls, trail, faults>>

\* _claim: compare-and-swap into `executing`.
Claim(t) ==
    LET f == thread[t].row IN
    /\ At(t, "claiming")
    /\ IF rows[f].status = thread[t].seen
       THEN SetStatus(f, "executing") /\ Goto(t, "auditing")
       ELSE Done(t) /\ UNCHANGED rows
    /\ UNCHANGED <<anomaly, swept, calls, trail, faults>>

\* The action_started row; without it the action is aborted.
AuditStart(t) ==
    /\ At(t, "auditing")
    /\ \/ Log(thread[t].row, "started") /\ Goto(t, "gate")
       \/ GotoWith(t, "finishing", "failed") /\ UNCHANGED trail
    /\ UNCHANGED <<rows, anomaly, swept, calls, faults>>

\* Seeded fault: the row keeps the dry_run it was proposed with.
GateKeepsDry(t) ==
    LET f == thread[t].row IN
    /\ At(t, "gate") /\ anomaly[f]
    /\ rows' = [rows EXCEPT ![f].pre = TRUE]
    /\ Goto(t, "mutating")
    /\ UNCHANGED <<anomaly, swept, calls, trail, faults>>

\* Kill-switch, safety layer, anomaly and live-state checks block the action; dry-run mode or
\* a synthetic resource ends it; otherwise pre_state is stored right before the cloud call.
Gate(t) ==
    LET f == thread[t].row IN
    /\ At(t, "gate")
    /\ \/ GotoWith(t, "finishing", "blocked") /\ UNCHANGED rows
       \/ anomaly[f] /\ GotoWith(t, "finishing", "dry") /\ UNCHANGED rows
       \/ anomaly[f] /\ GotoWith(t, "finishing", "failed") /\ UNCHANGED rows
       \/ /\ anomaly[f]
          /\ rows' = [rows EXCEPT ![f].pre = TRUE, ![f].dry = FALSE]
          /\ Goto(t, "mutating")
    /\ UNCHANGED <<anomaly, swept, calls, trail, faults>>

\* _mutate.  It makes no call for a recommendation, for tags that are already there, or for a
\* Lambda already limited; it fails by the provider's answer, by a read-back or by an exception.
Mutate(t) ==
    LET f == thread[t].row IN
    /\ At(t, "mutating")
    /\ \/ /\ rows[f].type \notin {"stop_ec2", "start_ec2"}
          /\ GotoWith(t, "finishing", "ok") /\ UNCHANGED calls
       \/ /\ rows[f].type \notin NO_CLOUD_ACTIONS
          /\ GotoWith(t, "finishing", "failed") /\ UNCHANGED calls
       \/ /\ rows[f].type \notin NO_CLOUD_ACTIONS
          /\ calls' = [calls EXCEPT ![f] = @ + 1]
          /\ \/ GotoWith(t, "finishing", "failed")
             \/ rows[f].type \in Verifiable /\ Goto(t, "submitting")
             \/ rows[f].type \notin Verifiable /\ GotoWith(t, "finishing", "ok")
    /\ UNCHANGED <<rows, anomaly, swept, trail, faults>>

\* The submitted action awaits verification.  The write is by id, whatever the status; the
\* unique index can refuse it, and the exception ends the call.
Submit(t) ==
    LET f == thread[t].row IN
    /\ At(t, "submitting")
    /\ IF InFlight(f) \/ IndexAdmits(rows[f].type, Rows)
       THEN /\ rows' = [rows EXCEPT ![f].status = "executing", ![f].executed = TRUE]
            /\ Log(f, "submitted")
       ELSE UNCHANGED <<rows, trail>>
    /\ Done(t)
    /\ UNCHANGED <<anomaly, swept, calls, faults>>

\* _finish, its update: by id, whatever the status.
Finish(t) ==
    LET f == thread[t].row
        out == thread[t].out IN
    /\ At(t, "finishing")
    /\ rows' = [rows EXCEPT ![f].status = IF out \in {"ok", "dry"} THEN "completed" ELSE "failed",
                            ![f].executed = TRUE, ![f].dry = @ \/ out = "dry"]
    /\ Goto(t, "recording")
    /\ UNCHANGED <<anomaly, swept, calls, trail, faults>>

\* Seeded fault: a synchronous action never resolves its anomaly.
RecordOnly(t) ==
    /\ At(t, "recording")
    /\ Log(thread[t].row, IF thread[t].out \in {"ok", "dry"} THEN "completed" ELSE thread[t].out)
    /\ Done(t)
    /\ UNCHANGED <<rows, anomaly, swept, calls, faults>>

\* _finish, its audit row.
Record(t) ==
    LET f == thread[t].row
        out == thread[t].out IN
    /\ At(t, "recording")
    /\ Log(f, IF out \in {"ok", "dry"} THEN "completed" ELSE out)
    /\ IF out = "ok" /\ rows[f].type \notin NO_CLOUD_ACTIONS THEN Goto(t, "resolving") ELSE Done(t)
    /\ UNCHANGED <<rows, anomaly, swept, calls, faults>>

\* _resolve_anomaly, for an action that needed no verification.
Resolve(t) ==
    /\ At(t, "resolving")
    /\ anomaly' = [anomaly EXCEPT ![thread[t].row] = FALSE]
    /\ Done(t)
    /\ UNCHANGED <<rows, swept, calls, trail, faults>>

----
\* rollback_action.

\* Reads the original and runs check_rollback.  The undo is a dry run if the original was, or
\* if dry-run mode is on now.
RollbackRead(t, f) ==
    /\ At(t, "idle")
    /\ rows[f].status = "completed" /\ rows[f].link = None /\ rows[f].type \in DOMAIN REVERSIBLE
    /\ IndexAdmits(REVERSIBLE[rows[f].type], Rows)
    /\ \E mode \in {"dry", "real"} :
        /\ rows[f].dry => mode = "dry"
        /\ thread' = [thread EXCEPT ![t] = [Idle EXCEPT !.pc = "inserting", !.row = f, !.out = mode]]
    /\ UNCHANGED <<rows, anomaly, swept, calls, trail, faults>>

\* Inserts the rollback row, already `executing`; the unique index may refuse it.
RollbackInsert(t) ==
    LET f == thread[t].row
        type == REVERSIBLE[rows[f].type] IN
    /\ At(t, "inserting")
    /\ \/ /\ IndexAdmits(type, Rows)
          /\ \E q \in Reverse :
              /\ rows[q].status = "absent"
              /\ rows' = [rows EXCEPT ![q] = [NoRow EXCEPT !.status = "executing", !.type = type,
                                                           !.dry = thread[t].out = "dry"]]
              /\ thread' = [thread EXCEPT ![t].pc = "linking", ![t].undo = q]
          /\ UNCHANGED trail
       \/ Log(f, "rollback_failed") /\ Done(t) /\ UNCHANGED rows
    /\ UNCHANGED <<anomaly, swept, calls, faults>>

\* Seeded fault: the link is overwritten.
RollbackLinkById(t) ==
    /\ At(t, "linking")
    /\ rows' = [rows EXCEPT ![thread[t].row].link = thread[t].undo]
    /\ Goto(t, "undoing")
    /\ UNCHANGED <<anomaly, swept, calls, trail, faults>>

\* Compare-and-swap on the original's link, not on its status.
RollbackLink(t) ==
    LET f == thread[t].row IN
    /\ At(t, "linking")
    /\ IF rows[f].link = None
       THEN rows' = [rows EXCEPT ![f].link = thread[t].undo] /\ Goto(t, "undoing")
       ELSE Goto(t, "superseding") /\ UNCHANGED rows
    /\ UNCHANGED <<anomaly, swept, calls, trail, faults>>

Supersede(t) ==
    /\ At(t, "superseding")
    /\ SetStatus(thread[t].undo, "failed")
    /\ Done(t)
    /\ UNCHANGED <<anomaly, swept, calls, trail, faults>>

\* The reverse cloud call; only an EC2 start is verified later.
Undo(t) ==
    LET q == thread[t].undo IN
    /\ At(t, "undoing")
    /\ \/ /\ thread[t].out = "dry"
          /\ Goto(t, "finishingUndo") /\ UNCHANGED calls
       \/ /\ thread[t].out = "real"
          /\ \/ rows[q].type = "remove_tags" /\ GotoWith(t, "finishingUndo", "ok")
             \/ GotoWith(t, "finishingUndo", "failed")
          /\ UNCHANGED calls
       \/ /\ thread[t].out = "real"
          /\ calls' = [calls EXCEPT ![q] = @ + 1]
          /\ \/ GotoWith(t, "finishingUndo", "failed")
             \/ rows[q].type = "start_ec2" /\ Goto(t, "submittingUndo")
             \/ rows[q].type # "start_ec2" /\ GotoWith(t, "finishingUndo", "ok")
    /\ UNCHANGED <<rows, anomaly, swept, trail, faults>>

SubmitUndo(t) ==
    /\ At(t, "submittingUndo")
    /\ rows' = [rows EXCEPT ![thread[t].undo].executed = TRUE]
    /\ Done(t)
    /\ UNCHANGED <<anomaly, swept, calls, trail, faults>>

\* Seeded fault: the outcome is written where the status belongs.
FinishUndoOutcome(t) ==
    /\ At(t, "finishingUndo")
    /\ rows' = [rows EXCEPT ![thread[t].undo].executed = TRUE, ![thread[t].undo].status = thread[t].out]
    /\ Goto(t, "marking")
    /\ UNCHANGED <<anomaly, swept, calls, trail, faults>>

FinishUndo(t) ==
    /\ At(t, "finishingUndo")
    /\ rows' = [rows EXCEPT ![thread[t].undo].executed = TRUE,
                            ![thread[t].undo].status = IF thread[t].out = "failed" THEN "failed" ELSE "completed"]
    /\ Goto(t, "marking")
    /\ UNCHANGED <<anomaly, swept, calls, trail, faults>>

\* Seeded fault: a failed undo does not release its original.
MarkNoRelease(t) ==
    /\ At(t, "marking")
    /\ IF thread[t].out # "failed" THEN SetStatus(thread[t].row, "rolled_back") ELSE UNCHANGED rows
    /\ Goto(t, "recordingUndo")
    /\ UNCHANGED <<anomaly, swept, calls, trail, faults>>

\* Marks the original rolled back, or releases it for a retry.  _release_rollback_link
\* swallows a failed write.
Mark(t) ==
    /\ At(t, "marking")
    /\ \/ thread[t].out # "failed" /\ SetStatus(thread[t].row, "rolled_back") /\ UNCHANGED faults
       \/ thread[t].out = "failed" /\ rows' = Unlinked(rows, thread[t].undo) /\ UNCHANGED faults
       \/ thread[t].out = "failed" /\ Fault /\ UNCHANGED rows
    /\ Goto(t, "recordingUndo")
    /\ UNCHANGED <<anomaly, swept, calls, trail>>

RecordUndo(t) ==
    /\ At(t, "recordingUndo")
    /\ Log(thread[t].undo, IF thread[t].out = "failed" THEN "rollback_failed" ELSE "rollback_completed")
    /\ Done(t)
    /\ UNCHANGED <<rows, anomaly, swept, calls, faults>>

----
\* The verification job and crashes.

\* The one UPDATE of fail_stale_claims, over any of `claims`.
SweepOf(claims) ==
    /\ \E S \in SUBSET claims :
        /\ S # {}
        /\ rows' = [r \in Rows |-> IF r \in S THEN [rows[r] EXCEPT !.status = "failed"] ELSE rows[r]]
        /\ swept' = swept \cup S
    /\ UNCHANGED <<anomaly, thread, calls, trail, faults>>

\* Seeded fault: the sweep overlooks rollback rows.
UnsubmittedForward == {r \in Forward : rows[r].status = "executing" /\ ~rows[r].executed}

Unsubmitted == {r \in Rows : rows[r].status = "executing" /\ ~rows[r].executed}

\* Seeded fault: the sweep does not wait until the claim is old.
SweepYoung == SweepOf(Unsubmitted)

\* A claim that old is taken to belong to a call that died (STALE_CLAIM_SECONDS).
Sweep == SweepOf({r \in Unsubmitted : ~Held(r)})

\* The loop of fail_stale_claims over the rows it failed.
SweepRelease(r) ==
    /\ r \in swept
    /\ \/ rows' = Unlinked(rows, r) /\ UNCHANGED faults
       \/ Fault /\ UNCHANGED rows
    /\ Log(r, "failed")
    /\ swept' = swept \ {r}
    /\ UNCHANGED <<anomaly, thread, calls>>

Awaiting(r) == rows[r].status = "executing" /\ rows[r].executed

\* complete_verified_action (014): one transaction.
CompleteVerified(r) ==
    LET done == [rows EXCEPT ![r].status = "completed"] IN
    /\ Awaiting(r) /\ rows[r].type \in Verifiable
    /\ Log(r, "verified")
    /\ IF rows[r].type \in DOMAIN REVERSIBLE
       THEN /\ rows' = done
            /\ anomaly' = [f \in Forward |-> anomaly[f] /\ f # r]
       ELSE /\ rows' = RolledBack(done, r)
            /\ UNCHANGED anomaly
    /\ UNCHANGED <<thread, swept, calls, faults>>

\* Seeded fault: what the code did before 015, releasing and auditing whether or not the guarded
\* update matched.
FailTimedOutRegardless(r) ==
    /\ rows[r].type \in Verifiable /\ rows[r].executed
    /\ rows' = Unlinked([rows EXCEPT ![r].status = IF @ = "executing" THEN "failed" ELSE @], r)
    /\ Log(r, "failed")
    /\ UNCHANGED <<anomaly, thread, swept, calls, faults>>

\* fail_timed_out_action (015): one transaction.
FailTimedOut(r) ==
    /\ Awaiting(r)
    /\ rows' = Unlinked([rows EXCEPT ![r].status = "failed"], r)
    /\ Log(r, "failed")
    /\ UNCHANGED <<anomaly, thread, swept, calls, faults>>

\* The process dies, or a database write outside the handlers' try blocks raises.
Crash(t) ==
    /\ ~At(t, "idle") /\ Fault /\ Done(t)
    /\ UNCHANGED <<rows, anomaly, swept, calls, trail>>

CrashSweep ==
    /\ swept # {} /\ swept' = {} /\ Fault
    /\ UNCHANGED <<rows, anomaly, thread, calls, trail>>

----
\* What a call does once it has begun.
Proceed(t) ==
    \/ Decide(t) \/ Expire(t) \/ Claim(t) \/ AuditStart(t) \/ Gate(t) \/ Mutate(t) \/ Submit(t)
    \/ Finish(t) \/ Record(t) \/ Resolve(t) \/ RollbackInsert(t) \/ RollbackLink(t) \/ Supersede(t)
    \/ Undo(t) \/ SubmitUndo(t) \/ FinishUndo(t) \/ Mark(t) \/ RecordUndo(t)

Begin(t, f) ==
    \/ \E verdict \in {"approved", "rejected"} : ReviewRead(t, f, verdict)
    \/ ExpiryRead(t, f) \/ ExecuteRead(t, f) \/ RollbackRead(t, f)

Next ==
    \/ \E f \in Forward : Propose(f) \/ CloseAnomaly(f)
    \/ \E t \in Threads : Proceed(t) \/ Crash(t) \/ \E f \in Forward : Begin(t, f)
    \/ \E r \in Rows : SweepRelease(r) \/ CompleteVerified(r) \/ FailTimedOut(r)
    \/ Sweep \/ CrashSweep

Spec == Init /\ [][Next]_vars

\* A call that has begun goes on unless it crashes; the verification job comes round again, sweeps
\* old claims and fails what it cannot verify in time; a proposal grows older than its TTL and the
\* expiry pass of the execution job finds it, whenever a call can be made.
Fairness ==
    /\ \A t \in Threads : WF_vars(Proceed(t))
    /\ \A r \in Rows : WF_vars(SweepRelease(r)) /\ WF_vars(FailTimedOut(r))
    /\ WF_vars(Sweep)
    /\ \A f \in Forward : SF_vars(\E t \in Threads : ExpiryRead(t, f))

FairSpec == Spec /\ Fairness

----
\* Properties.

\* However many threads, retries and crashes, at most one mutating cloud call is made for an
\* action: the compare-and-swap of _claim, and a rollback row used by one call only.
CalledOnce == \A r \in Rows : calls[r] <= 1

\* A cloud call for an action that requires approval has an approval on record, every forward
\* call has its action_started row, and none was made for a declined action.
CalledWithAuthority ==
    \A f \in Forward : calls[f] > 0 =>
        /\ "started" \in trail[f]
        /\ rows[f].approval => "approved" \in trail[f]
        /\ rows[f].status \in {"executing", "completed", "failed", "rolled_back"}

\* The row of an action whose cloud call was made says so: it is not a dry run and its pre_state
\* was stored first ("so the audit trail is truthful").
TruthfulRow == \A f \in Forward : calls[f] > 0 => rows[f].pre /\ ~rows[f].dry

Successes == {"completed", "verified", "rollback_completed"}
Failures == {"expired", "blocked", "failed"}

\* The audit trail never contradicts the table: a success is recorded only for a row that is
\* completed (or undone since), a failure only for a row that failed.
TrailAgrees ==
    \A r \in Rows :
        /\ trail[r] \cap Successes # {} => rows[r].status \in {"completed", "rolled_back"}
        /\ trail[r] \cap Failures # {} => rows[r].status = "failed"

\* An action that is rolled back holds the rollback that undid it, and that one completed (the
\* contract below demands it).
RolledBackIsUndone ==
    \A f \in Forward : rows[f].status = "rolled_back" =>
        rows[f].link # None /\ rows[rows[f].link].status = "completed"

\* A rollback that reached the cloud, or completed, is the rollback of one original, unless it
\* failed: two concurrent rollbacks never both go through.
RollbackIsLinked ==
    \A q \in Reverse : calls[q] > 0 \/ rows[q].status = "completed" =>
        \/ rows[q].status = "failed"
        \/ \E f \in Forward : /\ rows[f].link = q
                              /\ rows[f].status \in {"completed", "rolled_back"}

\* An outcome is final: no write of a call, a sweep or a verification moves an action out of
\* rejected, completed, failed or rolled_back, except a completed action into rolled_back (the edges
\* of the contract below demand it).
OutcomeIsFinal ==
    [][\A r \in Rows :
        rows[r].status \in {"rejected", "completed", "failed", "rolled_back"} =>
            \/ rows'[r].status = rows[r].status
            \/ rows[r].status = "completed" /\ rows'[r].status = "rolled_back"]_vars

\* "A failed rollback must not block a retry": a completed action is linked to a failed rollback
\* only while the call or the sweep that failed it is still about to unlink it.
NoStrandedLink ==
    \A f \in Forward : rows[f].status = "completed" /\ rows[f].link # None
                            /\ rows[rows[f].link].status = "failed" =>
        rows[f].link \in swept \/ \E t \in Threads : thread[t].undo = rows[f].link

\* A real action that changed what its anomaly was about closes the anomaly: by the verification's
\* transaction, or by the call that completed it while that call is still running.
FixClosesAnomaly ==
    \A f \in Forward : rows[f].status = "completed" /\ ~rows[f].dry
                            /\ rows[f].type \notin NO_CLOUD_ACTIONS =>
        ~anomaly[f] \/ \E t \in Threads : thread[t].row = f /\ thread[t].pc \in Reporting

\* Both, where no process crashed and no best-effort write failed.
CleanRunsSettle == faults = 0 => NoStrandedLink /\ FixClosesAnomaly

\* What the table promises.
Phase(r) ==
    LET s == rows[r].status IN
    CASE s = "absent" -> "none"
      [] s = "pending_approval" -> "proposed"
      [] s \in {"pending", "approved"} -> "authorised"
      [] s = "executing" -> "running"
      [] s = "completed" -> "done"
      [] s = "failed" -> "failed"
      [] s = "rejected" -> "declined"
      [] s = "rolled_back" -> "undone"

Contract == INSTANCE ActionContract WITH
    phase <- [r \in Rows |-> Phase(r)], calls <- calls, undo <- [f \in Forward |-> rows[f].link]

\* The handlers implement the promises of ActionContract.
ImplementsContract == Contract!Spec

\* No resource is blocked for ever: a row does not stay `executing`, even when the process that
\* claimed it died ("failed after this long so the resource is not blocked forever").
ExecutingEnds == \A r \in Rows : rows[r].status = "executing" ~> rows[r].status # "executing"

\* Nor does a proposal, even one approved whose background execution was lost.
ProposalEnds ==
    \A f \in Forward : rows[f].status \in Undecided \cup {"approved"}
                            ~> rows[f].status \notin Undecided \cup {"approved"}

\* Without a crash, a linked rollback ends: the original is rolled back, or free for a retry.
RollbackEnds ==
    \A f \in Forward : rows[f].status = "completed" /\ rows[f].link # None
                            ~> rows[f].status = "rolled_back" \/ rows[f].link = None \/ faults > 0
====
