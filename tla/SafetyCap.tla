---- MODULE SafetyCap ----
(***************************************************************************)
(* The daily cap and the cooldown: how check_execution counts the actions  *)
(* that already changed the cloud, against the executions running beside   *)
(* it.  Translated from SafetyLayer._real_executions_since                 *)
(* (backend/app/services/safety_layer.py) and the writes of                *)
(* ActionRunner.execute_action it counts.                                  *)
(*                                                                         *)
(* The count is three queries, each a step of its own.  With Limit = the   *)
(* day's maximum and Actions = all state-changing actions this is          *)
(* MAX_ACTIONS_PER_DAY; with Limit = 1 and Actions = those of one resource *)
(* it is the cooldown.  Everything happens within one window: the actions  *)
(* of earlier days or of before the cooldown only make the count smaller.  *)
(***************************************************************************)
EXTENDS Naturals, FiniteSets

CONSTANTS
    Actions,           \* claimable actions that are not METADATA_ONLY_ACTIONS
    Recommendations,   \* those of type recommend_review
    LambdaLimits,      \* those of type limit_lambda
    Threads,           \* concurrent calls of execute_action
    Limit,             \* MAX_ACTIONS_PER_DAY, or 1 for the cooldown
    MaxFaults,         \* bound on crashes
    None

ASSUME ActionsAssumption == IsFiniteSet(Actions) /\ None \notin Actions
ASSUME TypesAssumption ==
    Recommendations \subseteq Actions /\ LambdaLimits \subseteq Actions \ Recommendations
ASSUME ThreadsAssumption == IsFiniteSet(Threads) /\ Threads # {}
ASSUME LimitAssumption == Limit \in Nat /\ MaxFaults \in Nat

Statuses == {"approved", "executing", "completed", "failed"}
Checking == {"countSubmitted", "countFailed", "countClaimed"}
Acting == {"acting", "submitting", "completing", "failing"}
Pcs == {"idle"} \cup Checking \cup Acting \cup {"blocking", "finishingDry"}

Idle == [pc |-> "idle", row |-> None, counted |-> {}, known |-> {}]

VARIABLES
    rows,     \* the columns of optimization_actions that the count reads
    thread,   \* local state of each call: `counted` is what its queries returned so far, `known`
              \* (not in the code) what was on record when it began to count, with what was still
              \* claimed when it ended
    calls,    \* actions whose mutating cloud call was made
    faults

vars == <<rows, thread, calls, faults>>

TypeOK ==
    /\ rows \in [Actions -> [status : Statuses, pre : BOOLEAN, executed : BOOLEAN, dry : BOOLEAN]]
    /\ thread \in [Threads -> [pc : Pcs, row : Actions \cup {None}, counted : SUBSET Actions,
                               known : SUBSET Actions]]
    /\ calls \subseteq Actions
    /\ faults \in 0..MaxFaults

\* Proposals carry the dry_run of the day they were made.
Init ==
    /\ rows \in [Actions -> [status : {"approved"}, pre : {FALSE}, executed : {FALSE}, dry : BOOLEAN]]
    /\ thread = [t \in Threads |-> Idle]
    /\ calls = {}
    /\ faults = 0

----
\* The three queries.

SubmittedIn(table) == {a \in Actions :
    ~table[a].dry /\ table[a].status \in {"executing", "completed"} /\ table[a].executed}

\* pre_state is only written right before the cloud call.
FailedAfterSubmitIn(table) == {a \in Actions :
    ~table[a].dry /\ table[a].status = "failed" /\ table[a].pre /\ table[a].executed}

ClaimedIn(table) == {a \in Actions : table[a].status = "executing" /\ ~table[a].executed}

\* The cloud calls the table has on record.
Recorded == {a \in calls : rows[a].executed}

----
At(t, pc) == thread[t].pc = pc
Goto(t, pc) == thread' = [thread EXCEPT ![t].pc = pc]
Done(t) == thread' = [thread EXCEPT ![t] = Idle]

\* Seeded fault: an action that failed may be claimed again.
ClaimAgain(t, a) ==
    /\ At(t, "idle") /\ rows[a].status \in {"approved", "failed"}
    /\ rows' = [rows EXCEPT ![a].status = "executing"]
    /\ thread' = [thread EXCEPT ![t] = [Idle EXCEPT
          !.row = a, !.pc = IF a \in Recommendations THEN "acting" ELSE "countSubmitted"]]
    /\ UNCHANGED <<calls, faults>>

\* _claim comes before the check.  A recommendation passes the check without a count.
Claim(t, a) ==
    /\ At(t, "idle") /\ rows[a].status = "approved"
    /\ rows' = [rows EXCEPT ![a].status = "executing"]
    /\ thread' = [thread EXCEPT ![t] = [Idle EXCEPT
          !.row = a, !.pc = IF a \in Recommendations THEN "acting" ELSE "countSubmitted"]]
    /\ UNCHANGED <<calls, faults>>

\* Each query leaves out the action that is being checked.
CountSubmitted(t) ==
    /\ At(t, "countSubmitted")
    /\ thread' = [thread EXCEPT ![t].counted = SubmittedIn(rows) \ {thread[t].row},
                                ![t].known = Recorded, ![t].pc = "countFailed"]
    /\ UNCHANGED <<rows, calls, faults>>

\* Seeded fault: actions that failed after their cloud call are not counted.
SkipFailed(t) ==
    /\ At(t, "countFailed") /\ Goto(t, "countClaimed")
    /\ UNCHANGED <<rows, calls, faults>>

CountFailed(t) ==
    /\ At(t, "countFailed")
    /\ thread' = [thread EXCEPT ![t].counted = @ \cup (FailedAfterSubmitIn(rows) \ {thread[t].row}),
                                ![t].pc = "countClaimed"]
    /\ UNCHANGED <<rows, calls, faults>>

\* Seeded fault: claims that are not submitted yet are not counted.
CountClaimedNone(t) ==
    /\ At(t, "countClaimed")
    /\ thread' = [thread EXCEPT ![t].known = @ \cup (ClaimedIn(rows) \ {thread[t].row}),
          ![t].pc = IF Cardinality(thread[t].counted) >= Limit THEN "blocking" ELSE "acting"]
    /\ UNCHANGED <<rows, calls, faults>>

\* The third query and the comparison with the cap.
CountClaimed(t) ==
    LET claimed == ClaimedIn(rows) \ {thread[t].row}
        total == thread[t].counted \cup claimed IN
    /\ At(t, "countClaimed")
    /\ \E passed \in BOOLEAN :      \* the other checks: kill-switch, protection, anomaly, live state
        thread' = [thread EXCEPT ![t].known = @ \cup claimed,
              ![t].pc = IF passed /\ Cardinality(total) < Limit THEN "acting" ELSE "blocking"]
    /\ UNCHANGED <<rows, calls, faults>>

\* Dry-run mode ends the action; otherwise pre_state and dry_run = false are stored and _mutate
\* runs.  A recommendation succeeds without a call; a limit that is already tight enough, or not
\* positive, ends without one; a call may fail.
Act(t) ==
    LET a == thread[t].row IN
    /\ At(t, "acting")
    /\ \/ Goto(t, "finishingDry") /\ UNCHANGED <<rows, calls>>
       \/ /\ rows' = [rows EXCEPT ![a].pre = TRUE, ![a].dry = FALSE]
          /\ \/ a \in Recommendations /\ Goto(t, "completing") /\ UNCHANGED calls
             \/ /\ a \in LambdaLimits
                /\ \E next \in {"completing", "failing"} : Goto(t, next)
                /\ UNCHANGED calls
             \/ /\ a \notin Recommendations
                /\ calls' = calls \cup {a}
                /\ \E next \in {"submitting", "completing", "failing"} : Goto(t, next)
    /\ UNCHANGED faults

\* The write that records the outcome: action_submitted, or _finish.
Record(t) ==
    LET a == thread[t].row
        pc == thread[t].pc IN
    /\ pc \in {"blocking", "finishingDry", "submitting", "completing", "failing"}
    /\ rows' = [rows EXCEPT ![a].executed = TRUE, ![a].dry = @ \/ pc = "finishingDry",
          ![a].status = CASE pc = "submitting" -> "executing"
                          [] pc \in {"completing", "finishingDry"} -> "completed"
                          [] pc \in {"failing", "blocking"} -> "failed"]
    /\ Done(t)
    /\ UNCHANGED <<calls, faults>>

\* Seeded fault: the verdict is written where the status belongs.
VerifyVerdict(a) ==
    /\ rows[a].status = "executing" /\ rows[a].executed
    /\ \E verdict \in {"verified", "timeout"} : rows' = [rows EXCEPT ![a].status = verdict]
    /\ UNCHANGED <<thread, calls, faults>>

\* verify_pending completes or fails a submitted action.
Verify(a) ==
    /\ rows[a].status = "executing" /\ rows[a].executed
    /\ \E status \in {"completed", "failed"} : rows' = [rows EXCEPT ![a].status = status]
    /\ UNCHANGED <<thread, calls, faults>>

\* fail_stale_claims, once the claiming call is gone.  executed_at stays null.
Sweep(a) ==
    /\ a \in ClaimedIn(rows) /\ \A t \in Threads : thread[t].row # a
    /\ rows' = [rows EXCEPT ![a].status = "failed"]
    /\ UNCHANGED <<thread, calls, faults>>

Crash(t) ==
    /\ ~At(t, "idle") /\ faults < MaxFaults /\ faults' = faults + 1
    /\ Done(t)
    /\ UNCHANGED <<rows, calls>>

Next ==
    \/ \E t \in Threads : \/ CountSubmitted(t) \/ CountFailed(t) \/ CountClaimed(t)
                          \/ Act(t) \/ Record(t) \/ Crash(t)
                          \/ \E a \in Actions : Claim(t, a)
    \/ \E a \in Actions : Verify(a) \/ Sweep(a)

Spec == Init /\ [][Next]_vars

----
\* Properties.

\* A check lets an action through only if fewer than Limit actions were on record when it began
\* to count or claimed and not submitted when it ended, whatever verification, failures and other
\* executions did meanwhile: only a row submitted between the two can slip past.
OnlyMovingRowsSlip ==
    \A t \in Threads : thread[t].pc \in Acting /\ thread[t].row \notin Recommendations =>
        Cardinality(thread[t].known) < Limit

\* "State-change caps" (README.md): executions that overlap can pass the cap together, but by no more
\* than one for each other thread, and one for each crash that left a call unrecorded.
OvershootBounded == Cardinality(calls) <= Limit + (Cardinality(Threads) - 1) + faults

\* What the table says of an action, in the terms of ActionContract.
Phase(a) ==
    CASE rows[a].status = "approved" -> "authorised"
      [] rows[a].status = "executing" -> "running"
      [] rows[a].status = "completed" -> "done"
      [] rows[a].status = "failed" -> "failed"

Contract == INSTANCE ActionContract WITH
    Forward <- Actions, Reverse <- {},
    phase <- [a \in Actions |-> Phase(a)],
    calls <- [a \in Actions |-> IF a \in calls THEN 1 ELSE 0],
    undo <- [a \in Actions |-> None]

\* The actions that are counted behave as the action table promises, from their approval on: an
\* outcome, by whatever execution, verification or sweep, is final, and the one cloud call of an
\* action is made while the row it counts under is running.
KeepsContract == [][Contract!Next]_vars
====
