---- MODULE JobReports ----
(***************************************************************************)
(* What the outcomes of one scheduled job come to: the counter in the      *)
(* memory of the process that ran it, its row in job_runs, what /health    *)
(* shows, and the alert after JOB_FAILURE_ALERT failures in a row.         *)
(* Translated from backend/app/services/job_status.py, services/alerts.py, *)
(* services/health.py and _tracked of scheduler.py, on top of Leadership.  *)
(*                                                                         *)
(* The counter and the throttle of the alerts belong to a process: a new   *)
(* leader begins from nothing, one that leads again goes on where it was.  *)
(***************************************************************************)
EXTENDS Leadership

CONSTANTS
    Threshold,     \* JOB_FAILURE_ALERT
    MaxChanges     \* bound on how often the job breaks or recovers

ASSUME ThresholdAssumption == Threshold \in Nat \ {0} /\ None \notin 0..Threshold
ASSUME ChangesAssumption == MaxChanges \in Nat

VARIABLES
    broken,     \* what makes the job fail
    memory,     \* _status: consecutive_failures, up to the threshold; None before the first run
    row,        \* the same in job_runs
    job,        \* where the job is in each process
    throttled,  \* _last_sent: the key of this alert was stamped within ALERT_MIN_INTERVAL_SECONDS
    told,       \* (not in the code) an alert was delivered since the job broke
    changes

vars == <<leaderVars, broken, memory, row, job, throttled, told, changes>>

Entry == 0..Threshold \cup {None}

TypeOK ==
    /\ LeaderTypeOK
    /\ broken \in BOOLEAN /\ told \in BOOLEAN
    /\ memory \in [Replicas -> Entry] /\ row \in Entry
    /\ job \in [Replicas -> {"idle", "running", "persist", "alert"}]
    /\ \A r \in Replicas : job[r] \in {"persist", "alert"} => memory[r] # None
    /\ throttled \in [Replicas -> BOOLEAN]
    /\ changes \in 0..MaxChanges

Init ==
    /\ LeaderInit
    /\ broken \in BOOLEAN /\ told = FALSE
    /\ memory = [r \in Replicas |-> None] /\ row = None
    /\ job = [r \in Replicas |-> "idle"]
    /\ throttled = [r \in Replicas |-> FALSE]
    /\ changes = 0

----
At(r, pc) == job[r] = pc
To(r, pc) == job' = [job EXCEPT ![r] = pc]

Start(r) ==
    /\ At(r, "idle") /\ proc[r] = "up" /\ led[r]
    /\ To(r, "running")
    /\ UNCHANGED <<leaderVars, broken, memory, row, throttled, told, changes>>

Counted(n) ==
    LET failures == IF n = None THEN 0 ELSE n IN
    IF failures < Threshold THEN failures + 1 ELSE failures

\* Seeded fault: a success leaves the counter as it is.
RecordNoReset(r) ==
    /\ At(r, "running")
    /\ memory' = [memory EXCEPT ![r] = IF broken THEN Counted(@) ELSE IF @ = None THEN 0 ELSE @]
    /\ To(r, "persist")
    /\ UNCHANGED <<leaderVars, broken, row, throttled, told, changes>>

\* The outcome is recorded where the job ran, whoever leads by then.
Record(r) ==
    /\ At(r, "running")
    /\ memory' = [memory EXCEPT ![r] = IF broken THEN Counted(@) ELSE 0]
    /\ To(r, "persist")
    /\ UNCHANGED <<leaderVars, broken, row, throttled, told, changes>>

\* Best effort.
Persist(r) ==
    /\ At(r, "persist")
    /\ \/ row' = memory[r] /\ UNCHANGED faults
       \/ UNCHANGED row /\ Fault
    /\ To(r, IF memory[r] = 0 THEN "idle" ELSE "alert")
    /\ UNCHANGED <<proc, session, lock, led, broken, memory, throttled, told, changes>>

\* job_failing and send: the key is stamped before the delivery, which may fail.
Alert(r) ==
    /\ At(r, "alert")
    /\ IF memory[r] = Threshold /\ ~throttled[r]
       THEN /\ throttled' = [throttled EXCEPT ![r] = TRUE]
            /\ \/ told' = broken /\ UNCHANGED faults
               \/ UNCHANGED told /\ Fault
       ELSE UNCHANGED <<throttled, told, faults>>
    /\ To(r, "idle")
    /\ UNCHANGED <<proc, session, lock, led, broken, memory, row, changes>>

\* ALERT_MIN_INTERVAL_SECONDS are over.
Elapse(r) ==
    /\ throttled[r]
    /\ throttled' = [throttled EXCEPT ![r] = FALSE]
    /\ UNCHANGED <<leaderVars, broken, memory, row, job, told, changes>>

Work(r) == Start(r) \/ Record(r) \/ Persist(r) \/ Alert(r)

----
\* A process ends with its memory, once its jobs are done or in the middle of them.
Forget(r) ==
    /\ (Exit(r) /\ At(r, "idle")) \/ Kill(r)
    /\ memory' = [memory EXCEPT ![r] = None]
    /\ throttled' = [throttled EXCEPT ![r] = FALSE]
    /\ To(r, "idle")
    /\ UNCHANGED <<broken, row, told, changes>>

Lead(r) ==
    /\ StartUp(r) \/ Acquire(r) \/ AcquireUnheard(r) \/ Confirm(r) \/ Shutdown(r) \/ Cut(r)
    /\ UNCHANGED <<broken, memory, row, job, throttled, told, changes>>

Drop == ServerDrop /\ UNCHANGED <<broken, memory, row, job, throttled, told, changes>>

Change ==
    /\ changes < MaxChanges /\ changes' = changes + 1
    /\ broken' = ~broken /\ told' = FALSE
    /\ UNCHANGED <<leaderVars, memory, row, job, throttled>>

Next ==
    \/ \E r \in Replicas : Lead(r) \/ Work(r) \/ Elapse(r) \/ Forget(r)
    \/ Drop \/ Change

Spec == Init /\ [][Next]_vars

\* The scheduler starts the job again and again where it is not paused, and time passes.
FairSpec ==
    /\ Spec
    /\ \A r \in Replicas : /\ WF_vars(UNCHANGED faults /\ Lead(r)) /\ WF_vars(UNCHANGED faults /\ Forget(r))
                           /\ WF_vars(Work(r)) /\ WF_vars(Elapse(r))
    /\ WF_vars(Drop)

----
\* snapshot_all: the rows, overlaid with what this process remembers.
Shown(r) == IF memory[r] = None THEN row ELSE memory[r]

Failing(r) == Shown(r) = Threshold

\* Properties.

\* A job that keeps failing is alerted, whatever failovers, failed deliveries and the throttle do to
\* the count, and /health of the replica that leads comes to say job_failing exactly if it is so.
\* (That of a replica that led before goes on saying what it remembers.)
ReportsSettle ==
    /\ <>[]broken => <>[](told /\ \A r \in Replicas : proc[r] = "up" /\ led[r] => Failing(r))
    /\ <>[]~broken => <>[](\A r \in Replicas : proc[r] = "up" /\ led[r] => ~Failing(r))
====
