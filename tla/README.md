# CloudSentry in TLA+

CloudSentry watches cloud resources, detects idle or anomalous ones, proposes
optimisation actions and, once a policy or an operator authorises them, carries
them out: it stops instances, limits Lambda concurrency, writes tags, and can
undo what it did. What makes it dangerous to get wrong is not any single
function but the order in which several processes (two API replicas, a
scheduler in each, background tasks, operators) read and write the same few
rows, and what is left behind when one of them dies between two writes. That is
what this project specifies.

Paths below are relative to the repository root unless they start with `tla`.

## 1. The system and its parts

| component | code | state it keeps | operations |
|---|---|---|---|
| Action runner | `backend/app/services/action_runner.py`, `backend/app/api/actions.py`, migrations 014 and 015 | rows of `optimization_actions`, audit rows | approve or reject, expire, execute, verify, sweep stale claims, roll back |
| Remedies | the capture, mutation, read-back and undo of `action_runner.py`, `adapters/aws.py` | tags and concurrency in the cloud, `pre_state`, `resources.tags` | limit a Lambda function, add tags, undo either |
| Safety layer | `services/safety_layer.py` | none of its own: it counts rows | `check_proposal`, `check_execution`, `check_rollback` |
| Runtime configuration | `services/runtime_config.py`, `api/system.py` | `system_config`, one in-memory copy per replica, one pending request per key | `request_change`, `set_flag`, `refresh_from_db`, `cancel_pending`, `emergency_stop` |
| Two-person changes | `services/two_person.py`, `api/policies.py`, `api/resources.py` | pending requests in `system_config`, `policies.enabled`, `resources.is_protected` | request, confirm, cancel |
| Anomaly detector | `services/anomaly_detector.py`, `api/anomalies.py` | rows of `anomalies` | record, escalate, resolve, dismiss, re-activate |
| Policy engine | `services/policy_engine.py` | proposals (rows of `optimization_actions`) | `evaluate_all` |
| Scheduler, leadership | `scheduler.py`, `db/leader.py` | a Postgres advisory lock, paused or resumed jobs | acquire, confirm, lose, run a job |
| Discovery | `services/discovery.py` | rows of `resources` | list, upsert, mark deleted |
| Telemetry | `services/telemetry.py`, `db/asyncpg_pool.py` | metric rows, an hourly call budget | collect |
| Models | `ml/*.py`, `services/ml_retrainer.py` | two files per model | train, replace, load |
| Audit log | `services/audit_logger.py`, migration 008 | `audit_logs`, append-only | `log_action`, required or best-effort |
| Job status and alerts | `services/job_status.py`, `services/alerts.py`, `services/health.py` | a counter per job in each process, rows of `job_runs`, the throttle of the alerts | record an outcome, alert, show |
| Cost, rate limiter, retention, auth, adapters, health, front end | `services/*.py`, `rate_limit.py`, `auth.py`, `adapters/*.py`, `frontend/` | counters, throttles, rate windows | see PROJECT.json, `components` |

How they interact. The detector writes an anomaly; the policy engine turns an
active one into a proposal; an operator (API) or the scheduler (automatic
policies) starts `execute_action`, which claims the row, asks the configuration
and the safety layer, calls the cloud adapter and writes the outcome; stops,
starts and Lambda limits are only *submitted* and a later job verifies them.
A rollback is a second row linked from the first. Every component communicates
through database rows; the in-memory state that matters is each replica's copy
of the configuration, what it believes of its leadership, its job counters and
its cached models. Nothing holds a transaction over two statements
except the two SQL functions of migrations 014 and 015.

The hard behaviours, each at its line in PROJECT.json under `hazards`:

* *interleaving*: two executions, an approval against an expiry, two rollbacks
  of one action, two verification passes, the three queries of one count;
* *crash between two writes*: after the claim, after the cloud call, between
  failing a rollback row and unlinking its original;
* *writes by id*: the outcome of a call is written without looking at the
  status, so only the age of a claim keeps it from overwriting the sweep;
* *things nobody locks*: people change tags and limits in the cloud between the
  agent's look and its write, a bucket's tags can only be replaced as a whole,
  and a provider's error can look like an answer;
* *leadership that is lost without notice*: a replica goes on running its jobs
  until it asks, and a job outlives the lock it was started under, so two
  discoveries, detections or verifications overlap;
* *two files, one model*: the metadata and the model are replaced one after the
  other while predictions read both;
* *stale copies*: each replica judges whether a change needs a second operator
  by a copy that is up to a minute old, or the environment's if the process has
  just started and could not read the row; a detection visit writes by a row and
  samples that may have changed since;
* *early returns*: the branches of a detection visit skip the rules below them,
  so what an earlier visit recorded must be closed by whoever returns early;
* *liveness*: one row per type and resource may be in flight, so everything in
  flight must end by itself.

What makes each component correct:

* Action runner: at most one cloud call per action, never without the authority
  it needs; a truthful row and audit trail; final outcomes; an action is rolled
  back only by the one rollback it is linked to; nothing stays in flight.
* Safety layer: the number of real executions in a window stays near the cap
  and exact about what can slip past it; nothing that did not run uses it up.
* Remedies: what people set survives, except where the agent had no chance to
  see it; an undo that is reported as done has put things back.
* Runtime configuration: once a flag has settled, no level takes effect above
  the one it has until two operators agree on one, or a process starts with a
  higher one from its environment and cannot read the row; all copies converge.
  (That every change that loosens takes two operators, and that an emergency
  stop holds, is documented and not so: findings.)
* Two-person changes: a switch becomes loose only with two operators (or one and
  a wait) behind it, and the trail shows who they were.
* Leadership: a replica that runs jobs holds the lock, or has lost its
  connection and not yet asked.
* Detector and policy engine: no anomaly outlives what it reports, no lasting
  condition goes unseen, no anomaly that has a remedy goes without an attempt,
  nothing is proposed again before its cooldown, and nothing closed comes back
  by itself.
* Discovery: only what did not exist is marked deleted, whatever fails or runs
  beside; the table comes to say what exists, and goes on saying so.
* Models: a prediction says truly which model made it, and comes to use the
  newest.
* Job status and alerts: a job that keeps failing is alerted and shown, across
  failovers; one that recovered is not.

## 2. The modules

| module | models | how |
|---|---|---|
| `ActionRunner` | the life of an action and of its rollbacks | state machine, one action per database write, cloud call or audit row |
| `ActionContract` | what the action table promises to the outside | abstract specification, implemented by `ActionRunner` and, for the actions it counts, by `SafetyCap` |
| `SafetyCap` | the daily cap and the cooldown | state machine, one action per query of the count |
| `RuntimeConfig` | one configuration flag in every replica, with requests and stops | state machine, one action per database access or write to a copy |
| `TwoPerson` | one switch of a policy or a resource, with requests and confirmations | state machine, one action per database access |
| `Detection` | the pipeline job of each replica: detection, then policy evaluation | state machine over one resource; the writes of a visit are computed by `Visit` and made one by one |
| `Remedies` | what `limit_lambda` and `apply_tags` do to one function or bucket, and their undo | state machine, one action per read or write of the provider, with people editing in between |
| `Leadership` | the advisory lock, its connection and the processes | the variables and actions that `Discovery` and `JobReports` compose with |
| `Discovery` | the inventory, with discoveries on every replica, scheduled and manual | state machine on top of `Leadership`, one action per listing, read or write |
| `JobReports` | counter, row, health and alert of one scheduled job | state machine on top of `Leadership` |
| `ModelStore` | the two files of a model, their dated copies, and the engine that caches them | state machine, one action per file access |
| `MCActionRunner`, `MCSafetyCap`, `MCRuntimeConfig`, `MCTwoPerson`, `MCDetection`, `MCRemedies`, `MCDiscovery`, `MCJobReports`, `MCModelStore` | instances for TLC | symmetry sets, the worlds of a resource, the home of a resource |
| `ActionRunner_proofs`, `Remedies_proofs`, `SafetyCap_proofs`, `RuntimeConfig_proofs`, `TwoPerson_proofs`, `Detection_proofs`, `Discovery_proofs` (with `Leadership`, and `JobReports` as an instance), `ModelStore_proofs` | theorems | checked by TLAPS |

Definitions whose comment begins with "Seeded fault" are not part of any
specification: each is the mutated form of the definition that follows it, and
PROJECT.json (`mutants`) names the property that must notice it.

### ActionRunner

`rows` is `optimization_actions` restricted to the columns the handlers read
(`status`, `action_type`, `requires_approval`, `dry_run`, whether `pre_state`
and `executed_at` are set, `rollback_action_id`); `anomaly[f]` says whether the
anomaly an action was proposed for is still active; `trail` is `audit_logs`;
`calls[r]` counts the mutating cloud calls made for row r and exists only in
the model. `thread[t]` is the local state of one handler call: the row it works
on, the status it read (`seen`), the rollback row it inserted (`undo`), what
the cloud or the operator answered (`out`), and what it does next (`pc`).

A handler is cut at every statement that touches the database or the cloud.
`execute_action` is `ExecuteRead, Claim, AuditStart, Gate, Mutate`, then either
`Submit` or `Finish, Record, Resolve`. `rollback_action` is `RollbackRead,
RollbackInsert, RollbackLink`, then `Supersede`, or `Undo` followed by
`SubmitUndo` or `FinishUndo, Mark, RecordUndo`. `approve_action` is
`ReviewRead, Decide`; an expiry found by any of its three callers is
`ExpiryRead, Expire`. The verification job contributes `CompleteVerified` and
`FailTimedOut` (one transaction each, as in the SQL functions), and `Sweep`
(one update over any set of stale claims) with the loop after it,
`SweepRelease`. `Crash` ends a call anywhere; it stands for a dying process and
for a database error outside the handlers' try blocks.

What is free: every answer of the cloud, of the safety layer and of the
configuration; the type, approval rule and dry-run mode of a proposal; when a
proposal is older than its TTL. What is restricted: the rows are those of one
resource, since rows of different resources meet only in `SafetyCap`'s count;
an anomaly once closed stays closed (an operator's re-activation only enables
steps that are there anyway, and the properties about anomalies speak of the
fix). `Gate` merges the sequence of reads before the cloud call into one step:
a change that falls between two of these reads has the same effect as one that
falls before all or after all of them, because each read alone can stop the
action and nothing is written in between.

`Sweep` takes only claims that no live call holds. This is the assumption the
code makes with `STALE_CLAIM_SECONDS`: that a call which claimed its row that
long ago is dead. The mutant `SweepYoung` shows what depends on it.

### SafetyCap

`_real_executions_since` runs three queries and adds up their rows; each is an
action (`CountSubmitted, CountFailed, CountClaimed`) that reads the table as it
is then. Around them are the writes the count depends on: the claim that
precedes the check, `pre_state` and `dry_run` stored before the call, the
outcome, verification and the sweep. With `Limit = MAX_ACTIONS_PER_DAY` and all
state-changing actions this is the daily cap; with `Limit = 1` and the actions
of one resource it is the cooldown. `known` is an auxiliary field: it holds
what was on record when the check began, joined at the end with what was still
claimed, and is what the check is measured against. `Contract` instantiates
`ActionContract` here as well: `Phase` reads a row as the phase it is in.

### RuntimeConfig

One key of `system_config`. A flag is a level, higher meaning that the agent may
do more: 0 and 1 for a Boolean flag (automation enabled, dry-run off), more for
a cap. `cache[p]` is the `_cache` entry of replica p, `db` the row, `pending`
the `PENDING:` row. A call is one `request_change`, `emergency_stop` or
`refresh_from_db` in one replica and takes one step per database access and
per write to the copy, so that a refresh can overlay a value it read before a
stop, a confirmation can be written after one, and one confirmation can delete
the request of another. A process starts with the environment's level
(`EnvLevel`) and then reads the row, and goes on if that fails: so each copy
begins with either (`Init`), and again after its process dies (`Restart`).
`Abort` ends a call at a database access that raises. `approved` is auxiliary:
the levels that two operators agreed on, the one the flag had, since a call last
began while the flag was settled (`Settled`: every copy at the row's level, no
request, no call under way), which is when `Mark` starts it anew, and the
environment's if a process has started with it since. The row of the key exists
in every reachable state (the migrations seed it), and a value that does not
parse cannot be written by the program.

### TwoPerson

`update_policy` and `set_protection` follow the same steps over one Boolean
column, so one module models both: `loose` is `enabled` of a policy, the
absence of its `requires_approval`, or the absence of a resource's `protected`.
`Read` judges whether the change loosens the row (`_loosens`); if it does,
`Lookup` is `live_request` with `check_confirmer`, and the call either audits
and stores a request (`AuditRequest, Record`) or audits, writes the row and
deletes the request (`Audit, Apply, Clear`). An expired request is ignored by
the lookup and overwritten by the next one, so expiring and cancelling are the
same step, `Withdraw`. `mode` is fixed by the configuration: `two_person`,
`solo_delay`, or `off`. `hands`, `rested` and `waited` are auxiliary: who has
asked for loosening since the switch was last at rest, and whether a request
has become old enough for its own requester.

### Detection

One resource, with its row and its samples (`kind`, `row`, `load`), the rows of
`anomalies` and `optimization_actions` that belong to it, and one pipeline job
per replica. A rule's computation is data: a row or a load says which findings
it would produce (`yes`, `no`, or `unknown` where the rule is not evaluable).
What is kept is everything that follows from a finding: `Visit` is
`process_resource`, the rules in order with each early return, and yields the
list of writes that `Write` and `RecordAnomaly` then make one at a time, so that
the other replica, operators, the action runner and changes of the resource fall
between any two of them. `Evaluate, Consider, Check, Insert` are `evaluate_all`;
the two unique indexes of migration 007 refuse what raced, and a failed insert
is swallowed. `FailVisit` ends what raised and goes on with the next part of the
job. `Execute`, `Complete`, `Fail` and `Reject` are the ends of a proposal that
`ActionRunner` describes in detail, here reduced to what they do to an anomaly
and to the resource: a dry run or a recommendation completes and writes nothing
else (`CompleteDry`); a verified action is completed in one transaction with the
resource's state and its anomaly, which a start leaves open
(`CompleteVerified`); any other completes first (`CompleteNow`, status
`closing`) and closes its anomaly in a second write (`ResolveAnomaly`) that may
not come (`LeaveAnomaly`). Rollback rows are left out.
Time is the passing of the cooldown (`CoolDown`) and of the clear window
(`Age`), each at any moment. Row identities are few: when none is unused, an
insertion reuses one that retention may have deleted. A world is a record of
what a rule, a policy or an early return looks at (`WorldsAssumption`); the
resource starts as one, `Change` takes it to another of the same type, and a
verified stop or start sets its state.

### Remedies

`ActionRunner` lets the provider answer what it will; `Remedies` says what it
answers for the two remedies that change settings. `tags` and `conc` are the
settings of one function or bucket in the cloud, `copy` is `resources.tags`,
and `act` is the action that works on it: what comes next, whether it is the
undo, what it captured (`stored`, `added`), and the keys it is writing. A tag
is absent, has a value of a person's, or the one the agent writes; nothing else
about values matters. `limit_lambda` is `BeginLimit, CheckLimit, PutLimit,
VerifyLimit`, undone by `UndoLimit, ConfirmLimit`; `apply_tags` is `BeginTags`,
then `WriteKeys` for a function or `ReadSet, PutSet` for a bucket, then
`ConfirmTags`, undone by the same steps after `BeginUndoTags`. People edit at
any moment (`Edit`), discovery refreshes the row (`Refresh`), a call takes
effect and its answer is lost (`Answers`), and a run is interrupted anywhere
(`Break`). A read of the concurrency answers None for no reservation and for an
error alike, as in the adapter. `orig`, `touched` and `unseen` are auxiliary:
what the action found, what people changed since, and which of people's
settings the agent has not read in the reading it decides by; the properties
are measured against them. One action runs at a time: that is what
`ActionRunner` establishes for actions of one resource and type.

### Leadership

`lock` is the holder of the advisory lock on the server, `session` the client's
connection, `led` whether the jobs of `LEADER_ONLY_JOBS` are resumed, `proc` the
process. `Acquire` and `Confirm` are the two branches of `job_leadership` that
change something; `AcquireUnheard` is the lock granted on a connection that
breaks before the answer; `Cut` loses a connection without the client knowing,
and `ServerDrop` is the server noticing, earlier or later. A connection that is
given up releases the lock if it was open and leaves it to the server if not
(`Released`). `Shutdown` stops the scheduler without waiting for running jobs
and releases the lock; `StartUp`, `Exit` and `Kill` are the rest of a process's
life. A module that composes with `Leadership` adds what its jobs do.

### Discovery

One resource type, since `run()` keeps the five apart. `cloud` is what exists,
`rows` the table by its key (region, id), `run[j]` a discovery: one scheduled
and one manual per replica, the manual ones kept apart by a lock of their
process only. A run lists region after region (`ListRegion`; buckets are one
global listing, `ListBuckets`, where one whose location cannot be read is
reported in the adapter's own region), reads the rows once (`Read`), and then
writes what it decided: all inserts, all updates, and the rows of what was not
listed one by one (`Insert, Update, MarkGone`). `Fail` is a provider or database
error: nothing more is written. `missing` is auxiliary: what did not exist at
some moment of the run, or was listed elsewhere.

### JobReports

One leader-only job. `memory[r]` is `consecutive_failures` in the process that
ran it, up to the threshold; `row` is `job_runs`; `throttled[r]` the stamp in
`_last_sent`. `Record` counts where the job ran, whoever leads by then;
`Persist` is best-effort; `Alert` stamps the key before it delivers. A process
forgets both when it ends (`Forget`). `Shown` is what `snapshot_all` of a
replica shows: its own memory over the row. `told` is auxiliary: an alert was
delivered since the job broke.

### ModelStore

A model is the number of the training that made it. `pkl` and `json` are the
two current files, `dated` the dated copies; `pkl` is also its mtime, since
every replacement has a time of its own. Training is `Train, Date, Retain,
Describe, Promote`, in the code's order; `Retain` deletes any of the surplus
copies, since one that cannot be deleted is passed over. `Stat, ReadMetadata, Load` are
`_load_model`; `cache` is the engine's entry, with the mtime it was loaded
under, the model and the metadata. `library[m]` is the scikit-learn version that
trained m, `library[0]` the installed one; `Restart` may change it. A load can
fail (`FailLoad`): a fault, or as often as it likes for a pickle that another
library wrote, even if the metadata name the installed one. `Served` is
what a prediction answers: a model, and the version it says it is.

## 3. The runs

| run | instance | question |
|---|---|---|
| `runner_safety` | 1 action, 2 rollback rows, 2 calls, 2 faults, three proposable types | does every safety property hold, and is `ActionContract` implemented? |
| `runner_liveness` | 1 action, 1 rollback row, 2 calls, 1 fault, fairness | does everything in flight end? |
| `cap` | 5 actions (one Lambda limit, one recommendation), 2 executions, cap 1, 1 crash | what can slip past the count, and do the counted actions keep `ActionContract`? |
| `config` | 2 replicas, 2 operators, 2 concurrent calls, the environment above a tight row, 2 faults, fairness | is every level in force sanctioned since the flag settled, and do the copies converge? |
| `two_person` | 2 operators, 2 overlapping calls, 3 modes, 1 fault | what stands behind a loosened switch, and is it on record? |
| `detection` | 2 replicas, an idle instance, 2 anomalies, 2 actions, 1 edit, 1 fault | is anything proposed again too early, or beside a live attempt, or reopened by a late write? |
| `detection_settles` | 1 replica, 15 views of four resource types, 1 change, 1 edit, 1 fault, 2 anomalies, 1 action, fairness | do stale anomalies end, lasting conditions show, and those with a remedy get an attempt? |
| `remedies` | a function or a bucket, one required tag, one other, limit 2 of 3, 2 edits, 2 faults | does the agent spare what people set, and does an undo put back what was there? |
| `discovery` | 2 replicas, 2 regions, 1 resource in the region listed last, both kinds of listing, 2 changes, 1 fault, 2 discoveries at a time, fairness | is only what is gone marked deleted, and does the inventory settle and stay so? |
| `models` | 4 trainings, 2 libraries, 2 upgrades, 2 faults, one dated copy kept, fairness | is a model served under its own version, and the newest in the end? |
| `jobs` | 2 replicas, threshold 3, 2 changes of the job, 2 faults, fairness | is a lasting failure alerted and shown, and a recovery shown? |
| `runner_stranded_link` | 1 action, 1 rollback row, 1 fault | does a failed rollback always leave its original free for a retry? (no) |

The last one finds a counterexample on purpose: it states a sentence of the
repository, which the entry in PROJECT.json `findings` quotes.

Why these bounds are enough to be interesting. Every race in the runner is
between two calls on one row, or between two rollbacks of one row, or between a
call and a job: two calls, two rollback rows and the jobs (which need no call)
give each of them. A fault budget of one places a crash at any step; the two of
`runner_safety` also kill the sweep that cleans up after the first. The
three proposable types cover the three shapes of an action: verified later,
completed at once, and without a cloud call. A second forward action would add
only the one-in-flight index, which the rollback rows exercise already. In
`cap` two executions with a cap of one and three state-changing actions let
one execution complete entirely inside another's count. In `config` two
operators are what the rule is about, two calls let a refresh, a stop and
a confirmation overlap pairwise, and two faults let both processes restart, or
one restart beside a lost write. In `two_person` two calls and a fault
are enough for a leftover request, an overwritten one and a cleared one. In
`detection` two replicas are what leadership can overlap, and the second action
is what a hasty proposal would be; `detection_settles` has one replica, one
change at any moment, two anomalies at a time (a view has at most two findings),
an operator's edit before or after the change, and a fault that ends a visit, a
process or the second write of an outcome. Its one action row completes at every
moment of a visit, and a second attempt takes the place of a first that failed
and cooled down; one view has two anomalies that share a remedy and take turns.
In
`remedies` two edits let a person change a setting before and after the agent's
look, and two faults let a read fail where the capture is made and a call fail
where the undo is tried; one required tag and one other suffice, since tags are
written as one set and the marker is a second key of that set. In `discovery`
the resource has the hard home: not the adapter's own region, and listed last;
two changes delete and recreate it around a listing, two discoveries overlap
with an old one writing last, and the fault loses a leader, a location or a
call. In `models` four trainings put two replacements inside one load and leave
more dated copies than are kept. In `jobs` the threshold of 3 leaves room for a
failover in the middle of a streak.
Symmetry is used only in runs without
liveness properties (`runner_safety`, `cap`, `two_person`, `detection`), over
sets whose elements the specification does not distinguish. Deadlock is not
checked: these systems may legitimately come to rest (every row has an
outcome, the fault budget is spent).

### Fairness

* A call that has begun goes on unless it crashes (`WF` of `Proceed`): it is
  straight-line code, and its cloud and database clients have timeouts.
* The verification job is scheduled every minute and runs in the leader
  (`WF` of `Sweep`, `SweepRelease`, `FailTimedOut`): a claim older than
  `STALE_CLAIM_SECONDS` is swept, a submitted row older than its timeout is
  failed. `CompleteVerified` has no fairness: the cloud need not ever show the
  expected state.
* The execution job runs `expire_stale_proposals` in every cycle (`SF` of
  `ExpiryRead`, since a call is not free all the time in a small instance).
* Each replica refreshes its configuration every minute (`SF` of
  `RefreshRead`).
* The leader's pipeline job runs every few minutes, a job that has begun goes
  on, every proposal ends (`ProposalEnds` above, an execution ends by
  `ExecutingEnds`; how it ends is open), the cooldown and the clear window pass (`Detection`,
  `Fairness`).
* `Discovery` and `JobReports`: the platform starts a process that ended, the
  leadership job comes every 30 s (`WF` of `Lead`, of those steps that are no
  faults), a process told to stop ends when its jobs are done (`Leave`,
  `Forget`), the server drops the session of a client that is gone (`Drop`),
  and a resumed job is started again and again (`SF` of a scheduled `Begin`, as
  leadership comes and goes; `WF` of `Work`). The throttle interval of an alert
  passes (`Elapse`).
* `ModelStore`: a training that has begun goes on, and the detector predicts in
  every cycle (`WF` of `Training` and `Loading`). No fairness on the start of a
  training.
* No fairness on operators, people, faults, changes of a resource or, in
  `ActionRunner`, proposals.

### Properties and what they are for

`CalledOnce`, `CalledWithAuthority` and `TruthfulRow` relate the cloud to the
table; `TrailAgrees` relates the audit trail to the table; `RollbackIsLinked`
relates an action to its rollback; `ImplementsContract` is the refinement of
`ActionContract` (phases move along the published edges, a call only while
running, a rollback's call only while its original is completed and linked to
it). Two consequences of the contract are proved under names of their own and
not run apart from it: `OutcomeIsFinal` (no late write by id undoes an outcome)
and `RolledBackIsUndone` (what is rolled back holds the rollback that undid it).
`ExecutingEnds`, `ProposalEnds` and `RollbackEnds` say that
nothing in flight blocks its resource for ever. `CleanRunsSettle`
says, of runs in which nothing crashed and no best-effort write failed, that no
original stays linked to a failed rollback (`NoStrandedLink`) and that a real
fix closes its anomaly (`FixClosesAnomaly`); after a crash neither need hold,
and the first is a finding.

`OnlyMovingRowsSlip` is the exact guarantee of the three-query count: a check
lets an action through only if fewer than the cap were on record when it began
or still claimed when it ended. Only a row that moved from claimed to submitted
in between is missed. `OvershootBounded` bounds the damage: one call per
further concurrent execution and one per crash. `KeepsContract` ties the two
models of an action together: what is counted behaves as the action table
promises, so that a row under which a call was made is never claimed again.

`InForceIsSanctioned` is the strongest two-person guarantee the code gives. Old
levels can come back through stale copies and lost writes (findings 6 and 7),
but only as long as the flag has not settled: from a moment at which every copy
has the row's level, nobody has a request open and no call is under way, no
higher level takes effect, in the row or in a copy, until two operators agree on
one, or a process starts with a higher one from its environment because it could
not read the row. Automation that was stopped everywhere, and is off in the
environment, stays off. Of single changes it says nothing: finding 7 is how one
operator raises the row alone. `CopiesConverge` says that replicas end up with
the row.

`TwoHandsFromRest` is what the two-person rule comes to: whatever calls overlap,
crash or leave requests behind, a switch that was at rest (tight, no request, no
call under way) is loose only if two different operators have asked for it
since. It does not say that each loosening takes two: finding 3 is the window
in which one operator undoes a concurrent tightening. `LooseIsOnRecord` is what
an auditor relies on: if the switch is loose, the trail has a record of a
loosening change that names two operators, both among those who asked since it
was at rest, and one of the request that was confirmed, since both audits are
required and made before the writes. Which of several such records is the change
in force, the trail does not show. `ConfirmationsTrace`, of the proof, says the
second half of every confirmation: its request is on the trail, although requests
are overwritten and deleted by key.

`DetectionSettles` is about the early returns, stale reads and what others leave:
once the resource stays as it is, every anomaly that its rules do not bear out
ends, also one that an operator made active again or the runner left active.
`Bears` shows the two exceptions in the code: while a function runs away its
statistical anomalies are not looked at, and a stopped database keeps its
low-storage anomaly. `ConditionsShow` and `RemediesAreProposed` are the
converse: what lasts is on record, whoever closed it, and each anomaly with a
remedy gets an attempt of its own that is open or decided, unless one of the
same type for another anomaly of the resource is open time and again. A
completed attempt is the last one for its anomaly: after a dry run nothing more
is proposed while the anomaly stays (`test_no_reproposal_after_completion`).
`NoHastyProposal` is the cooldown and the rule of one live action per anomaly,
for evaluations that do not overlap; two that do can break it, by an insert that
follows a check made before the other's action was decided.
`OnlyOperatorsReopen` says that the stamp of `_record_anomaly`, which is by id,
does not bring back what somebody closed meanwhile. `OneLive` is the rule of
`policy_engine.py:15` as a state: of the proposals for an anomaly at most one is
open, completed or rejected, while no evaluations have overlapped. Overlapping
evaluations break it as they break `NoHastyProposal`.

`HumanSettingsSurvive` is about the agent's every write: it touches no tag but
those it means to, destroys no value a person gave one, and loosens no limit
except back to where it found it. What is excepted is exactly what the agent
cannot have seen: a change after its look, a look that failed, a row that was
behind. `UndoRestores` relates the end of an undo, however many tries it took,
to the beginning of the action.

`LeaderHoldsLock` is what "only the holder of the lock runs the jobs" comes to.
`GoneDidNotExist` is what keeps overlapping and failing discoveries from losing
a resource: a row is marked deleted only by a run during which the resource did
not exist at some moment (or was reported elsewhere). It does not keep an old
listing from marking what was created since; `InventorySettles` says that this
does not last, and `AgreementStays` why: once the table is right and no
discovery under way carries anything older, nothing a discovery does (in any
order, overlapping, failing, or after its leadership ended) makes it wrong
again; only a change in the cloud does, or a bucket reported elsewhere.

`ServedAsDescribed` ties three things that are read at three moments: the model,
its metadata and the mtime. `NewestIsServed` says that no order of trainings,
crashes and upgrades leaves the engine on an old model for ever. `ReportsSettle`
has both directions: the alert for a lasting failure is delivered in the end,
although the throttle is stamped before the delivery and counters die with their
process, and the leader's health comes to agree with the job.

### Findings

Each is quoted with its lines in PROJECT.json. The first has a run; the others
were met while modelling, and the specifications contain the behaviour.

1. `NoStrandedLink`: failing a rollback row and unlinking its original are two
   writes. A crash or a swallowed error between them leaves the original
   `completed` and linked to a failed rollback, and every retry is refused.
   The timeout path was made atomic by migration 015; the paths in
   `rollback_action` and `fail_stale_claims` were not.
2. Migration 009 lets a policy propose `start_ec2`, which is not a key of
   `REVERSIBLE`, so its verification is recorded as that of a rollback and its
   anomaly stays active.
3. Whether a change of a policy or of a protection loosens it is judged by a row
   that is read before it is written. An operator who repeats the loose value
   while another tightens it undoes that alone.
4. An anomaly whose action was rejected or completed is said never to be
   proposed for again, but retention deletes the action while the anomaly is
   still active, and the next evaluation proposes again.
5. The count behind the cap is three queries and can miss a row that moves
   between them, although its comment says that it counts claims so that
   concurrent executions cannot both pass.
6. An emergency stop whose database write fails is undone in the same process
   by the next refresh.
7. A replica applies a request for the level of its own copy as
   "no change", and writes it to the database. Its copy may still hold the old
   level, or that of the environment if the process has started and its first
   refresh failed: then one operator alone undoes a stop or a tightening.
8. An acknowledged recommendation uses up the daily cap although the count is
   documented as that of actions that reached the cloud.
9. The concurrency of a function is read as None for an error as well as for no
   reservation: an undo can remove a limit that could not be read, and report
   that it restored it.
10. The undo of a limit puts the captured value back without a look at what is
    there, also over a tighter limit that somebody set since.
11. The tags an action is about to add are computed from the stored row; a tag
    that the row does not show is overwritten, and removed by the undo.
12. A bucket whose location cannot be read is reported in the adapter's own
    region: its row is marked deleted and a second one, unprotected, appears
    until the next successful listing.
13. "Metadata first" pairs the files for a reload; a first load between the two
    writes, or after a crash between them, describes an old model by the new
    metadata.
14. "One manual discovery at a time per process": the scheduled one overlaps it,
    and so do those of other replicas.
15. A replica that led before shows its own old entry of a job, called the
    fresher one, over what the new leader has recorded.

## 4. What is proved

TLAPS checks the following for every number of actions, rollbacks, calls,
replicas, operators, levels, worlds of a resource and faults. The assumptions
are those of the modules: ids are disjoint and `None` is not one of them, bounds
are natural numbers, what is counted is finite, proposable types are forward
types, every type of anomaly has a remedy or none. One theorem has a hypothesis
of its own: `CleanRunsAreSettled` is about policies that do not propose
`start_ec2`.

| theorem | says |
|---|---|
| `HandlersTypeCorrect`, `CapTypeCorrect`, `TypeCorrect`, `SwitchTypeCorrect`, `RemediesTypeCorrect`, `DetectionTypeCorrect`, `InventoryTypeCorrect`, `StoreTypeCorrect`, `ReportsTypeCorrect` | each specification keeps its types |
| `OneCallPerAction` | `Spec => []CalledOnce` |
| `CallsHaveAuthority` | `Spec => []CalledWithAuthority` |
| `RowsAreTruthful` | `Spec => []TruthfulRow` |
| `OutcomesAreFinal` | `Spec => OutcomeIsFinal` |
| `TrailsAgree` | `Spec => []TrailAgrees` |
| `RolledBackWasUndone` | `Spec => []RolledBackIsUndone` |
| `RollbacksAreLinked` | `Spec => []RollbackIsLinked` |
| `RunnerKeepsContract` | `Spec => ImplementsContract`, the refinement of `ActionContract` |
| `FailedRollbacksRelease` | `Spec => [](faults = 0 => NoStrandedLink)` |
| `CleanRunsAreSettled` | `"start_ec2" \notin Proposable` gives `Spec => []CleanRunsSettle` |
| `HumanSettingsAreKept` | `Spec => HumanSettingsSurvive` |
| `UndosPutBack` | `Spec => UndoRestores` |
| `CountMissesOnlyMovingRows` | `Spec => []OnlyMovingRowsSlip` |
| `OvershootIsBounded` | `Spec => []OvershootBounded` |
| `CapKeepsContract` | `Spec => KeepsContract`, every step is one of `ActionContract` |
| `NothingRisesAlone` | `Spec => []InForceIsSanctioned` |
| `LooseNeedsTwo` | `Spec => []TwoHandsFromRest` |
| `LooseOnRecord` | `Spec => []LooseIsOnRecord` |
| `ConfirmationsAreTraced` | `Spec => []ConfirmationsTrace` |
| `ProposalsAreUnhurried` | `Spec => NoHastyProposal` |
| `OneLiveAction` | `Spec => []OneLive`: at most one attempt per anomaly is open or decided, while no evaluations have overlapped |
| `OperatorsReopen` | `Spec => OnlyOperatorsReopen` |
| `LeadersHoldTheLock` | `Spec => []LeaderHoldsLock` |
| `GoneWasGone` | `Spec => GoneDidNotExist` |
| `AgreementIsStable` | `Spec => AgreementStays` |
| `PredictionsAreDescribed` | `Spec => []ServedAsDescribed` |

*ActionRunner.* None of the properties is inductive: nothing in `CalledOnce`
prevents two calls from both standing before the cloud call. The invariant
`IInv` adds what each call knows of its rows at each program counter
(`HandlerOK`: from the claim to the outcome the row is executing, unsubmitted
and, before the cloud call, without a call), that a row is held by one call
(`Exclusive`), and what the table says of rows nobody holds (`Table`: a row that
can still be claimed, or inserted, has no call behind it, and the authority of
a row that was claimed is on the trail). The proof has a frame lemma
(`HandlerFrame`: a call that does not move keeps what it knows if the rows it
holds are not touched), three lemmas that say when a step of a call or of a job
is safe (`StepIsSafe`, `RowStepIsSafe`, `TableStepIsSafe`), and then one lemma
per action. `Sweep` is where the assumption about old claims enters. Finality
of outcomes follows from the same invariant: every write by id is made by a
call that holds its row, and a held row is executing.

*Rollbacks, the trail and the contract.* The second half of the module goes on
from `IInv`. `LInv` adds what a call knows of the link between its original and its
rollback and of the outcome it is about to record (`LinkOK`), that what the
sweep still has to release has failed (`SweptFailed`), and that a rollback which
was called, submitted or completed is linked unless it failed (`Backed`). Its
preservation is split: a *good step* (`GoodStep`) clears a link only where the
rollback has failed, marks an original rolled back only where the linked
rollback is completed, and logs an outcome only where the row has it; good
steps keep `LInv` because outcomes are final (`GoodStepKeeps`), and each action
is a good step (one lemma each). For the refinement, `CInv` adds that a rollback
has at most one original (`LinkedOnce`), which rests on a rollback about to be
linked having none (`LinkIsNew`); every step moves every row along an edge
(`NextMoves`) and a cloud call is made only where the contract lets it
(`NextCalls`).

*Clean runs.* That a failed rollback releases its original is a matter of two
writes, so the invariant says who is between them: a rollback that has failed
and is still linked is in `swept` or in the hands of a call that is about to
unlink it (`FailedAreReleased`), and a completed fix whose anomaly is open is in
the hands of a call that is about to close it (`FixesClose`). Both hold as long as
`faults = 0`: the only steps that take such a call away, or let its write fail,
count a fault, and no other write takes a row into the state that needs it
(`FairWrite`, and `LosersUnlinked` for a rollback that was refused). The second
needs that a forward row has a type that
policies may propose (`TypesProposed`) and that none of these is `start_ec2`:
the verification of a start is taken for that of a rollback and closes no
anomaly (finding 2). No shipped policy proposes one, although migration 009
allows it; with such a policy the property fails, so the hypothesis cannot be
dropped.

*Remedies.* `IInv` says which kind of action is in which phase and what it writes
(`Kinds`), that nobody but the agent sets the marker (`Marked`), that what is
about to be overwritten was read as it is or counts as unseen (`Informed`), that
tags the action does not add are as it found them unless somebody touched them
(`Restorable`), what has become of those it adds (`Undoing`), and how the
reservation in force relates to the captured one (`Reserved`).

*SafetyCap.* `CapInv` says what the call that holds a row knows of it
(`HeldRows`), that an unclaimed action is fresh and a recorded call is real
(`ApprovedAreFresh`, `CallsAreReal`), and, during a count, that every action on
record when the count began is either in the queries' answers so far or will be
in the next one (`Counting`). The last is the heart of the argument: rows move
only from claimed to submitted to failed or completed, so a row that was on
record at the start cannot escape all three queries.

For `OvershootBounded` that is not enough: each execution that passes has its
own count, and nothing in the state says in which order they began. The
invariant (`Ranking`) is that the executions *can* be ranked by when they began
to count, such that one that counts misses, of the calls made or still to be
made by those up to its rank, at most one for each execution and one for each
fault. A step that begins to count makes its execution the youngest; any other
step keeps the ranking. The youngest execution that passes has then seen all
calls but as many as the bound allows. `FewLost` ties the calls that no count
can see to the crashes.

`KeepsContract` is about single rows: each step moves a row's status along an
edge of the contract (`StatusMoves`), because every write of an outcome is made
for a row that is executing, by the call that holds it (`HeldRows`), by the
verification or by the sweep; and a call is made only by one that holds its row
(`CallsWhileRunning`), for an action that has not been called
(`CallsAreReal`).

*RuntimeConfig.* The invariant adds that every value a call carries is either
sanctioned already, or not above the copy it was judged against, or backed by a
request of a different operator (`CarriedIsSanctioned`, `RequestsAreSigned`). A
call that begins while the flag is settled is a case of its own (`BeginSettled`):
`approved` shrinks to the row's level there, and the invariant has to be
established anew, from the fact that all copies have that level and nothing is
under way that carries another. A process that starts from the environment adds
that level to `approved`, and what its copy lets through later is not above it
(`RestartSafe`).

*TwoPerson.* `TwoHandsFromRest` speaks only of the row. The invariant adds that
the operators of loosening calls, and of a live request, are among those who
asked (`CallBacked`, `RequestBacked`), that a call past its lookup is backed by
two of them or by a request that waited, and that idle calls and absent requests
carry nothing (`Blank`), so that nothing survives a rest. For the trail: every
request stored or being stored is audited, and a call that is about to write a
loose value has audited the change with both names; the names stay among those
who asked until the switch is at rest, when it is tight.

*Detection.* The properties relate a row that an evaluation read to one that it
writes several steps later. The invariant (`DInv`) says what it can rely on in
between. A job's list, and the anomaly it works on, are on record with the type
they had (`Refers`): retention, which is the only one to remove an anomaly,
removes none that is in use, and no other write touches the type
(`AnomaliesWell`: each step leaves an anomaly on record with its type, or no job
refers to it). While no two evaluations have overlapped there is only one
(`Alone`), and what it checks has nothing but failed attempts outside the
cooldown (`Spent`), because every other step leaves a failed attempt failed and
makes none recent (`AttemptsKept`). A proposal therefore meets only spent
attempts, which is `NoHastyProposal`, and a live one is alone (`OneLive`). That
the list of writes of any visit is well formed, whatever the resource and
whichever rule returns early, is `VisitWrites`. `OnlyOperatorsReopen` follows
from the types: a stamp by id leaves the status alone, and the one row that
comes up active in place of a closed one is a new anomaly, whose actions went
with the old. What the runner's steps have in common, whichever way an action
completes, is `RunnerWrites`.

*Leadership and Discovery.* The lock: a replica that leads without it has a dead
connection (`Sessions` also says who can hold the lock with which connection).
The inventory: during a listing, whatever exists, did so all along and has its
home among the regions already listed is found; after it, whatever was not found
is in `missing` (`RunsOK`), so a run can only decide to mark what was absent
once. `AgreementStays` is an action property of the inventory alone: each step
of a discovery that is up to date leaves it so and writes only what exists, and
one that begins lists what exists. `ReportsTypeCorrect` stands in the same module
and reaches `JobReports` through an instance over variables of its own.

*ModelStore.* Trainings are numbered: what is being trained is newer than both
files, the metadata never older than the model once it is being promoted
(`InOrder`); a load has read metadata at least as new as the model whose mtime
it holds, and of the installed library (`LoaderInOrder`), and so has the cache
(`CacheInOrder`). Nothing bounds the dated copies: those that cannot be deleted
stay.

Only model-checked: all liveness properties (`ExecutingEnds`, `ProposalEnds`,
`RollbackEnds`, `DetectionSettles`, `ConditionsShow`, `RemediesAreProposed`,
`CopiesConverge`, `InventorySettles`, `NewestIsServed`, `ReportsSettle`), since
no prover here handles fairness. Every invariant and every action property of
the runs has a theorem, and so has the type invariant of `JobReports`, whose run
is about liveness only.

## 5. What is not modelled

* Instances in `Remedies`: a stop is undone by a start, and nothing is captured.
  The GCP adapter (instances only) and the metric and cost queries of AWS.
* Rollback rows in `Detection`: they have their original's anomaly, but
  `_should_skip` finds the original beside them, completed or rolled back.
* Evaluations that overlap: they are in `Detection`, but its two properties about
  proposals say nothing once it has happened, since the code does not keep them
  then.
* A call that is slower than `STALE_CLAIM_SECONDS`: the sweep of `ActionRunner`
  and `SafetyCap` takes no row that a call still holds, so the late write of such
  a call over a swept row is outside both models.
* A missing row of a configuration key: the migrations seed all of them.
* The tag cap, the budget checks and the day boundary of the daily cap.
* `TWO_PERSON_MODE = solo_delay` for configuration flags (`TwoPerson` has it for
  policies and resources), and parsing of configuration values.
* The computations of the detection rules, the matching of policy conditions,
  and several resources at once: the pipeline treats each by itself.
* The components listed in PROJECT.json as `not_modelled`, with the reason:
  numerics of the models, pure I/O, rendering, deployment.

## 6. Plan

Order of work, most important behaviour first.

1. Done: `ActionRunner` with `ActionContract` and the proof of the refinement,
   `SafetyCap`, `RuntimeConfig`, `TwoPerson`, `Detection`, `Leadership`,
   `Discovery`, `JobReports`, `ModelStore`, `Remedies`, and the theorems above.
2. The trail of proposals (`policy_engine.py` inserts first and audits after).
3. `SafetyCap`: the tag cap and a day boundary.
4. `RuntimeConfig` with `TWO_PERSON_MODE = solo_delay`.
5. The rate limiter at its limit of keys; the budget arithmetic as operators
   checked against a reference definition.
