---- MODULE SafetyCap_proofs ----
(***************************************************************************)
(* Proofs about SafetyCap: type correctness, that the three queries miss   *)
(* only rows that move while they run, and that the cap is then overshot   *)
(* by less than the number of executions, and one for each crash, for any  *)
(* number of actions and executions and any cap.                           *)
(*                                                                         *)
(* OnlyMovingRowsSlip speaks of a call that has counted; the invariant     *)
(* follows it through the count (Counting).  That needs what a recorded    *)
(* cloud call looks like in the table (CallsAreReal), and this that a row  *)
(* belongs to one execution from its claim to its outcome (HeldRows).      *)
(*                                                                         *)
(* OvershootBounded rests on an order that no variable holds: a ranking of *)
(* the executions by when they began to count.  Of the calls that those up *)
(* to its own rank made or may still make, an execution that counts misses *)
(* at most one for each execution and one for each fault; so the youngest  *)
(* that passes bounds what all of them can do.  The invariant says that    *)
(* such a ranking exists (Ranking); a step that begins to count makes its  *)
(* execution the youngest.                                                 *)
(***************************************************************************)
EXTENDS SafetyCap, FiniteSetTheorems, TLAPS

Live(t) == thread[t].pc # "idle"
BeforeCall == Checking \cup {"acting", "blocking", "finishingDry"}

\* A row is held by one execution, which has not yet recorded an outcome.
HeldRows ==
    \A t \in Threads : Live(t) =>
        /\ thread[t].row \in ClaimedIn(rows)
        /\ thread[t].pc \in BeforeCall => thread[t].row \notin calls
        /\ \A u \in Threads : Live(u) /\ thread[u].row = thread[t].row => u = t

\* An action nobody has claimed has no outcome.
ApprovedAreFresh == \A a \in Actions : rows[a].status = "approved" => ~rows[a].executed

\* A cloud call leaves a row with its pre_state that is not a dry run.
CallsAreReal ==
    \A a \in calls : rows[a].pre /\ ~rows[a].dry /\ rows[a].status # "approved"

\* What was on record when the count began is counted, or will be by the second query; once the
\* count has passed, it was less than the cap.
Counting ==
    \A t \in Threads :
        /\ thread[t].pc = "countFailed" =>
              thread[t].known \subseteq thread[t].counted \cup FailedAfterSubmitIn(rows)
        /\ thread[t].pc \in {"countFailed", "countClaimed"} => thread[t].row \notin thread[t].known
        /\ thread[t].pc = "countClaimed" => thread[t].known \subseteq thread[t].counted

CapInv == TypeOK /\ HeldRows /\ ApprovedAreFresh /\ CallsAreReal /\ Counting /\ OnlyMovingRowsSlip

----
LocalState == [pc : Pcs, row : Actions \cup {None}, counted : SUBSET Actions, known : SUBSET Actions]

LEMMA IdleType == Idle \in LocalState /\ Idle.pc = "idle"
  BY DEF Idle, LocalState, Pcs

LEMMA CapInit == Init => CapInv
<1> SUFFICES ASSUME Init PROVE CapInv
  OBVIOUS
<1>1. thread \in [Threads -> LocalState] /\ \A t \in Threads : thread[t].pc = "idle"
  BY IdleType DEF Init
<1>2. rows \in [Actions -> [status : Statuses, pre : BOOLEAN, executed : BOOLEAN, dry : BOOLEAN]]
  BY DEF Init, Statuses
<1>3. TypeOK
  BY <1>1, <1>2, LimitAssumption DEF Init, TypeOK, LocalState
<1> QED BY <1>1, <1>3 DEF CapInv, HeldRows, ApprovedAreFresh, CallsAreReal, Counting,
                              OnlyMovingRowsSlip, Live, Acting, Init

\* A row that failed after its call stays so: no step writes a row whose outcome is a failure.
LEMMA FailuresStay ==
  ASSUME CapInv, [Next]_vars
  PROVE  FailedAfterSubmitIn(rows) \subseteq FailedAfterSubmitIn(rows')
<1> SUFFICES ASSUME NEW a \in Actions, rows[a].status = "failed" PROVE rows'[a] = rows[a]
  BY DEF FailedAfterSubmitIn
<1>0. a \notin ClaimedIn(rows) /\ rows \in [Actions -> [status : Statuses, pre : BOOLEAN, executed : BOOLEAN, dry : BOOLEAN]]
  BY DEF ClaimedIn, CapInv, TypeOK
<1>1. CASE UNCHANGED rows
  BY <1>1
<1>2. ASSUME NEW t \in Threads, Act(t) \/ Record(t) PROVE rows'[a] = rows[a]
  <2>1. thread[t].row # a
    BY <1>0, <1>2 DEF Act, Record, At, CapInv, HeldRows, Live
  <2> QED BY <1>0, <1>2, <2>1 DEF Act, Record
<1>3. ASSUME NEW t \in Threads, NEW b \in Actions, Claim(t, b) PROVE rows'[a] = rows[a]
  BY <1>0, <1>3 DEF Claim
<1>4. ASSUME NEW b \in Actions, Verify(b) \/ Sweep(b) PROVE rows'[a] = rows[a]
  BY <1>0, <1>4 DEF Verify, Sweep
<1> QED BY <1>1, <1>2, <1>3, <1>4 DEF Next, vars, CountSubmitted, CountFailed, CountClaimed, Crash

\* What a step does to the local states: one call moves, and the fields it does not assign stay.
LEMMA GotoMoves ==
  ASSUME TypeOK, NEW t \in Threads, NEW pc \in Pcs, Goto(t, pc)
  PROVE  /\ thread' \in [Threads -> LocalState]
         /\ \A u \in Threads : u # t => thread'[u] = thread[u]
         /\ thread'[t].pc = pc /\ thread'[t].row = thread[t].row
         /\ thread'[t].counted = thread[t].counted /\ thread'[t].known = thread[t].known
<1>1. thread \in [Threads -> LocalState]
  BY DEF TypeOK, LocalState
<1>2. thread' = [thread EXCEPT ![t] = [thread[t] EXCEPT !.pc = pc]]
  BY DEF Goto
<1>3. [thread[t] EXCEPT !.pc = pc] \in LocalState
  BY <1>1 DEF LocalState
<1> QED BY <1>1, <1>2, <1>3 DEF LocalState

LEMMA DoneMoves ==
  ASSUME TypeOK, NEW t \in Threads, Done(t)
  PROVE  /\ thread' \in [Threads -> LocalState]
         /\ \A u \in Threads : u # t => thread'[u] = thread[u]
         /\ thread'[t].pc = "idle"
  BY IdleType DEF Done, TypeOK, LocalState

LEMMA ClaimMoves ==
  ASSUME TypeOK, NEW t \in Threads, NEW a \in Actions, Claim(t, a)
  PROVE  /\ thread' \in [Threads -> LocalState]
         /\ \A u \in Threads : u # t => thread'[u] = thread[u]
         /\ thread'[t].pc \in {"acting", "countSubmitted"} /\ thread'[t].row = a
         /\ thread'[t].pc = "acting" => a \in Recommendations
<1> DEFINE new == [Idle EXCEPT !.row = a, !.pc = IF a \in Recommendations THEN "acting" ELSE "countSubmitted"]
<1>1. new \in LocalState /\ new.pc \in {"acting", "countSubmitted"} /\ new.row = a
          /\ (new.pc = "acting" => a \in Recommendations)
  BY DEF LocalState, Idle, Pcs, Checking, Acting
<1>2. thread' = [thread EXCEPT ![t] = new]
  BY DEF Claim
<1> HIDE DEF new
<1> QED BY <1>1, <1>2 DEF TypeOK, LocalState

\* The three queries, each with what it adds.
LEMMA CountMoves ==
  ASSUME TypeOK, NEW t \in Threads, CountSubmitted(t) \/ CountFailed(t) \/ CountClaimed(t)
  PROVE  /\ thread' \in [Threads -> LocalState]
         /\ \A u \in Threads : u # t => thread'[u] = thread[u]
         /\ thread'[t].row = thread[t].row
         /\ CountSubmitted(t) =>
               /\ thread'[t].pc = "countFailed" /\ thread'[t].known = Recorded
               /\ thread'[t].counted = SubmittedIn(rows) \ {thread[t].row}
         /\ CountFailed(t) =>
               /\ thread'[t].pc = "countClaimed" /\ thread'[t].known = thread[t].known
               /\ thread'[t].counted = thread[t].counted \cup (FailedAfterSubmitIn(rows) \ {thread[t].row})
         /\ CountClaimed(t) =>
               /\ thread'[t].known = thread[t].known \cup (ClaimedIn(rows) \ {thread[t].row})
               /\ \/ thread'[t].pc = "blocking"
                  \/ /\ thread'[t].pc = "acting"
                     /\ Cardinality(thread[t].counted \cup (ClaimedIn(rows) \ {thread[t].row})) < Limit
<1>0. thread \in [Threads -> LocalState] /\ calls \subseteq Actions
  BY DEF TypeOK, LocalState
<1>p. {"countFailed", "countClaimed", "acting", "blocking"} \subseteq Pcs
  BY DEF Pcs, Checking, Acting
<1>1. CASE CountSubmitted(t)
  <2> DEFINE new == [thread[t] EXCEPT !.counted = SubmittedIn(rows) \ {thread[t].row},
                                      !.known = Recorded, !.pc = "countFailed"]
  <2>1. thread' = [thread EXCEPT ![t] = new]
    <3>1. thread' = [thread EXCEPT ![t].counted = SubmittedIn(rows) \ {thread[t].row},
                                   ![t].known = Recorded, ![t].pc = "countFailed"]
      BY <1>1 DEF CountSubmitted
    <3> QED BY <3>1
  <2>2. SubmittedIn(rows) \subseteq Actions /\ Recorded \subseteq Actions
    BY <1>0 DEF SubmittedIn, Recorded
  <2>3. new \in LocalState /\ new.row = thread[t].row /\ new.pc = "countFailed" /\ new.known = Recorded
            /\ new.counted = SubmittedIn(rows) \ {thread[t].row}
    BY <1>0, <1>p, <2>2 DEF LocalState
  <2> HIDE DEF new
  <2>4. ~CountFailed(t) /\ ~CountClaimed(t)
    BY <1>1 DEF CountSubmitted, CountFailed, CountClaimed, At
  <2> QED BY <1>0, <2>1, <2>3, <2>4
<1>2. CASE CountFailed(t)
  <2> DEFINE counted == thread[t].counted \cup (FailedAfterSubmitIn(rows) \ {thread[t].row})
             new == [thread[t] EXCEPT !.counted = counted, !.pc = "countClaimed"]
  <2>1. thread' = [thread EXCEPT ![t] = new]
    BY <1>2 DEF CountFailed
  <2>2. FailedAfterSubmitIn(rows) \subseteq Actions
    BY DEF FailedAfterSubmitIn
  <2>3. new \in LocalState /\ new.row = thread[t].row /\ new.pc = "countClaimed"
            /\ new.known = thread[t].known /\ new.counted = counted
    BY <1>0, <1>p, <2>2 DEF LocalState
  <2> HIDE DEF new
  <2> QED BY <1>0, <1>2, <2>1, <2>3 DEF CountSubmitted, CountFailed, CountClaimed, At
<1>3. CASE CountClaimed(t)
  <2> DEFINE claimed == ClaimedIn(rows) \ {thread[t].row}
             total == thread[t].counted \cup claimed
             new(passed) == [thread[t] EXCEPT !.known = thread[t].known \cup claimed,
                   !.pc = IF passed /\ Cardinality(total) < Limit THEN "acting" ELSE "blocking"]
  <2>1. PICK passed \in BOOLEAN : thread' = [thread EXCEPT ![t] = new(passed)]
    BY <1>3 DEF CountClaimed
  <2>2. claimed \subseteq Actions
    BY DEF ClaimedIn
  <2>3. new(passed) \in LocalState /\ new(passed).row = thread[t].row
            /\ new(passed).known = thread[t].known \cup claimed
            /\ (new(passed).pc = "blocking" \/ (new(passed).pc = "acting" /\ Cardinality(total) < Limit))
    BY <1>0, <1>p, <2>2 DEF LocalState
  <2> HIDE DEF new
  <2> QED BY <1>0, <1>3, <2>1, <2>3 DEF CountSubmitted, CountFailed, CountClaimed, At
<1> QED BY <1>1, <1>2, <1>3

----
\* The rows and calls after a step.

LEMMA RowsAfter ==
  ASSUME TypeOK, HeldRows, [Next]_vars
  PROVE  /\ rows' \in [Actions -> [status : Statuses, pre : BOOLEAN, executed : BOOLEAN, dry : BOOLEAN]]
         /\ calls' \subseteq Actions
         /\ calls \subseteq calls'
<1>0. /\ rows \in [Actions -> [status : Statuses, pre : BOOLEAN, executed : BOOLEAN, dry : BOOLEAN]]
      /\ calls \subseteq Actions
  BY DEF TypeOK
<1>1. CASE UNCHANGED <<rows, calls>>
  BY <1>0, <1>1
<1>2. ASSUME NEW t \in Threads, Act(t) \/ Record(t)
      PROVE  /\ rows' \in [Actions -> [status : Statuses, pre : BOOLEAN, executed : BOOLEAN, dry : BOOLEAN]]
             /\ calls' \subseteq Actions
             /\ calls \subseteq calls'
  <2>1. thread[t].row \in Actions
    BY <1>2 DEF Act, Record, At, HeldRows, Live, ClaimedIn
  <2>2. CASE Act(t)
    <3>1. [rows[thread[t].row] EXCEPT !.pre = TRUE, !.dry = FALSE]
              \in [status : Statuses, pre : BOOLEAN, executed : BOOLEAN, dry : BOOLEAN]
      BY <1>0, <2>1
    <3>2. rows' \in {rows, [rows EXCEPT ![thread[t].row] =
                               [rows[thread[t].row] EXCEPT !.pre = TRUE, !.dry = FALSE]]}
      BY <2>2 DEF Act
    <3>3. calls' \in {calls, calls \cup {thread[t].row}}
      BY <2>2 DEF Act
    <3> QED BY <1>0, <2>1, <3>1, <3>2, <3>3
  <2>3. CASE Record(t)
    <3>1. PICK status \in Statuses, dry \in BOOLEAN :
            rows' = [rows EXCEPT ![thread[t].row] =
                        [rows[thread[t].row] EXCEPT !.executed = TRUE, !.dry = dry, !.status = status]]
      <4> DEFINE pc == thread[t].pc
                 status == CASE pc = "submitting" -> "executing"
                             [] pc \in {"completing", "finishingDry"} -> "completed"
                             [] pc \in {"failing", "blocking"} -> "failed"
                 dry == rows[thread[t].row].dry \/ pc = "finishingDry"
      <4>1. pc \in {"blocking", "finishingDry", "submitting", "completing", "failing"}
        BY <2>3 DEF Record
      <4>2. status \in Statuses
        BY <4>1 DEF Statuses
      <4>3. rows' = [rows EXCEPT ![thread[t].row] =
                        [rows[thread[t].row] EXCEPT !.executed = TRUE, !.dry = dry, !.status = status]]
        <5>1. rows' = [rows EXCEPT ![thread[t].row].executed = TRUE, ![thread[t].row].dry = @ \/ pc = "finishingDry",
                                   ![thread[t].row].status = status]
          BY <2>3 DEF Record
        <5> HIDE DEF status
        <5> QED BY <5>1
      <4>4. dry \in BOOLEAN
        OBVIOUS
      <4> HIDE DEF status, dry
      <4> QED BY <4>2, <4>3, <4>4
    <3>2. [rows[thread[t].row] EXCEPT !.executed = TRUE, !.dry = dry, !.status = status]
              \in [status : Statuses, pre : BOOLEAN, executed : BOOLEAN, dry : BOOLEAN]
      BY <1>0, <2>1, <3>1
    <3>3. UNCHANGED calls
      BY <2>3 DEF Record
    <3> QED BY <1>0, <3>1, <3>2, <3>3
  <2> QED BY <1>2, <2>2, <2>3
<1>3. ASSUME NEW a \in Actions, NEW t \in Threads, Claim(t, a) \/ Verify(a) \/ Sweep(a)
      PROVE  /\ rows' \in [Actions -> [status : Statuses, pre : BOOLEAN, executed : BOOLEAN, dry : BOOLEAN]]
             /\ UNCHANGED calls
  BY <1>0, <1>3 DEF Claim, Verify, Sweep, Statuses
<1> QED BY <1>0, <1>1, <1>2, <1>3, ThreadsAssumption
        DEF Next, vars, CountSubmitted, CountFailed, CountClaimed, Crash

\* How the step of a call that has passed its check, or failed it, changes its row.
LEMMA ActMoves ==
  ASSUME TypeOK, NEW t \in Threads, Act(t)
  PROVE  /\ thread' \in [Threads -> LocalState]
         /\ \A u \in Threads : u # t => thread'[u] = thread[u]
         /\ thread'[t].row = thread[t].row /\ thread'[t].known = thread[t].known
         /\ \/ thread'[t].pc = "finishingDry" /\ UNCHANGED <<rows, calls>>
            \/ /\ thread'[t].pc \in {"submitting", "completing", "failing"}
               /\ rows' = [rows EXCEPT ![thread[t].row].pre = TRUE, ![thread[t].row].dry = FALSE]
               /\ calls' \subseteq calls \cup {thread[t].row}
<1>1. PICK pc \in {"finishingDry", "submitting", "completing", "failing"} :
        /\ Goto(t, pc)
        /\ \/ pc = "finishingDry" /\ UNCHANGED <<rows, calls>>
           \/ /\ pc # "finishingDry"
              /\ rows' = [rows EXCEPT ![thread[t].row].pre = TRUE, ![thread[t].row].dry = FALSE]
              /\ calls' \subseteq calls \cup {thread[t].row}
  BY DEF Act
<1>2. pc \in Pcs
  BY DEF Pcs, Acting
<1> QED BY <1>1, <1>2, GotoMoves

LEMMA CapTypeOK == ASSUME TypeOK, HeldRows, [Next]_vars PROVE TypeOK'
<1>1. thread' \in [Threads -> LocalState]
  <2>1. CASE UNCHANGED thread
    BY <2>1 DEF TypeOK, LocalState
  <2>2. ASSUME NEW t \in Threads, CountSubmitted(t) \/ CountFailed(t) \/ CountClaimed(t)
        PROVE  thread' \in [Threads -> LocalState]
    BY <2>2, CountMoves
  <2>3. ASSUME NEW t \in Threads, Act(t) PROVE thread' \in [Threads -> LocalState]
    BY <2>3, ActMoves
  <2>4. ASSUME NEW t \in Threads, Record(t) \/ Crash(t) PROVE thread' \in [Threads -> LocalState]
    BY <2>4, DoneMoves DEF Record, Crash
  <2>5. ASSUME NEW t \in Threads, NEW a \in Actions, Claim(t, a) PROVE thread' \in [Threads -> LocalState]
    BY <2>5, ClaimMoves
  <2> QED BY <2>1, <2>2, <2>3, <2>4, <2>5 DEF Next, vars, Verify, Sweep
<1>2. faults' \in 0..MaxFaults
  <2>1. faults' = faults \/ (faults < MaxFaults /\ faults' = faults + 1)
    <3>1. ASSUME NEW t \in Threads, CountSubmitted(t) \/ CountFailed(t) \/ CountClaimed(t)
          PROVE  faults' = faults
      BY <3>1 DEF CountSubmitted, CountFailed, CountClaimed
    <3>2. ASSUME NEW t \in Threads, Act(t) PROVE faults' = faults
      BY <3>2 DEF Act
    <3>3. ASSUME NEW t \in Threads, Record(t) PROVE faults' = faults
      BY <3>3 DEF Record
    <3>4. ASSUME NEW t \in Threads, Crash(t) PROVE faults < MaxFaults /\ faults' = faults + 1
      BY <3>4 DEF Crash
    <3>5. ASSUME NEW t \in Threads, NEW a \in Actions, Claim(t, a) PROVE faults' = faults
      BY <3>5 DEF Claim
    <3>6. ASSUME NEW a \in Actions, Verify(a) \/ Sweep(a) PROVE faults' = faults
      BY <3>6 DEF Verify, Sweep
    <3> QED BY <3>1, <3>2, <3>3, <3>4, <3>5, <3>6 DEF Next, vars
  <2> QED BY <2>1, LimitAssumption DEF TypeOK
<1> QED BY <1>1, <1>2, RowsAfter DEF TypeOK, LocalState

\* Claims are exclusive: compare-and-swap into `executing`, and only the holder records an outcome.
LEMMA CapHeldRows == ASSUME CapInv, [Next]_vars PROVE HeldRows'
<1>0. /\ TypeOK /\ HeldRows /\ CallsAreReal
      /\ \A t \in Threads : Live(t) => thread[t].row \in Actions /\ rows[thread[t].row].status = "executing"
                                           /\ ~rows[thread[t].row].executed
  BY DEF CapInv, HeldRows, ClaimedIn
<1>1. ASSUME NEW t \in Threads,
             \A u \in Threads : u # t => thread'[u] = thread[u],
             thread'[t].row = thread[t].row, Live(t),
             thread'[t].pc \in BeforeCall => thread[t].pc \in BeforeCall /\ UNCHANGED calls,
             ClaimedIn(rows) \subseteq ClaimedIn(rows'),
             calls' \subseteq calls \cup {thread[t].row}
      PROVE  HeldRows'
  BY <1>0, <1>1 DEF HeldRows, Live
<1>2. CASE UNCHANGED vars
  BY <1>0, <1>2 DEF vars, HeldRows, Live, ClaimedIn
<1>3. ASSUME NEW t \in Threads, CountSubmitted(t) \/ CountFailed(t) \/ CountClaimed(t) PROVE HeldRows'
  <2>1. Live(t) /\ thread[t].pc \in BeforeCall /\ UNCHANGED <<rows, calls>>
    BY <1>3 DEF CountSubmitted, CountFailed, CountClaimed, At, Live, BeforeCall, Checking
  <2> QED BY <1>0, <1>1, <1>3, <2>1, CountMoves
<1>4. ASSUME NEW t \in Threads, Act(t) PROVE HeldRows'
  <2>1. Live(t) /\ thread[t].pc \in BeforeCall
    BY <1>4 DEF Act, At, Live, BeforeCall
  <2>2. /\ \A u \in Threads : u # t => thread'[u] = thread[u]
        /\ thread'[t].row = thread[t].row
        /\ \/ thread'[t].pc = "finishingDry" /\ UNCHANGED <<rows, calls>>
           \/ /\ thread'[t].pc \in {"submitting", "completing", "failing"}
              /\ rows' = [rows EXCEPT ![thread[t].row].pre = TRUE, ![thread[t].row].dry = FALSE]
              /\ calls' \subseteq calls \cup {thread[t].row}
    BY <1>0, <1>4, ActMoves
  <2>3. CASE thread'[t].pc = "finishingDry" /\ UNCHANGED <<rows, calls>>
    BY <1>1, <2>1, <2>2, <2>3
  <2>4. CASE /\ thread'[t].pc \in {"submitting", "completing", "failing"}
             /\ rows' = [rows EXCEPT ![thread[t].row].pre = TRUE, ![thread[t].row].dry = FALSE]
             /\ calls' \subseteq calls \cup {thread[t].row}
    <3>1. \A a \in Actions : rows'[a].status = rows[a].status /\ rows'[a].executed = rows[a].executed
      BY <1>0, <2>4 DEF TypeOK
    <3>2. ClaimedIn(rows) \subseteq ClaimedIn(rows')
      BY <3>1 DEF ClaimedIn
    <3>3. thread'[t].pc \notin BeforeCall
      BY <2>4 DEF BeforeCall, Checking
    <3> QED BY <1>1, <2>1, <2>2, <2>4, <3>2, <3>3
  <2> QED BY <2>2, <2>3, <2>4
<1>5. ASSUME NEW t \in Threads, Record(t) PROVE HeldRows'
  <2>1. /\ \A u \in Threads : u # t => thread'[u] = thread[u]
        /\ thread'[t].pc = "idle" /\ Live(t)
        /\ \A a \in Actions : a # thread[t].row => rows'[a] = rows[a]
        /\ UNCHANGED calls
    BY <1>0, <1>5, DoneMoves DEF Record, Live, TypeOK
  <2>2. ASSUME NEW u \in Threads, u # t, Live(u) PROVE thread[u].row \in ClaimedIn(rows')
    BY <1>0, <2>1, <2>2 DEF HeldRows, ClaimedIn
  <2> QED BY <1>0, <2>1, <2>2 DEF HeldRows, Live
<1>6. ASSUME NEW t \in Threads, Crash(t) PROVE HeldRows'
  <2>1. /\ \A u \in Threads : u # t => thread'[u] = thread[u]
        /\ thread'[t].pc = "idle" /\ UNCHANGED <<rows, calls>>
    BY <1>0, <1>6, DoneMoves DEF Crash
  <2> QED BY <1>0, <2>1 DEF HeldRows, Live
<1>7. ASSUME NEW t \in Threads, NEW a \in Actions, Claim(t, a) PROVE HeldRows'
  <2>1. /\ \A u \in Threads : u # t => thread'[u] = thread[u]
        /\ thread'[t].row = a /\ UNCHANGED calls
        /\ rows[a].status = "approved" /\ rows' = [rows EXCEPT ![a].status = "executing"]
    BY <1>0, <1>7, ClaimMoves DEF Claim
  <2>2. a \notin calls /\ \A u \in Threads : Live(u) => thread[u].row # a
    BY <1>0, <2>1 DEF CallsAreReal
  <2>3. \A b \in Actions : b # a => rows'[b] = rows[b]
    BY <1>0, <2>1 DEF TypeOK
  <2>4. a \in ClaimedIn(rows')
    <3>1. rows'[a].status = "executing" /\ rows'[a].executed = rows[a].executed
      BY <1>0, <2>1 DEF TypeOK
    <3>2. ~rows[a].executed
      BY <1>0, <2>1 DEF CapInv, ApprovedAreFresh
    <3> QED BY <3>1, <3>2 DEF ClaimedIn
  <2>5. \A u \in Threads : u # t /\ Live(u) => thread[u].row \in ClaimedIn(rows')
    BY <1>0, <2>2, <2>3 DEF ClaimedIn
  <2>6. ASSUME NEW u \in Threads, Live(u)', u # t
        PROVE  /\ thread'[u].row \in ClaimedIn(rows')
               /\ thread'[u].pc \in BeforeCall => thread'[u].row \notin calls'
               /\ \A v \in Threads : Live(v)' /\ thread'[v].row = thread'[u].row => v = u
    <3>1. thread'[u] = thread[u] /\ Live(u) /\ thread[u].row # a
      BY <2>1, <2>2, <2>6 DEF Live
    <3>2. thread'[u].row \in ClaimedIn(rows')
      BY <2>5, <2>6, <3>1
    <3>3. thread[u].pc \in BeforeCall => thread[u].row \notin calls
      BY <1>0, <3>1 DEF HeldRows
    <3>4. ASSUME NEW v \in Threads, Live(v)', thread'[v].row = thread'[u].row PROVE v = u
      <4>1. v # t
        BY <2>1, <3>1, <3>4
      <4>2. thread'[v] = thread[v] /\ Live(v)
        BY <2>1, <3>4, <4>1 DEF Live
      <4> QED BY <1>0, <3>1, <3>4, <4>2 DEF HeldRows
    <3> QED BY <2>1, <3>1, <3>2, <3>3, <3>4
  <2>7. \A v \in Threads : Live(v)' /\ thread'[v].row = thread'[t].row => v = t
    BY <2>1, <2>2 DEF Live
  <2>8. /\ thread'[t].row \in ClaimedIn(rows')
        /\ thread'[t].row \notin calls'
    BY <2>1, <2>2, <2>4
  <2> QED BY <2>6, <2>7, <2>8 DEF HeldRows
<1>8. ASSUME NEW a \in Actions, Verify(a) \/ Sweep(a) PROVE HeldRows'
  <2>1. /\ \A t \in Threads : Live(t) => thread[t].row # a
        /\ \A b \in Actions : b # a => rows'[b] = rows[b]
        /\ UNCHANGED <<thread, calls>>
    BY <1>0, <1>8 DEF Verify, Sweep, TypeOK, HeldRows, ClaimedIn
  <2>2. \A t \in Threads : Live(t) => thread[t].row \in ClaimedIn(rows')
    BY <1>0, <2>1 DEF ClaimedIn
  <2> QED BY <1>0, <2>1, <2>2 DEF HeldRows, Live
<1> QED BY <1>2, <1>3, <1>4, <1>5, <1>6, <1>7, <1>8 DEF Next

LEMMA CapRows == ASSUME CapInv, [Next]_vars PROVE ApprovedAreFresh' /\ CallsAreReal'
<1>0. TypeOK /\ HeldRows /\ ApprovedAreFresh /\ CallsAreReal
  BY DEF CapInv
<1>1. CASE UNCHANGED <<rows, calls>>
  BY <1>0, <1>1 DEF ApprovedAreFresh, CallsAreReal
<1>2. ASSUME NEW t \in Threads, Act(t) PROVE ApprovedAreFresh' /\ CallsAreReal'
  <2>1. thread[t].row \in Actions /\ rows[thread[t].row].status = "executing"
    BY <1>0, <1>2 DEF Act, At, HeldRows, Live, ClaimedIn
  <2>2. CASE /\ rows' = [rows EXCEPT ![thread[t].row].pre = TRUE, ![thread[t].row].dry = FALSE]
             /\ calls' \subseteq calls \cup {thread[t].row}
    <3>1. /\ rows'[thread[t].row].pre /\ ~rows'[thread[t].row].dry
          /\ rows'[thread[t].row].status = "executing"
          /\ \A a \in Actions : a # thread[t].row => rows'[a] = rows[a]
      BY <1>0, <2>1, <2>2 DEF TypeOK
    <3>2. calls \subseteq Actions
      BY <1>0 DEF TypeOK
    <3>3. CallsAreReal'
      BY <1>0, <2>2, <3>1, <3>2 DEF CallsAreReal
    <3>4. ApprovedAreFresh'
      BY <1>0, <3>1 DEF ApprovedAreFresh
    <3> QED BY <3>3, <3>4
  <2> QED BY <1>0, <1>1, <1>2, <2>2, ActMoves
<1>3. ASSUME NEW t \in Threads, Record(t) PROVE ApprovedAreFresh' /\ CallsAreReal'
  <2> DEFINE a == thread[t].row
             pc == thread[t].pc
  <2>1. a \in Actions /\ UNCHANGED calls
    BY <1>0, <1>3 DEF Record, HeldRows, Live, ClaimedIn
  <2>2. pc \in {"blocking", "finishingDry"} => a \notin calls
    BY <1>0, <1>3 DEF HeldRows, Live, BeforeCall
  <2>3. /\ rows'[a].pre = rows[a].pre
        /\ rows'[a].dry = (rows[a].dry \/ pc = "finishingDry")
        /\ rows'[a].status # "approved"
        /\ \A b \in Actions : b # a => rows'[b] = rows[b]
    BY <1>0, <1>3, <2>1 DEF Record, TypeOK
  <2>4. CallsAreReal'
    <3>1. calls \subseteq Actions
      BY <1>0 DEF TypeOK
    <3>2. a \in calls => rows'[a].pre /\ ~rows'[a].dry
      BY <1>0, <2>2, <2>3 DEF CallsAreReal
    <3> QED BY <1>0, <2>1, <2>3, <3>1, <3>2 DEF CallsAreReal
  <2>5. ApprovedAreFresh'
    BY <1>0, <2>3 DEF ApprovedAreFresh
  <2> QED BY <2>4, <2>5
<1>4. ASSUME NEW t \in Threads, NEW a \in Actions, Claim(t, a) \/ Verify(a) \/ Sweep(a)
      PROVE  ApprovedAreFresh' /\ CallsAreReal'
  <2>1. PICK status \in {"executing", "completed", "failed"} : rows' = [rows EXCEPT ![a].status = status]
    BY <1>4 DEF Claim, Verify, Sweep
  <2>2. UNCHANGED calls /\ calls \subseteq Actions
    BY <1>0, <1>4 DEF Claim, Verify, Sweep, TypeOK
  <2>3. /\ rows'[a].pre = rows[a].pre /\ rows'[a].dry = rows[a].dry /\ rows'[a].status # "approved"
        /\ \A b \in Actions : b # a => rows'[b] = rows[b]
    BY <1>0, <2>1 DEF TypeOK
  <2> QED BY <1>0, <2>2, <2>3 DEF ApprovedAreFresh, CallsAreReal
<1> QED BY <1>1, <1>2, <1>3, <1>4, ThreadsAssumption
        DEF Next, vars, CountSubmitted, CountFailed, CountClaimed, Crash

\* What was on record when the count began stays within what is counted.
LEMMA CapCounting == ASSUME CapInv, [Next]_vars PROVE Counting'
<1>0. TypeOK /\ HeldRows /\ CallsAreReal /\ Counting
  BY DEF CapInv
<1>f. FailedAfterSubmitIn(rows) \subseteq FailedAfterSubmitIn(rows')
  BY FailuresStay
<1>m. ASSUME NEW t \in Threads,
             \A u \in Threads : u # t => thread'[u] = thread[u],
             thread'[t].pc \notin {"countFailed", "countClaimed"}
      PROVE  Counting'
  BY <1>0, <1>f, <1>m DEF Counting
<1>1. CASE UNCHANGED thread
  BY <1>0, <1>1, <1>f DEF Counting
<1>2. ASSUME NEW t \in Threads, CountSubmitted(t) PROVE Counting'
  <2>1. /\ \A u \in Threads : u # t => thread'[u] = thread[u]
        /\ thread'[t].pc = "countFailed" /\ thread'[t].known = Recorded
        /\ thread'[t].row = thread[t].row
        /\ thread'[t].counted = SubmittedIn(rows) \ {thread[t].row}
        /\ UNCHANGED rows
    BY <1>0, <1>2, CountMoves DEF CountSubmitted
  <2>2. thread[t].row \notin Recorded
    BY <1>0, <1>2 DEF CountSubmitted, At, HeldRows, Live, ClaimedIn, Recorded
  <2>3. Recorded \subseteq SubmittedIn(rows) \cup FailedAfterSubmitIn(rows)
    <3>1. \A a \in Recorded : /\ a \in Actions /\ rows[a].pre /\ ~rows[a].dry /\ rows[a].executed
                              /\ rows[a].status \in {"executing", "completed", "failed"}
      BY <1>0 DEF CallsAreReal, Recorded, TypeOK, Statuses
    <3> QED BY <3>1 DEF SubmittedIn, FailedAfterSubmitIn
  <2> QED BY <1>0, <1>f, <2>1, <2>2, <2>3 DEF Counting
<1>3. ASSUME NEW t \in Threads, CountFailed(t) PROVE Counting'
  <2>1. /\ \A u \in Threads : u # t => thread'[u] = thread[u]
        /\ thread'[t].pc = "countClaimed" /\ thread'[t].known = thread[t].known
        /\ thread'[t].row = thread[t].row
        /\ thread'[t].counted = thread[t].counted \cup (FailedAfterSubmitIn(rows) \ {thread[t].row})
    BY <1>0, <1>3, CountMoves
  <2>2. /\ thread[t].known \subseteq thread[t].counted \cup FailedAfterSubmitIn(rows)
        /\ thread[t].row \notin thread[t].known
    BY <1>0, <1>3 DEF CountFailed, At, Counting
  <2> QED BY <1>0, <1>f, <2>1, <2>2 DEF Counting
<1>4. ASSUME NEW t \in Threads, CountClaimed(t) PROVE Counting'
  BY <1>0, <1>4, <1>m, CountMoves
<1>5. ASSUME NEW t \in Threads, Act(t) PROVE Counting'
  BY <1>0, <1>5, <1>m, ActMoves
<1>6. ASSUME NEW t \in Threads, Record(t) \/ Crash(t) PROVE Counting'
  BY <1>0, <1>6, <1>m, DoneMoves DEF Record, Crash
<1>7. ASSUME NEW t \in Threads, NEW a \in Actions, Claim(t, a) PROVE Counting'
  BY <1>0, <1>7, <1>m, ClaimMoves
<1> QED BY <1>1, <1>2, <1>3, <1>4, <1>5, <1>6, <1>7 DEF Next, vars, Verify, Sweep

\* The comparison with the cap covers what was on record and what was claimed.
LEMMA CapSlip == ASSUME CapInv, [Next]_vars PROVE OnlyMovingRowsSlip'
<1>0. TypeOK /\ Counting /\ OnlyMovingRowsSlip
  BY DEF CapInv
<1>m. ASSUME NEW t \in Threads,
             \A u \in Threads : u # t => thread'[u] = thread[u],
             \/ thread'[t].pc \notin Acting
             \/ thread'[t].row \in Recommendations
             \/ Cardinality(thread'[t].known) < Limit
      PROVE  OnlyMovingRowsSlip'
  BY <1>0, <1>m DEF OnlyMovingRowsSlip
<1>1. CASE UNCHANGED thread
  BY <1>0, <1>1 DEF OnlyMovingRowsSlip
<1>2. ASSUME NEW t \in Threads, CountSubmitted(t) \/ CountFailed(t) PROVE OnlyMovingRowsSlip'
  BY <1>0, <1>2, <1>m, CountMoves DEF Acting
<1>3. ASSUME NEW t \in Threads, CountClaimed(t) PROVE OnlyMovingRowsSlip'
  <2> DEFINE claimed == ClaimedIn(rows) \ {thread[t].row}
             total == thread[t].counted \cup claimed
  <2>1. /\ \A u \in Threads : u # t => thread'[u] = thread[u]
        /\ thread'[t].known = thread[t].known \cup claimed
        /\ \/ thread'[t].pc = "blocking"
           \/ thread'[t].pc = "acting" /\ Cardinality(total) < Limit
    BY <1>0, <1>3, CountMoves
  <2>2. thread[t].known \subseteq thread[t].counted
    BY <1>0, <1>3 DEF CountClaimed, At, Counting
  <2>3. total \subseteq Actions
    BY <1>0 DEF TypeOK, ClaimedIn
  <2>4. IsFiniteSet(total)
    BY <2>3, ActionsAssumption, FS_Subset
  <2>5. /\ Cardinality(thread'[t].known) <= Cardinality(total)
        /\ Cardinality(thread'[t].known) \in Nat /\ Cardinality(total) \in Nat
    <3>1. thread'[t].known \in SUBSET total
      BY <2>1, <2>2
    <3>2. IsFiniteSet(thread'[t].known) /\ Cardinality(thread'[t].known) <= Cardinality(total)
      BY <2>4, <3>1, FS_Subset
    <3> QED BY <2>4, <3>2, FS_CardinalityType
  <2>6. Cardinality(total) < Limit => Cardinality(thread'[t].known) < Limit
    BY <2>5, LimitAssumption
  <2>7. CASE thread'[t].pc = "blocking"
    BY <1>m, <2>1, <2>7 DEF Acting
  <2>8. CASE Cardinality(total) < Limit
    BY <1>m, <2>1, <2>6, <2>8
  <2> QED BY <2>1, <2>7, <2>8
<1>4. ASSUME NEW t \in Threads, Act(t) PROVE OnlyMovingRowsSlip'
  <2>1. At(t, "acting")
    BY <1>4 DEF Act
  <2>2. thread[t].row \in Recommendations \/ Cardinality(thread[t].known) < Limit
    BY <1>0, <2>1 DEF OnlyMovingRowsSlip, At, Acting
  <2> QED BY <1>0, <1>4, <1>m, <2>2, ActMoves
<1>5. ASSUME NEW t \in Threads, Record(t) \/ Crash(t) PROVE OnlyMovingRowsSlip'
  BY <1>0, <1>5, <1>m, DoneMoves DEF Record, Crash, Acting
<1>6. ASSUME NEW t \in Threads, NEW a \in Actions, Claim(t, a) PROVE OnlyMovingRowsSlip'
  BY <1>0, <1>6, <1>m, ClaimMoves DEF Acting
<1> QED BY <1>1, <1>2, <1>3, <1>4, <1>5, <1>6 DEF Next, vars, Verify, Sweep

LEMMA CapInductive == Spec => []CapInv
<1>1. CapInv /\ [Next]_vars => CapInv'
  BY CapTypeOK, CapHeldRows, CapRows, CapCounting, CapSlip DEF CapInv
<1> QED BY <1>1, CapInit, PTL DEF Spec

\* No column of a row, no set of a count and no local state leaves its range.
THEOREM CapTypeCorrect == Spec => []TypeOK
<1>1. CapInv => TypeOK
  BY DEF CapInv
<1> QED BY <1>1, CapInductive, PTL

\* The three queries of _real_executions_since together miss no action that was on record when the
\* first ran, nor one still claimed when the last ran, for any cap and any number of executions.
THEOREM CountMissesOnlyMovingRows == Spec => []OnlyMovingRowsSlip
<1>1. CapInv => OnlyMovingRowsSlip
  BY DEF CapInv
<1> QED BY <1>1, CapInductive, PTL

----
(***************************************************************************)
(* The overshoot.  Rank the executions by when they began to count.  Of    *)
(* those that passed the check take the one that began last: what was on   *)
(* record when it began, or claimed when it ended, is below the cap.  Any  *)
(* other call is of an execution that was under way when it began, at most *)
(* one for each other thread, or was lost in a crash.  So the calls, with  *)
(* those that the older executions may still make, stay within the bound.  *)
(***************************************************************************)

CountingNow(t) == thread[t].pc \in {"countFailed", "countClaimed"}
Fresh(t) == thread[t].pc \in {"idle", "countSubmitted"}      \* has not begun to count
Older(rank, k) == {u \in Threads : ~Fresh(u) /\ rank[u] <= k}

\* The calls made, with those that executions of rank k and below may still make.
Possible(rank, k) == calls \cup ({thread[u].row : u \in Older(rank, k)} \ Recommendations)

\* Calls that no execution will put on record.
Lost == {a \in calls : ~rows[a].executed /\ \A t \in Threads : Live(t) => thread[t].row # a}

Bound == Limit + (Cardinality(Threads) - 1) + faults

\* `last` is the rank of the youngest execution that passed, `now` that of the youngest of all.
Ordered(rank, last, now) ==
    /\ last <= now /\ \A t \in Threads : rank[t] <= now
    /\ Cardinality(Possible(rank, last)) <= Bound
    /\ \A t \in Threads : thread[t].pc \in Acting /\ thread[t].row \notin Recommendations => rank[t] <= last
    /\ \A t \in Threads : CountingNow(t) /\ last < rank[t] =>
          Cardinality(Possible(rank, rank[t]) \ thread[t].known) <= Cardinality(Threads) + faults

Ranking == \E rank \in [Threads -> Nat], last \in Nat, now \in Nat : Ordered(rank, last, now)
FewLost == Cardinality(Lost) <= faults

LEMMA SmallerIsFewer ==
    ASSUME NEW T, IsFiniteSet(T), NEW S, S \subseteq T
    PROVE  IsFiniteSet(S) /\ Cardinality(S) \in Nat /\ Cardinality(T) \in Nat /\ Cardinality(S) <= Cardinality(T)
<1>1. S \in SUBSET T
  OBVIOUS
<1> QED BY <1>1, FS_Subset, FS_CardinalityType

LEMMA UnionIsAtMost ==
    ASSUME NEW S, IsFiniteSet(S), NEW T, IsFiniteSet(T), NEW U, U \subseteq S \cup T
    PROVE  /\ IsFiniteSet(U) /\ Cardinality(U) \in Nat /\ Cardinality(S) \in Nat /\ Cardinality(T) \in Nat
           /\ Cardinality(U) <= Cardinality(S) + Cardinality(T)
<1>1. IsFiniteSet(S \cup T) /\ Cardinality(S \cup T) = Cardinality(S) + Cardinality(T) - Cardinality(S \cap T)
  BY FS_Union
<1>2. Cardinality(S) \in Nat /\ Cardinality(T) \in Nat /\ Cardinality(S \cap T) \in Nat
  BY SmallerIsFewer, FS_CardinalityType
<1>3. /\ IsFiniteSet(U) /\ Cardinality(U) \in Nat
      /\ Cardinality(S \cup T) \in Nat /\ Cardinality(U) <= Cardinality(S \cup T)
  BY <1>1, SmallerIsFewer
<1> QED BY <1>1, <1>2, <1>3

\* The rows the threads hold are no more than the threads.
LEMMA HeldAreFew ==
    LET held == {thread[u].row : u \in Threads} IN
    IsFiniteSet(held) /\ Cardinality(held) \in Nat /\ Cardinality(held) <= Cardinality(Threads)
<1> DEFINE held == {thread[u].row : u \in Threads}
           f == [u \in Threads |-> thread[u].row]
<1>1. f \in Surjection(Threads, held)
  BY DEF Surjection
<1>2. IsFiniteSet(held) /\ Cardinality(held) <= Cardinality(Threads)
  BY <1>1, ThreadsAssumption, FS_Surjection
<1> QED BY <1>2, FS_CardinalityType

LEMMA PossibleIsFinite ==
    ASSUME CapInv, NEW rank, NEW k
    PROVE  Possible(rank, k) \subseteq Actions /\ IsFiniteSet(Possible(rank, k))
<1>1. \A u \in Threads : ~Fresh(u) => thread[u].row \in Actions
  BY DEF CapInv, HeldRows, Live, Fresh, ClaimedIn
<1>2. calls \subseteq Actions
  BY DEF CapInv, TypeOK
<1>3. Possible(rank, k) \subseteq Actions
  BY <1>1, <1>2 DEF Possible, Older
<1> QED BY <1>3, SmallerIsFewer, ActionsAssumption

LEMMA FaultsGrow ==
    ASSUME CapInv, [Next]_vars
    PROVE  /\ faults \in Nat /\ faults' \in Nat /\ faults <= faults'
           /\ \A t \in Threads : Crash(t) => faults' = faults + 1
<1>1. faults \in Nat
  BY LimitAssumption DEF CapInv, TypeOK
<1>2. CASE UNCHANGED vars
  BY <1>1, <1>2 DEF vars, Crash
<1>3. CASE Next
  <2>1. faults' = faults \/ faults' = faults + 1
    BY <1>3 DEF Next, CountSubmitted, CountFailed, CountClaimed, Act, Record, Crash, Claim, Verify, Sweep
  <2> QED BY <1>1, <2>1 DEF Crash
<1> QED BY <1>2, <1>3

\* Only a crash loses a call, and one at most.
LEMMA LosesFew == ASSUME CapInv, CapInv', FewLost, [Next]_vars PROVE FewLost'
<1>0. /\ TypeOK /\ HeldRows /\ calls \subseteq Actions /\ calls' \subseteq Actions
      /\ IsFiniteSet(Lost) /\ Cardinality(Lost) \in Nat
      /\ faults \in Nat /\ faults' \in Nat /\ faults <= faults' /\ Cardinality(Lost) <= faults
  <2>1. calls \subseteq Actions /\ calls' \subseteq Actions /\ Lost \subseteq calls
    BY DEF CapInv, TypeOK, Lost
  <2>2. IsFiniteSet(Lost)
    BY <2>1, ActionsAssumption, SmallerIsFewer
  <2> QED BY <2>1, <2>2, FaultsGrow, FS_CardinalityType DEF CapInv, FewLost
<1>1. ASSUME Lost' \subseteq Lost PROVE FewLost'
  <2>1. Cardinality(Lost') \in Nat /\ Cardinality(Lost') <= Cardinality(Lost)
    BY <1>0, <1>1, SmallerIsFewer
  <2> QED BY <1>0, <2>1 DEF FewLost
<1>2. CASE UNCHANGED vars
  BY <1>1, <1>2 DEF Lost, Live, vars
<1>3. ASSUME NEW t \in Threads, CountSubmitted(t) \/ CountFailed(t) \/ CountClaimed(t) PROVE FewLost'
  <2>1. Live(t)' => Live(t)
    BY <1>3 DEF CountSubmitted, CountFailed, CountClaimed, At, Live
  <2>2. Live(t)
    BY <1>3 DEF CountSubmitted, CountFailed, CountClaimed, At, Live
  <2>3. /\ \A u \in Threads : u # t => thread'[u] = thread[u]
        /\ thread'[t].row = thread[t].row /\ thread'[t].pc # "idle"
        /\ UNCHANGED <<rows, calls>>
    BY <1>0, <1>3, CountMoves DEF CountSubmitted, CountFailed, CountClaimed
  <2> QED BY <1>1, <2>2, <2>3 DEF Lost, Live
<1>4. ASSUME NEW t \in Threads, Act(t) PROVE FewLost'
  <2>1. /\ \A u \in Threads : u # t => thread'[u] = thread[u]
        /\ thread'[t].row = thread[t].row /\ thread'[t].pc # "idle"
        /\ calls' \subseteq calls \cup {thread[t].row}
    BY <1>0, <1>4, ActMoves
  <2>2. Live(t)
    BY <1>4 DEF Act, At, Live
  <2>3. \A a \in Actions : a # thread[t].row => rows'[a] = rows[a]
    BY <1>0, <1>4, ActMoves DEF TypeOK
  <2> QED BY <1>0, <1>1, <2>1, <2>2, <2>3 DEF Lost, Live
<1>5. ASSUME NEW t \in Threads, Record(t) PROVE FewLost'
  <2>1. /\ \A u \in Threads : u # t => thread'[u] = thread[u]
        /\ UNCHANGED calls
    BY <1>0, <1>5, DoneMoves DEF Record
  <2>2. thread[t].row \in Actions
    BY <1>0, <1>5 DEF Record, HeldRows, Live, ClaimedIn
  <2>3. /\ rows'[thread[t].row].executed
        /\ \A a \in Actions : a # thread[t].row => rows'[a] = rows[a]
    BY <1>0, <1>5, <2>2 DEF Record, TypeOK
  <2> QED BY <1>0, <1>1, <2>1, <2>3 DEF Lost, Live
<1>6. ASSUME NEW t \in Threads, Crash(t) PROVE FewLost'
  <2>1. /\ \A u \in Threads : u # t => thread'[u] = thread[u]
        /\ UNCHANGED <<rows, calls>>
    BY <1>0, <1>6, DoneMoves DEF Crash
  <2>2. Lost' \subseteq Lost \cup {thread[t].row}
    BY <2>1 DEF Lost, Live
  <2>3. Cardinality(Lost') \in Nat /\ Cardinality(Lost') <= Cardinality(Lost) + 1
    <3>1. IsFiniteSet({thread[t].row}) /\ Cardinality({thread[t].row}) = 1
      BY FS_Singleton
    <3>2. /\ Cardinality(Lost') \in Nat
          /\ Cardinality(Lost') <= Cardinality(Lost) + Cardinality({thread[t].row})
      BY <1>0, <2>2, <3>1, UnionIsAtMost
    <3> QED BY <3>1, <3>2
  <2>4. faults' = faults + 1
    BY <1>6, FaultsGrow
  <2> QED BY <1>0, <2>3, <2>4 DEF FewLost
<1>7. ASSUME NEW t \in Threads, NEW a \in Actions, Claim(t, a) PROVE FewLost'
  <2>1. /\ \A u \in Threads : u # t => thread'[u] = thread[u]
        /\ UNCHANGED calls /\ ~Live(t)
    BY <1>0, <1>7, ClaimMoves DEF Claim, At, Live
  <2>2. \A b \in Actions : rows'[b].executed = rows[b].executed
    BY <1>0, <1>7 DEF Claim, TypeOK
  <2> QED BY <1>0, <1>1, <2>1, <2>2 DEF Lost, Live
<1>8. ASSUME NEW a \in Actions, Verify(a) \/ Sweep(a) PROVE FewLost'
  <2>1. UNCHANGED <<thread, calls>>
    BY <1>8 DEF Verify, Sweep
  <2>2. \A b \in Actions : rows'[b].executed = rows[b].executed
    <3>1. PICK status \in Statuses : rows' = [rows EXCEPT ![a].status = status]
      BY <1>8 DEF Verify, Sweep, Statuses
    <3> QED BY <1>0, <3>1 DEF TypeOK
  <2> QED BY <1>0, <1>1, <2>1, <2>2 DEF Lost, Live
<1> QED BY <1>2, <1>3, <1>4, <1>5, <1>6, <1>7, <1>8 DEF Next

\* A step that adds no call beyond those possible, and starts or passes no count, keeps the ranking.
LEMMA RankingKept ==
    ASSUME CapInv, CapInv', [Next]_vars, NEW rank \in [Threads -> Nat], NEW last \in Nat, NEW now \in Nat,
           Ordered(rank, last, now),
           \A k \in Nat : last <= k => Possible(rank, k)' \subseteq Possible(rank, k),
           \A t \in Threads : (thread[t].pc \in Acting /\ thread[t].row \notin Recommendations)' => rank[t] <= last,
           \A t \in Threads : CountingNow(t)' => CountingNow(t) /\ thread'[t].known = thread[t].known
    PROVE  Ordered(rank, last, now)'
<1>0. /\ faults \in Nat /\ faults' \in Nat /\ faults <= faults' /\ Limit \in Nat
      /\ Cardinality(Threads) \in Nat /\ Bound \in Int /\ Bound' \in Int /\ Bound <= Bound'
  BY FaultsGrow, LimitAssumption, ThreadsAssumption, FS_CardinalityType DEF Bound
<1>1. (Cardinality(Possible(rank, last)) <= Bound)'
  <2>1. IsFiniteSet(Possible(rank, last)) /\ Possible(rank, last)' \subseteq Possible(rank, last)
    BY PossibleIsFinite
  <2>2. /\ Cardinality(Possible(rank, last)') \in Nat /\ Cardinality(Possible(rank, last)) \in Nat
        /\ Cardinality(Possible(rank, last)') <= Cardinality(Possible(rank, last))
    BY <2>1, SmallerIsFewer
  <2> QED BY <1>0, <2>2 DEF Ordered
<1>2. ASSUME NEW t \in Threads, CountingNow(t)', last < rank[t]
      PROVE  (Cardinality(Possible(rank, rank[t]) \ thread[t].known) <= Cardinality(Threads) + faults)'
  <2> DEFINE before == Possible(rank, rank[t]) \ thread[t].known
             after == Possible(rank, rank[t])' \ thread'[t].known
  <2>1. IsFiniteSet(before) /\ after \subseteq before
    <3>1. IsFiniteSet(Possible(rank, rank[t]))
      BY PossibleIsFinite
    <3> QED BY <1>2, <3>1, SmallerIsFewer
  <2>2. Cardinality(after) \in Nat /\ Cardinality(before) \in Nat /\ Cardinality(after) <= Cardinality(before)
    BY <2>1, SmallerIsFewer
  <2>3. Cardinality(before) <= Cardinality(Threads) + faults
    BY <1>2 DEF Ordered
  <2> QED BY <1>0, <2>2, <2>3
<1> QED BY <1>1, <1>2 DEF Ordered

\* A count that begins is the youngest: what is not on record yet is held by some execution or lost.
LEMMA BeginsYoungest ==
    ASSUME CapInv, CapInv', FewLost, [Next]_vars, NEW rank \in [Threads -> Nat], NEW last \in Nat,
           NEW now \in Nat, Ordered(rank, last, now), NEW t \in Threads, CountSubmitted(t)
    PROVE  Ordered([rank EXCEPT ![t] = now + 1], last, now + 1)'
<1> DEFINE rank2 == [rank EXCEPT ![t] = now + 1]
<1>0. /\ rank2 \in [Threads -> Nat] /\ rank2[t] = now + 1
      /\ \A u \in Threads : u # t => rank2[u] = rank[u]
      /\ \A u \in Threads : rank[u] <= now
      /\ last <= now
  BY DEF Ordered
<1>1. /\ \A u \in Threads : u # t => thread'[u] = thread[u]
      /\ thread'[t].pc = "countFailed" /\ thread'[t].row = thread[t].row /\ thread'[t].known = Recorded
      /\ thread[t].pc = "countSubmitted" /\ UNCHANGED <<rows, calls, faults>>
  BY CountMoves DEF CapInv, CountSubmitted, At
<1> HIDE DEF rank2
<1>2. ASSUME NEW k \in Nat, k <= now PROVE Possible(rank2, k)' \subseteq Possible(rank, k)
  <2>1. ASSUME NEW u \in Threads, ~Fresh(u)', rank2[u] <= k
        PROVE  u # t /\ ~Fresh(u) /\ rank[u] <= k /\ thread'[u] = thread[u]
    BY <1>0, <1>1, <1>2, <2>1 DEF Fresh
  <2> QED BY <1>1, <2>1 DEF Possible, Older
<1>3. (last <= now + 1) /\ \A u \in Threads : rank2[u] <= now + 1
  BY <1>0
<1>4. (Cardinality(Possible(rank2, last)) <= Bound)'
  <2>1. IsFiniteSet(Possible(rank, last)) /\ Possible(rank2, last)' \subseteq Possible(rank, last)
    BY <1>0, <1>2, PossibleIsFinite
  <2>2. /\ Cardinality(Possible(rank2, last)') \in Nat /\ Cardinality(Possible(rank, last)) \in Nat
        /\ Cardinality(Possible(rank2, last)') <= Cardinality(Possible(rank, last))
    BY <2>1, SmallerIsFewer
  <2>3. /\ Bound \in Int /\ Bound' = Bound
    BY <1>1, FaultsGrow, LimitAssumption, ThreadsAssumption, FS_CardinalityType DEF Bound
  <2> QED BY <2>2, <2>3 DEF Ordered
<1>5. \A u \in Threads : (thread[u].pc \in Acting /\ thread[u].row \notin Recommendations)' => rank2[u] <= last
  BY <1>0, <1>1 DEF Ordered, Acting
<1>6. ASSUME NEW u \in Threads, CountingNow(u)', last < rank2[u]
      PROVE  (Cardinality(Possible(rank2, rank2[u]) \ thread[u].known) <= Cardinality(Threads) + faults)'
  <2>1. CASE u = t
    <3> DEFINE held == {thread[v].row : v \in Threads}
               new == Possible(rank2, rank2[t])' \ Recorded
    <3>1. new \subseteq held \cup Lost
      <4>1. Possible(rank2, rank2[t])' \subseteq calls \cup held
        BY <1>1 DEF Possible, Older
      <4>2. \A a \in calls : a \in Recorded \/ a \in Lost \/ a \in held
        BY DEF Recorded, Lost
      <4> QED BY <4>1, <4>2
    <3>2. IsFiniteSet(held) /\ Cardinality(held) \in Nat /\ Cardinality(held) <= Cardinality(Threads)
      BY HeldAreFew
    <3>3. IsFiniteSet(Lost) /\ Cardinality(Lost) <= faults
      <4>1. Lost \subseteq Actions
        BY DEF Lost, CapInv, TypeOK
      <4> QED BY <4>1, ActionsAssumption, SmallerIsFewer DEF FewLost
    <3> HIDE DEF held, new
    <3>4. Cardinality(new) \in Nat /\ Cardinality(Lost) \in Nat /\ Cardinality(new) <= Cardinality(held) + Cardinality(Lost)
      BY <3>1, <3>2, <3>3, UnionIsAtMost
    <3>5. Cardinality(new) <= Cardinality(Threads) + faults
      BY <3>2, <3>3, <3>4, FaultsGrow, ThreadsAssumption, FS_CardinalityType
    <3> QED BY <1>1, <2>1, <3>5 DEF new
  <2>2. CASE u # t
    <3> DEFINE before == Possible(rank, rank[u]) \ thread[u].known
               after == Possible(rank2, rank[u])' \ thread[u].known
    <3>1. rank2[u] = rank[u] /\ rank[u] \in Nat /\ rank[u] <= now /\ thread'[u] = thread[u] /\ CountingNow(u)
      BY <1>0, <1>1, <1>6, <2>2 DEF CountingNow
    <3>2. IsFiniteSet(before) /\ after \subseteq before
      <4>1. IsFiniteSet(Possible(rank, rank[u]))
        BY PossibleIsFinite
      <4> QED BY <1>2, <3>1, <4>1, SmallerIsFewer
    <3>3. Cardinality(after) \in Nat /\ Cardinality(before) \in Nat /\ Cardinality(after) <= Cardinality(before)
      BY <3>2, SmallerIsFewer
    <3>4. Cardinality(before) <= Cardinality(Threads) + faults
      BY <1>6, <3>1 DEF Ordered
    <3>5. Cardinality(after) <= Cardinality(Threads) + faults
      BY <3>3, <3>4, FaultsGrow, ThreadsAssumption, FS_CardinalityType
    <3> QED BY <1>1, <3>1, <3>5
  <2> QED BY <2>1, <2>2
<1> QED BY <1>0, <1>3, <1>4, <1>5, <1>6 DEF Ordered, rank2

\* An execution that passes with the youngest count sets the mark anew: what it knew is below the cap.
LEMMA PassesWithin ==
    ASSUME CapInv, CapInv', [Next]_vars, NEW rank \in [Threads -> Nat], NEW last \in Nat,
           NEW now \in Nat, Ordered(rank, last, now), NEW t \in Threads, CountClaimed(t), last < rank[t],
           thread'[t].pc \in Acting, thread[t].row \notin Recommendations
    PROVE  Ordered(rank, rank[t], now)'
<1>1. /\ \A u \in Threads : u # t => thread'[u] = thread[u]
      /\ thread'[t].row = thread[t].row /\ thread[t].known \subseteq thread'[t].known
      /\ thread'[t].pc \notin {"countFailed", "countClaimed"}
      /\ CountingNow(t) /\ UNCHANGED <<rows, calls, faults>>
  <2>1. TypeOK /\ thread[t].pc = "countClaimed" /\ UNCHANGED <<rows, calls, faults>>
    BY DEF CapInv, CountClaimed, At
  <2>2. /\ \A u \in Threads : u # t => thread'[u] = thread[u]
        /\ thread'[t].row = thread[t].row
        /\ thread'[t].known = thread[t].known \cup (ClaimedIn(rows) \ {thread[t].row})
        /\ thread'[t].pc \in {"blocking", "acting"}
    BY <2>1, CountMoves
  <2> QED BY <2>1, <2>2 DEF CountingNow
<1>2. \A k \in Nat : Possible(rank, k)' = Possible(rank, k)
  <2>1. \A u \in Threads : thread'[u].row = thread[u].row /\ (Fresh(u)' <=> Fresh(u))
    BY <1>1 DEF Fresh, CountingNow, Acting
  <2> QED BY <1>1, <2>1 DEF Possible, Older
<1>3. (Cardinality(Possible(rank, rank[t])) <= Bound)'
  <2> DEFINE all == Possible(rank, rank[t])
             known == thread'[t].known
             rest == all \ known
             old == all \ thread[t].known
  <2>1. IsFiniteSet(all)
    BY PossibleIsFinite
  <2>2. IsFiniteSet(known) /\ Cardinality(known) \in Nat /\ Cardinality(known) < Limit
    <3>1. known \subseteq Actions
      BY DEF CapInv, TypeOK
    <3>2. Cardinality(known) < Limit
      BY <1>1 DEF CapInv, OnlyMovingRowsSlip
    <3> QED BY <3>1, <3>2, ActionsAssumption, SmallerIsFewer
  <2>3. Cardinality(old) <= Cardinality(Threads) + faults
    BY <1>1 DEF Ordered
  <2>4. all \subseteq known \cup rest /\ rest \subseteq old /\ old \subseteq all
    BY <1>1
  <2> HIDE DEF all, known, rest, old
  <2>5. /\ IsFiniteSet(old) /\ IsFiniteSet(rest) /\ Cardinality(old) \in Nat
        /\ Cardinality(rest) \in Nat /\ Cardinality(rest) <= Cardinality(old)
    BY <2>1, <2>4, SmallerIsFewer
  <2>6. Cardinality(all) \in Nat /\ Cardinality(all) <= Cardinality(known) + Cardinality(rest)
    BY <2>2, <2>4, <2>5, UnionIsAtMost
  <2>7. Cardinality(all) <= Bound
    <3>1. Limit \in Nat /\ faults \in Nat /\ Cardinality(Threads) \in Nat
      BY FaultsGrow, LimitAssumption, ThreadsAssumption, FS_CardinalityType
    <3> QED BY <2>2, <2>3, <2>5, <2>6, <3>1 DEF Bound
  <2>8. Bound' = Bound
    BY <1>1 DEF Bound
  <2> QED BY <1>2, <2>7, <2>8 DEF all
<1>4. \A u \in Threads : (thread[u].pc \in Acting /\ thread[u].row \notin Recommendations)' => rank[u] <= rank[t]
  BY <1>1 DEF Ordered
<1>5. ASSUME NEW u \in Threads, CountingNow(u)', rank[t] < rank[u]
      PROVE  (Cardinality(Possible(rank, rank[u]) \ thread[u].known) <= Cardinality(Threads) + faults)'
  <2>1. u # t /\ thread'[u] = thread[u] /\ CountingNow(u) /\ last < rank[u]
    BY <1>1, <1>5 DEF CountingNow
  <2> QED BY <1>1, <1>2, <2>1 DEF Ordered
<1> QED BY <1>3, <1>4, <1>5 DEF Ordered

LEMMA RankingStays == ASSUME CapInv, CapInv', FewLost, Ranking, [Next]_vars PROVE Ranking'
<1> PICK rank \in [Threads -> Nat], last \in Nat, now \in Nat : Ordered(rank, last, now)
  BY DEF Ranking
<1>0. TypeOK /\ HeldRows
  BY DEF CapInv
<1>m. ASSUME NEW t \in Threads,
             \A u \in Threads : u # t => thread'[u] = thread[u],
             Fresh(t)' \/ (~Fresh(t) /\ thread'[t].row = thread[t].row),
             calls' \subseteq calls \cup (IF rank[t] <= last /\ ~Fresh(t) THEN {thread[t].row} \ Recommendations ELSE {}),
             (thread[t].pc \in Acting /\ thread[t].row \notin Recommendations)' => rank[t] <= last,
             CountingNow(t)' => CountingNow(t) /\ thread'[t].known = thread[t].known
      PROVE  Ranking'
  <2>1. ASSUME NEW k \in Nat, last <= k PROVE Possible(rank, k)' \subseteq Possible(rank, k)
    <3>1. Older(rank, k)' \subseteq Older(rank, k)
      BY <1>m DEF Older, Fresh
    <3>2. \A u \in Older(rank, k)' : thread'[u].row = thread[u].row
      BY <1>m DEF Older
    <3>3. rank[t] <= last /\ ~Fresh(t) => t \in Older(rank, k)
      BY <2>1 DEF Older
    <3> QED BY <1>m, <3>1, <3>2, <3>3 DEF Possible
  <2>2. Ordered(rank, last, now)'
    <3>1. \A u \in Threads : (thread[u].pc \in Acting /\ thread[u].row \notin Recommendations)' => rank[u] <= last
      BY <1>m DEF Ordered
    <3>2. \A u \in Threads : CountingNow(u)' => CountingNow(u) /\ thread'[u].known = thread[u].known
      BY <1>m DEF CountingNow
    <3> QED BY <2>1, <3>1, <3>2, RankingKept
  <2> QED BY <2>2 DEF Ranking
<1>1. CASE UNCHANGED <<thread, calls>>
  BY <1>1, <1>m, ThreadsAssumption DEF Ordered, Fresh, CountingNow
<1>2. ASSUME NEW t \in Threads, CountSubmitted(t) PROVE Ranking'
  <2>1. [rank EXCEPT ![t] = now + 1] \in [Threads -> Nat] /\ now + 1 \in Nat
    OBVIOUS
  <2>2. Ordered([rank EXCEPT ![t] = now + 1], last, now + 1)'
    BY <1>2, BeginsYoungest
  <2> QED BY <2>1, <2>2 DEF Ranking
<1>3. ASSUME NEW t \in Threads, CountFailed(t) PROVE Ranking'
  <2>1. /\ \A u \in Threads : u # t => thread'[u] = thread[u]
        /\ thread'[t].pc = "countClaimed" /\ thread'[t].row = thread[t].row
        /\ thread'[t].known = thread[t].known
        /\ thread[t].pc = "countFailed" /\ UNCHANGED calls
    BY <1>0, <1>3, CountMoves DEF CountFailed, At
  <2> QED BY <1>m, <2>1 DEF Fresh, CountingNow, Acting
<1>4. ASSUME NEW t \in Threads, CountClaimed(t) PROVE Ranking'
  <2>1. /\ \A u \in Threads : u # t => thread'[u] = thread[u]
        /\ thread'[t].pc \in {"acting", "blocking"} /\ thread'[t].row = thread[t].row
        /\ thread[t].pc = "countClaimed" /\ UNCHANGED calls
    BY <1>0, <1>4, CountMoves DEF CountClaimed, At
  <2>2. CASE thread'[t].pc \in Acting /\ thread[t].row \notin Recommendations /\ last < rank[t]
    <3>1. Ordered(rank, rank[t], now)'
      BY <1>4, <2>2, PassesWithin
    <3> QED BY <3>1 DEF Ranking
  <2>3. CASE ~(thread'[t].pc \in Acting /\ thread[t].row \notin Recommendations /\ last < rank[t])
    BY <1>m, <2>1, <2>3 DEF Fresh, CountingNow
  <2> QED BY <2>2, <2>3
<1>5. ASSUME NEW t \in Threads, Act(t) PROVE Ranking'
  <2>1. /\ \A u \in Threads : u # t => thread'[u] = thread[u]
        /\ thread'[t].row = thread[t].row
        /\ thread'[t].pc \in {"finishingDry", "submitting", "completing", "failing"}
        /\ calls' \subseteq calls \cup {thread[t].row}
        /\ thread[t].pc = "acting"
    BY <1>0, <1>5, ActMoves DEF Act, At
  <2>2. thread[t].row \notin Recommendations => rank[t] <= last
    BY <2>1 DEF Ordered, Acting
  <2>3. thread[t].row \in Recommendations => UNCHANGED calls
    BY <1>5, TypesAssumption DEF Act
  <2> QED BY <1>m, <2>1, <2>2, <2>3 DEF Fresh, CountingNow
<1>6. ASSUME NEW t \in Threads, Record(t) \/ Crash(t) PROVE Ranking'
  <2>1. /\ \A u \in Threads : u # t => thread'[u] = thread[u]
        /\ thread'[t].pc = "idle" /\ UNCHANGED calls
    BY <1>0, <1>6, DoneMoves DEF Record, Crash
  <2> QED BY <1>m, <2>1 DEF Fresh, CountingNow, Acting
<1>7. ASSUME NEW t \in Threads, NEW a \in Actions, Claim(t, a) PROVE Ranking'
  <2>1. /\ \A u \in Threads : u # t => thread'[u] = thread[u]
        /\ thread'[t].pc = "countSubmitted" \/ (thread'[t].pc = "acting" /\ a \in Recommendations)
        /\ thread'[t].row = a /\ thread[t].pc = "idle" /\ UNCHANGED calls
    BY <1>0, <1>7, ClaimMoves DEF Claim, At
  <2>2. ASSUME NEW k \in Nat, last <= k PROVE Possible(rank, k)' \subseteq Possible(rank, k)
    BY <2>1 DEF Possible, Older, Fresh
  <2>3. Ordered(rank, last, now)'
    <3>1. \A u \in Threads : (thread[u].pc \in Acting /\ thread[u].row \notin Recommendations)' => rank[u] <= last
      BY <2>1 DEF Ordered, Acting
    <3>2. \A u \in Threads : CountingNow(u)' => CountingNow(u) /\ thread'[u].known = thread[u].known
      BY <2>1 DEF CountingNow
    <3> QED BY <2>2, <3>1, <3>2, RankingKept
  <2> QED BY <2>3 DEF Ranking
<1> QED BY <1>1, <1>2, <1>3, <1>4, <1>5, <1>6, <1>7 DEF Next, vars, Verify, Sweep

\* Whatever overlaps, crashes or fails: the executions that were under way when the last one began to
\* count can pass the cap with it, one for each other thread, and a crash can hide one more call.
THEOREM OvershootIsBounded == Spec => []OvershootBounded
<1>1. Init => FewLost /\ Ranking
  <2> SUFFICES ASSUME Init PROVE FewLost /\ Ranking
    OBVIOUS
  <2>1. calls = {} /\ faults = 0 /\ \A t \in Threads : thread[t].pc = "idle"
    BY IdleType DEF Init
  <2>2. Lost = {} /\ FewLost
    BY <2>1, FS_EmptySet DEF Lost, FewLost
  <2> DEFINE rank == [t \in Threads |-> 0]
  <2>3. rank \in [Threads -> Nat] /\ Possible(rank, 0) = {}
    BY <2>1 DEF Possible, Older, Fresh
  <2>4. Cardinality(Threads) \in Nat /\ Cardinality(Threads) # 0
    BY ThreadsAssumption, FS_EmptySet, FS_CardinalityType
  <2>5. Cardinality(Possible(rank, 0)) <= Bound
    <3>1. Cardinality(Possible(rank, 0)) = 0
      BY <2>3, FS_EmptySet
    <3> QED BY <2>1, <2>4, <3>1, LimitAssumption DEF Bound
  <2>6. Ordered(rank, 0, 0)
    BY <2>1, <2>5 DEF Ordered, CountingNow, Acting
  <2> QED BY <2>2, <2>3, <2>6 DEF Ranking
<1>2. CapInv /\ CapInv' /\ FewLost /\ Ranking /\ [Next]_vars => (FewLost /\ Ranking)'
  BY LosesFew, RankingStays
<1>3. CapInv /\ Ranking => OvershootBounded
  <2> SUFFICES ASSUME CapInv, Ranking PROVE OvershootBounded
    OBVIOUS
  <2>1. PICK rank \in [Threads -> Nat], last \in Nat, now \in Nat : Ordered(rank, last, now)
    BY DEF Ranking
  <2>2. calls \subseteq Possible(rank, last) /\ IsFiniteSet(Possible(rank, last))
    BY PossibleIsFinite DEF Possible
  <2>3. /\ Cardinality(calls) \in Nat /\ Cardinality(Possible(rank, last)) \in Nat
        /\ Cardinality(calls) <= Cardinality(Possible(rank, last))
    BY <2>2, SmallerIsFewer
  <2>4. Bound \in Int
    BY LimitAssumption, ThreadsAssumption, FS_CardinalityType DEF Bound, CapInv, TypeOK
  <2> QED BY <2>1, <2>3, <2>4 DEF Ordered, OvershootBounded, Bound
<1> QED BY <1>1, <1>2, <1>3, CapInductive, PTL DEF Spec

----
\* The contract of the action table.

\* A status moves from approved over executing to an outcome, and there it stays.
LEMMA StatusMoves ==
  ASSUME CapInv, [Next]_vars, NEW a \in Actions, rows'[a].status # rows[a].status
  PROVE  \/ rows[a].status = "approved" /\ rows'[a].status = "executing"
         \/ rows[a].status = "executing" /\ rows'[a].status \in {"completed", "failed"}
<1>0. /\ rows \in [Actions -> [status : Statuses, pre : BOOLEAN, executed : BOOLEAN, dry : BOOLEAN]]
      /\ \A t \in Threads : Live(t) => thread[t].row \in Actions /\ rows[thread[t].row].status = "executing"
  BY DEF CapInv, TypeOK, HeldRows, ClaimedIn
<1>1. ~UNCHANGED rows
  OBVIOUS
<1>2. ASSUME NEW t \in Threads, Act(t) PROVE FALSE
  <2>1. rows'[a].status = rows[a].status
    <3>1. CASE UNCHANGED rows
      BY <3>1
    <3>2. CASE rows' = [rows EXCEPT ![thread[t].row].pre = TRUE, ![thread[t].row].dry = FALSE]
      BY <1>0, <3>2
    <3> QED BY <1>2, <3>1, <3>2 DEF Act
  <2> QED BY <2>1
<1>3. ASSUME NEW t \in Threads, Record(t)
      PROVE  rows[a].status = "executing" /\ rows'[a].status \in {"completed", "failed"}
  <2>1. thread[t].pc \in {"blocking", "finishingDry", "submitting", "completing", "failing"}
    BY <1>3 DEF Record
  <2>2. thread[t].row \in Actions /\ rows[thread[t].row].status = "executing"
    BY <1>0, <2>1 DEF Live
  <2> DEFINE outcome == CASE thread[t].pc = "submitting" -> "executing"
                          [] thread[t].pc \in {"completing", "finishingDry"} -> "completed"
                          [] thread[t].pc \in {"failing", "blocking"} -> "failed"
             row == [rows[thread[t].row] EXCEPT
                       !.executed = TRUE, !.dry = @ \/ thread[t].pc = "finishingDry", !.status = outcome]
  <2>3. outcome \in {"executing", "completed", "failed"}
    BY <2>1
  <2>4. rows' = [rows EXCEPT ![thread[t].row] = row]
    BY <1>3 DEF Record
  <2> HIDE DEF outcome
  <2>5. row.status = outcome
    BY <1>0, <2>2
  <2> HIDE DEF row
  <2>6. rows'[a] = (IF a = thread[t].row THEN row ELSE rows[a])
    BY <1>0, <2>4
  <2> QED BY <2>2, <2>3, <2>5, <2>6
<1>4. ASSUME NEW t \in Threads, NEW b \in Actions, Claim(t, b)
      PROVE  rows[a].status = "approved" /\ rows'[a].status = "executing"
  BY <1>0, <1>4 DEF Claim
<1>5. ASSUME NEW b \in Actions, Verify(b) \/ Sweep(b)
      PROVE  rows[a].status = "executing" /\ rows'[a].status \in {"completed", "failed"}
  BY <1>0, <1>5 DEF Verify, Sweep, ClaimedIn
<1> QED BY <1>1, <1>2, <1>3, <1>4, <1>5 DEF Next, vars, CountSubmitted, CountFailed, CountClaimed, Crash

\* A cloud call is made for a row that is running.
LEMMA CallsWhileRunning ==
  ASSUME CapInv, [Next]_vars, NEW a \in calls' \ calls
  PROVE  rows[a].status = "executing"
<1>1. PICK t \in Threads : Act(t)
  BY DEF Next, vars, CountSubmitted, CountFailed, CountClaimed, Record, Crash, Claim, Verify, Sweep
<1>2. a = thread[t].row /\ Live(t)
  BY <1>1, ActMoves DEF CapInv, Live, Act, At
<1> QED BY <1>2 DEF CapInv, HeldRows, ClaimedIn

\* Every step of the executions, verifications, sweeps and crashes is one that ActionContract allows
\* of the action table (_claim, _finish, verify_pending, fail_stale_claims).
THEOREM CapKeepsContract == Spec => KeepsContract
<1> DEFINE phase == [a \in Actions |-> Phase(a)]
           called == [a \in Actions |-> IF a \in calls THEN 1 ELSE 0]
           undo == [a \in Actions |-> None]
<1>1. ASSUME CapInv, CapInv', [Next]_vars PROVE Contract!Next
  <2>1. /\ rows \in [Actions -> [status : Statuses, pre : BOOLEAN, executed : BOOLEAN, dry : BOOLEAN]]
        /\ rows' \in [Actions -> [status : Statuses, pre : BOOLEAN, executed : BOOLEAN, dry : BOOLEAN]]
    BY <1>1 DEF CapInv, TypeOK
  <2>2. \A a \in Actions : Phase(a)' \in Contract!Phases
    BY <2>1 DEF Phase, Statuses, Contract!Phases
  <2>3. Contract!Moves
    <3> SUFFICES ASSUME NEW a \in Actions, Phase(a)' # Phase(a)
                 PROVE  <<Phase(a), Phase(a)'>> \in Contract!Edges /\ Phase(a) # "none"
      BY DEF Contract!Moves, Contract!Table
    <3>1. \/ rows[a].status = "approved" /\ rows'[a].status = "executing"
          \/ rows[a].status = "executing" /\ rows'[a].status \in {"completed", "failed"}
      BY <1>1, StatusMoves DEF Phase
    <3> QED BY <3>1 DEF Phase, Contract!Edges
  <2>4. Contract!Calls
    <3> SUFFICES ASSUME NEW a \in Actions, called'[a] # called[a]
                 PROVE  called[a] = 0 /\ called'[a] = 1 /\ Phase(a) = "running"
      BY DEF Contract!Calls, Contract!Table
    <3>1. a \in calls' \ calls
      BY <1>1, RowsAfter DEF CapInv
    <3> QED BY <1>1, <3>1, CallsWhileRunning DEF Phase
  <2>5. Contract!Undoes
    <3>1. \A a \in Actions : Phase(a)' # "undone"
      BY <2>1 DEF Phase, Statuses
    <3> QED BY <3>1 DEF Contract!Undoes
  <2>6. /\ phase' \in [Actions -> Contract!Phases] /\ called' \in [Actions -> {0, 1}]
        /\ undo' \in [Actions -> {None}]
    BY <2>2
  <2> QED BY <2>3, <2>4, <2>5, <2>6 DEF Contract!Next, Contract!Table
<1>2. CapInv /\ CapInv' /\ [Next]_vars => [Contract!Next]_vars
  BY <1>1
<1> QED BY <1>2, CapInductive, PTL DEF Spec, KeepsContract
====
