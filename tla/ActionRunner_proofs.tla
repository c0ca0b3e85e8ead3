---- MODULE ActionRunner_proofs ----
(***************************************************************************)
(* Proofs about ActionRunner, for any number of actions, rollbacks,        *)
(* handler calls and faults.                                               *)
(*                                                                         *)
(* One row (IInv): type correctness, at most one cloud call per action,    *)
(* with the authority and the truthful row it needs, and the finality of   *)
(* outcomes.  None of these is inductive.  Why a second call cannot be     *)
(* made for a row lies in what the handler calls hold (Handlers): from its *)
(* claim to its outcome a row is executing, unsubmitted and in the hands   *)
(* of one call (Exclusive), which has made no cloud call before it         *)
(* mutates; and in what the table says of rows nobody holds (Table): one   *)
(* that could still be claimed has no call behind it.                      *)
(*                                                                         *)
(* Two rows, or a row and its trail (LInv): an action that is rolled back  *)
(* holds the rollback that undid it, a rollback that went through belongs  *)
(* to one original, and the audit trail agrees with the table.  What a     *)
(* call or the sweep knows of a finished row stays true, so an audit row   *)
(* written later still agrees, and a link is cleared only where its        *)
(* rollback has failed.                                                    *)
(*                                                                         *)
(* The contract (CInv): the handlers implement ActionContract, as phases   *)
(* move along its edges and no rollback undoes two actions.                *)
(*                                                                         *)
(* Runs without a crash (FailedAreReleased, FixesClose): whoever fails a   *)
(* rollback is about to release its original, whoever completes a fix is   *)
(* about to close its anomaly, and only a fault keeps them from it.        *)
(***************************************************************************)
EXTENDS ActionRunner, TLAPS

Rolling == {"inserting"} \cup Undoing \cup UndoReporting

\* What a handler call knows of the rows it works on.
HandlerOK(t) ==
    LET f == thread[t].row
        q == thread[t].undo
        pc == thread[t].pc
        out == thread[t].out IN
    /\ pc # "idle" => f \in Forward
    /\ pc = "deciding" => /\ thread[t].seen \in Undecided
                          /\ out \in {"approved", "rejected"}
                          /\ out = "approved" => "approved" \in trail[f]
    /\ pc = "expiring" => thread[t].seen \in Undecided \cup {"approved"}
    /\ pc = "claiming" => thread[t].seen \in {"approved", "pending"}
    /\ pc \in Working => rows[f].status = "executing" /\ ~rows[f].executed
    /\ pc \in {"auditing", "gate", "mutating"} => calls[f] = 0
    /\ pc \in {"gate", "mutating"} => "started" \in trail[f]
    /\ pc = "mutating" => rows[f].pre /\ ~rows[f].dry
    /\ pc \in {"finishing", "recording"} => out \in {"ok", "dry", "failed", "blocked"}
    /\ pc = "finishing" /\ out = "dry" => calls[f] = 0
    /\ pc \in Rolling => rows[f].status \in {"completed", "rolled_back"} /\ rows[f].type \in DOMAIN REVERSIBLE
    /\ pc \in Undoing \cup UndoReporting => q \in Reverse
    /\ pc \in Undoing => rows[q].status = "executing" /\ ~rows[q].executed
    /\ pc \in {"linking", "superseding", "undoing"} => calls[q] = 0

Handlers == \A t \in Threads : HandlerOK(t)

Holds(t, r) == \/ thread[t].pc \in Working /\ thread[t].row = r
               \/ thread[t].pc \in Undoing /\ thread[t].undo = r

\* A row is held by one call.
Exclusive == \A t, u \in Threads, r \in Rows : Holds(t, r) /\ Holds(u, r) => t = u

\* What the table says of a row, held or not.
ForwardOK(f) ==
    /\ rows[f].status \in {"absent", "approved", "rejected"} \cup Undecided => calls[f] = 0 /\ ~rows[f].executed
    /\ rows[f].status = "pending" => ~rows[f].approval
    /\ rows[f].approval /\ rows[f].status \in {"approved", "executing"} => "approved" \in trail[f]
    /\ rows[f].link # None => rows[f].status \in {"completed", "rolled_back"}
    /\ calls[f] > 0 => /\ rows[f].pre /\ ~rows[f].dry
                       /\ "started" \in trail[f]
                       /\ rows[f].approval => "approved" \in trail[f]

ReverseOK(q) ==
    /\ rows[q].status \in {"absent", "executing", "completed", "failed"}
    /\ rows[q].link = None
    /\ rows[q].status = "absent" => calls[q] = 0

Table == /\ \A f \in Forward : ForwardOK(f)
         /\ \A q \in Reverse : ReverseOK(q)

IInv == TypeOK /\ Handlers /\ Exclusive /\ Table /\ CalledOnce

----
\* Types.

ThreadState == [pc : Pcs, row : Forward \cup {None}, seen : Statuses \cup {None},
                undo : Reverse \cup {None}, out : Outs]

LEMMA PcsFact ==
  /\ Working \subseteq Pcs /\ Reporting \subseteq Pcs /\ Undoing \subseteq Pcs /\ UndoReporting \subseteq Pcs
  /\ {"idle", "deciding", "expiring", "claiming", "inserting"} \subseteq Pcs
  BY DEF Pcs

LEMMA IdleType == Idle \in ThreadState /\ Idle.pc = "idle"
  BY DEF Idle, ThreadState, Pcs, Outs

LEMMA InitOK == Init => IInv
<1> SUFFICES ASSUME Init PROVE IInv
  OBVIOUS
<1>1. thread \in [Threads -> ThreadState] /\ \A t \in Threads : thread[t].pc = "idle"
  BY IdleType DEF Init
<1>2. NoRow \in Row /\ NoRow.status = "absent" /\ NoRow.link = None /\ NoRow.approval = FALSE /\ NoRow.executed = FALSE
  BY DEF NoRow, Row, Statuses
<1>3. TypeOK
  BY <1>1, <1>2, FaultsAssumption DEF Init, TypeOK, ThreadState
<1>4. Handlers /\ Exclusive
  BY <1>1 DEF Handlers, HandlerOK, Exclusive, Holds, Working, Undoing, Rolling, UndoReporting
<1>5. Table /\ CalledOnce
  BY <1>2 DEF Init, Table, ForwardOK, ReverseOK, CalledOnce, Rows
<1> QED BY <1>3, <1>4, <1>5 DEF IInv

\* The local state of the call that moves, and the states of the others.
LEMMA GotoWithMoves ==
  ASSUME TypeOK, NEW t \in Threads, NEW pc \in Pcs, NEW out \in Outs, GotoWith(t, pc, out)
  PROVE  /\ thread' \in [Threads -> ThreadState]
         /\ \A u \in Threads : u # t => thread'[u] = thread[u]
         /\ thread'[t].pc = pc /\ thread'[t].row = thread[t].row /\ thread'[t].out = out
         /\ thread'[t].undo = thread[t].undo /\ thread'[t].seen = thread[t].seen
<1> DEFINE new == [thread[t] EXCEPT !.pc = pc, !.out = out]
<1>1. /\ new \in ThreadState /\ new.pc = pc /\ new.row = thread[t].row /\ new.out = out
      /\ new.undo = thread[t].undo /\ new.seen = thread[t].seen
  BY DEF TypeOK, ThreadState
<1>2. thread' = [thread EXCEPT ![t] = new]
  BY DEF GotoWith
<1> HIDE DEF new
<1> QED BY <1>1, <1>2 DEF TypeOK, ThreadState

LEMMA GotoMoves ==
  ASSUME TypeOK, NEW t \in Threads, NEW pc \in Pcs, Goto(t, pc)
  PROVE  /\ thread' \in [Threads -> ThreadState]
         /\ \A u \in Threads : u # t => thread'[u] = thread[u]
         /\ thread'[t].pc = pc /\ thread'[t].row = thread[t].row /\ thread'[t].out = thread[t].out
         /\ thread'[t].undo = thread[t].undo /\ thread'[t].seen = thread[t].seen
<1> DEFINE new == [thread[t] EXCEPT !.pc = pc]
<1>1. /\ new \in ThreadState /\ new.pc = pc /\ new.row = thread[t].row /\ new.out = thread[t].out
      /\ new.undo = thread[t].undo /\ new.seen = thread[t].seen
  BY DEF TypeOK, ThreadState
<1>2. thread' = [thread EXCEPT ![t] = new]
  BY DEF Goto
<1> HIDE DEF new
<1> QED BY <1>1, <1>2 DEF TypeOK, ThreadState

LEMMA DoneMoves ==
  ASSUME TypeOK, NEW t \in Threads, Done(t)
  PROVE  /\ thread' \in [Threads -> ThreadState]
         /\ \A u \in Threads : u # t => thread'[u] = thread[u]
         /\ thread'[t].pc = "idle"
  BY IdleType DEF Done, TypeOK, ThreadState

\* One write to one row.
LEMMA RowWrite ==
  ASSUME TypeOK, NEW r \in Rows, NEW new \in Row, rows' = [rows EXCEPT ![r] = new]
  PROVE  /\ rows' \in [Rows -> Row]
         /\ rows'[r] = new
         /\ \A s \in Rows : s # r => rows'[s] = rows[s]
  BY DEF TypeOK

LEMMA StatusWrite ==
  ASSUME TypeOK, NEW r \in Rows, NEW status \in Statuses, SetStatus(r, status)
  PROVE  /\ rows' \in [Rows -> Row]
         /\ rows'[r] = [rows[r] EXCEPT !.status = status]
         /\ \A s \in Rows : s # r => rows'[s] = rows[s]
<1> DEFINE new == [rows[r] EXCEPT !.status = status]
<1>1. new \in Row
  <2>1. rows[r] \in Row
    BY DEF TypeOK
  <2> QED BY <2>1 DEF Row
<1>2. rows' = [rows EXCEPT ![r] = new]
  BY DEF SetStatus
<1>3. rows' \in [Rows -> Row] /\ rows'[r] = new /\ \A s \in Rows : s # r => rows'[s] = rows[s]
  <2> HIDE DEF new
  <2> QED BY <1>1, <1>2, RowWrite
<1> QED BY <1>3

LEMMA LogWrite ==
  ASSUME TypeOK, NEW r \in Rows, NEW event \in Events, Log(r, event)
  PROVE  /\ trail' \in [Rows -> SUBSET Events]
         /\ \A s \in Rows : trail[s] \subseteq trail'[s]
         /\ event \in trail'[r]
  BY DEF TypeOK, Log

LEMMA FaultType == ASSUME TypeOK, Fault PROVE faults' \in 0..MaxFaults
  BY FaultsAssumption DEF Fault, TypeOK

----
\* What a step must not disturb.

Same(r) == rows'[r] = rows[r] /\ calls'[r] = calls[r]

\* A change of a row that keeps what the table says of it, and what a rollback relies on.
RowChange(r) ==
    /\ r \in Forward =>
        /\ ForwardOK(r)'
        /\ rows[r].status \in {"completed", "rolled_back"} =>
              rows'[r].status \in {"completed", "rolled_back"} /\ rows'[r].type = rows[r].type
    /\ r \in Reverse => ReverseOK(r)'
    /\ calls'[r] <= 1

LEMMA HeldIsExecuting ==
  ASSUME IInv, NEW u \in Threads, NEW r \in Rows, Holds(u, r)
  PROVE  rows[r].status = "executing" /\ ~rows[r].executed
  BY DEF IInv, Handlers, HandlerOK, Holds

\* A call that does not move keeps what it knows, if the rows it holds are not touched.
LEMMA HandlerFrame ==
  ASSUME IInv, NEW u \in Threads, thread'[u] = thread[u],
         \A r \in Rows : trail[r] \subseteq trail'[r],
         \A r \in Rows : Same(r) \/ (RowChange(r) /\ ~Holds(u, r))
  PROVE  HandlerOK(u)'
<1> DEFINE f == thread[u].row
           q == thread[u].undo
           pc == thread[u].pc
<1>0. HandlerOK(u) /\ Forward \subseteq Rows /\ Reverse \subseteq Rows
  BY DEF IInv, Handlers, Rows
<1>1. pc # "idle" => f \in Forward /\ f \in Rows /\ trail[f] \subseteq trail'[f]
  BY <1>0 DEF HandlerOK
<1>2. pc \in Working => Same(f)
  <2> SUFFICES ASSUME pc \in Working PROVE Same(f)
    OBVIOUS
  <2>1. f \in Rows
    BY <1>1 DEF Working
  <2> QED BY <2>1 DEF Holds
<1>3. pc \in Undoing => Same(q) /\ q \in Rows
  <2> SUFFICES ASSUME pc \in Undoing PROVE Same(q) /\ q \in Rows
    OBVIOUS
  <2>1. q \in Rows
    BY <1>0 DEF HandlerOK
  <2> QED BY <2>1 DEF Holds
<1>4. pc \in Rolling => rows'[f].status \in {"completed", "rolled_back"} /\ rows'[f].type \in DOMAIN REVERSIBLE
  <2> SUFFICES ASSUME pc \in Rolling
               PROVE  rows'[f].status \in {"completed", "rolled_back"} /\ rows'[f].type \in DOMAIN REVERSIBLE
    OBVIOUS
  <2>1. f \in Forward /\ f \in Rows
    BY <1>1 DEF Rolling, Undoing, UndoReporting
  <2>2. rows[f].status \in {"completed", "rolled_back"} /\ rows[f].type \in DOMAIN REVERSIBLE
    BY <1>0 DEF HandlerOK
  <2> QED BY <2>1, <2>2 DEF Same, RowChange
<1>5. {"auditing", "gate", "mutating", "finishing"} \subseteq Working
      /\ {"linking", "superseding", "undoing"} \subseteq Undoing
  BY DEF Working, Undoing
<1> QED BY <1>0, <1>1, <1>2, <1>3, <1>4, <1>5 DEF HandlerOK, Same

\* The types of what a handler call's step may write.
StepTypes ==
    /\ rows' \in [Rows -> Row] /\ anomaly' \in [Forward -> BOOLEAN]
    /\ thread' \in [Threads -> ThreadState] /\ swept' \subseteq Rows
    /\ calls' \in [Rows -> Nat] /\ trail' \in [Rows -> SUBSET Events]
    /\ faults' \in 0..MaxFaults

\* The table and the bound on calls survive a step whose rows are unchanged or change well.
LEMMA TableFrame ==
  ASSUME IInv, \A r \in Rows : trail[r] \subseteq trail'[r], \A r \in Rows : Same(r) \/ RowChange(r)
  PROVE  Table' /\ CalledOnce'
<1>1. ASSUME NEW f \in Forward PROVE ForwardOK(f)'
  <2>1. f \in Rows /\ ForwardOK(f)
    BY DEF IInv, Table, Rows
  <2>2. CASE Same(f)
    BY <2>1, <2>2 DEF ForwardOK, Same
  <2>3. CASE RowChange(f)
    BY <2>3 DEF RowChange
  <2> QED BY <2>1, <2>2, <2>3
<1>2. ASSUME NEW q \in Reverse PROVE ReverseOK(q)'
  <2>1. q \in Rows /\ ReverseOK(q)
    BY DEF IInv, Table, Rows
  <2>2. CASE Same(q)
    BY <2>1, <2>2 DEF ReverseOK, Same
  <2>3. CASE RowChange(q)
    BY <2>3 DEF RowChange
  <2> QED BY <2>1, <2>2, <2>3
<1>3. CalledOnce'
  BY DEF IInv, CalledOnce, Same, RowChange
<1> QED BY <1>1, <1>2, <1>3 DEF Table

\* A step of call t is safe if it keeps what t knows, takes no row another call holds, and
\* changes no row another call holds.
LEMMA StepIsSafe ==
  ASSUME IInv, StepTypes, NEW t \in Threads,
         \A u \in Threads : u # t => thread'[u] = thread[u],
         HandlerOK(t)',
         \A r \in Rows : trail[r] \subseteq trail'[r],
         \A r \in Rows : \/ Same(r)
                         \/ RowChange(r) /\ (\A u \in Threads : u # t => ~Holds(u, r)),
         \A r \in Rows : Holds(t, r)' => \A u \in Threads : u # t => ~Holds(u, r)
  PROVE  IInv'
<1>1. TypeOK'
  BY DEF StepTypes, TypeOK, ThreadState
<1>2. Table' /\ CalledOnce'
  BY TableFrame
<1>3. ASSUME NEW u \in Threads PROVE HandlerOK(u)'
  <2>1. CASE u = t
    BY <2>1
  <2>2. CASE u # t
    BY <2>2, HandlerFrame
  <2> QED BY <2>1, <2>2
<1>4. \A u \in Threads, r \in Rows : u # t => (Holds(u, r)' <=> Holds(u, r))
  BY DEF Holds
<1>5. Exclusive'
  BY <1>4 DEF IInv, Exclusive
<1> QED BY <1>1, <1>2, <1>3, <1>5 DEF IInv, Handlers

\* A step of no call is safe if it changes only rows that nobody holds.
LEMMA TableStepIsSafe ==
  ASSUME IInv, StepTypes, UNCHANGED thread,
         \A r \in Rows : trail[r] \subseteq trail'[r],
         \A r \in Rows : \/ Same(r)
                         \/ RowChange(r) /\ (\A u \in Threads : ~Holds(u, r))
  PROVE  IInv'
<1>1. TypeOK'
  BY DEF StepTypes, TypeOK, ThreadState
<1>2. Table' /\ CalledOnce'
  BY TableFrame
<1>3. ASSUME NEW u \in Threads PROVE HandlerOK(u)'
  BY HandlerFrame
<1>4. Exclusive'
  BY DEF IInv, Exclusive, Holds
<1> QED BY <1>1, <1>2, <1>3, <1>4 DEF IInv, Handlers

\* A step of call t that touches no row and takes none.
LEMMA QuietStepIsSafe ==
  ASSUME IInv, NEW t \in Threads, StepTypes, UNCHANGED <<rows, calls>>,
         \A u \in Threads : u # t => thread'[u] = thread[u],
         \A r \in Rows : trail[r] \subseteq trail'[r],
         HandlerOK(t)',
         \A r \in Rows : Holds(t, r)' => Holds(t, r)
  PROVE  IInv'
<1>1. \A r \in Rows : Same(r)
  BY DEF Same
<1>2. \A r \in Rows : Holds(t, r)' => \A u \in Threads : u # t => ~Holds(u, r)
  BY DEF IInv, Exclusive
<1> QED BY <1>1, <1>2, StepIsSafe

\* A call that is done knows nothing.
LEMMA IdleKnows ==
  ASSUME NEW t \in Threads, thread'[t].pc = "idle"
  PROVE  HandlerOK(t)' /\ \A r \in Rows : ~Holds(t, r)'
  BY DEF HandlerOK, Holds, Working, Undoing, Rolling, UndoReporting

----
\* The steps of a call, one lemma each.

LEMMA MoverFacts ==
  ASSUME IInv, NEW t \in Threads, thread[t].pc # "idle"
  PROVE  /\ thread[t].row \in Forward /\ thread[t].row \in Rows
         /\ rows[thread[t].row] \in Row /\ ForwardOK(thread[t].row)
         /\ HandlerOK(t) /\ TypeOK
         /\ thread[t].pc \in Undoing \cup UndoReporting =>
              /\ thread[t].undo \in Reverse /\ thread[t].undo \in Rows
              /\ rows[thread[t].undo] \in Row /\ ReverseOK(thread[t].undo)
  BY DEF IInv, Handlers, HandlerOK, Table, TypeOK, Rows

\* What stands still keeps its type.
LEMMA Still ==
  ASSUME IInv
  PROVE  /\ UNCHANGED rows => rows' \in [Rows -> Row]
         /\ UNCHANGED anomaly => anomaly' \in [Forward -> BOOLEAN]
         /\ UNCHANGED thread => thread' \in [Threads -> ThreadState]
         /\ UNCHANGED swept => swept' \subseteq Rows
         /\ UNCHANGED calls => calls' \in [Rows -> Nat]
         /\ UNCHANGED trail => trail' \in [Rows -> SUBSET Events] /\ \A r \in Rows : trail[r] \subseteq trail'[r]
         /\ UNCHANGED faults => faults' \in 0..MaxFaults
         /\ TypeOK
  BY DEF IInv, TypeOK, ThreadState

\* A row that is not executing, or is submitted, is nobody's.
LEMMA NotHeld ==
  ASSUME IInv, NEW r \in Rows, rows[r].status # "executing" \/ rows[r].executed
  PROVE  \A u \in Threads : ~Holds(u, r)
  BY HeldIsExecuting

LEMMA Mine ==
  ASSUME IInv, NEW t \in Threads, NEW r \in Rows, Holds(t, r)
  PROVE  \A u \in Threads : u # t => ~Holds(u, r)
  BY DEF IInv, Exclusive

\* A step of call t that changes row r, which no other call holds.
LEMMA RowStepIsSafe ==
  ASSUME IInv, NEW t \in Threads, NEW r \in Rows, StepTypes, HandlerOK(t)',
         \A u \in Threads : u # t => thread'[u] = thread[u],
         \A s \in Rows : trail[s] \subseteq trail'[s],
         \A s \in Rows : s # r => rows'[s] = rows[s] /\ calls'[s] = calls[s],
         RowChange(r), \A u \in Threads : u # t => ~Holds(u, r),
         \A s \in Rows : Holds(t, s)' => s = r \/ Holds(t, s)
  PROVE  IInv'
<1>1. \A s \in Rows : Same(s) \/ (RowChange(s) /\ \A u \in Threads : u # t => ~Holds(u, s))
  BY DEF Same
<1>2. \A s \in Rows : Holds(t, s)' => \A u \in Threads : u # t => ~Holds(u, s)
  BY Mine
<1> QED BY <1>1, <1>2, StepIsSafe

LEMMA DecideSafe ==
  ASSUME IInv, NEW t \in Threads, NEW f \in Forward, thread[t].row = f, Decide(t)
  PROVE  IInv'
<1>1. /\ thread[t].pc = "deciding" /\ thread[t].seen \in Undecided /\ thread[t].out \in {"approved", "rejected"}
      /\ thread[t].out = "approved" => "approved" \in trail[f]
      /\ f \in Rows /\ rows[f] \in Row /\ ForwardOK(f)
  BY MoverFacts DEF Decide, At, HandlerOK
<1>2. /\ thread' \in [Threads -> ThreadState] /\ thread'[t].pc = "idle"
      /\ \A u \in Threads : u # t => thread'[u] = thread[u]
  BY Still, DoneMoves DEF Decide
<1>3. HandlerOK(t)' /\ \A r \in Rows : ~Holds(t, r)'
  BY <1>2, IdleKnows
<1>4. UNCHANGED <<anomaly, swept, calls, faults>>
  BY DEF Decide
<1>5. CASE rows[f].status = thread[t].seen
  <2>1. SetStatus(f, thread[t].out) /\ UNCHANGED trail
    BY <1>5 DEF Decide
  <2>2. /\ rows' \in [Rows -> Row] /\ rows'[f] = [rows[f] EXCEPT !.status = thread[t].out]
        /\ \A s \in Rows : s # f => rows'[s] = rows[s]
    BY <1>1, <2>1, StatusWrite, Still DEF Statuses, IN_FLIGHT_STATUSES
  <2>3. StepTypes
    BY <1>2, <1>4, <2>1, <2>2, Still DEF StepTypes
  <2>4. ForwardOK(f)'
    BY <1>1, <1>4, <1>5, <2>1, <2>2 DEF ForwardOK, Row, Undecided
  <2>5. RowChange(f)
    BY <1>1, <1>4, <1>5, <2>4, RowsAssumption DEF RowChange, Undecided, IInv, CalledOnce
  <2>6. \A u \in Threads : ~Holds(u, f)
    BY <1>1, <1>5, NotHeld DEF Undecided
  <2> QED BY <1>1, <1>2, <1>3, <1>4, <2>1, <2>2, <2>3, <2>5, <2>6, Still, RowStepIsSafe
<1>6. CASE rows[f].status # thread[t].seen
  <2>1. Log(f, "superseded") /\ UNCHANGED rows
    BY <1>6 DEF Decide
  <2>2. trail' \in [Rows -> SUBSET Events] /\ \A r \in Rows : trail[r] \subseteq trail'[r]
    BY <1>1, <2>1, LogWrite, Still DEF Events
  <2>3. StepTypes
    BY <1>2, <1>4, <2>1, <2>2, Still DEF StepTypes
  <2> QED BY <1>2, <1>3, <1>4, <2>1, <2>2, <2>3, QuietStepIsSafe
<1> QED BY <1>5, <1>6

LEMMA ExpireSafe ==
  ASSUME IInv, NEW t \in Threads, NEW f \in Forward, thread[t].row = f, Expire(t)
  PROVE  IInv'
<1>1. /\ thread[t].pc = "expiring" /\ thread[t].seen \in Undecided \cup {"approved"}
      /\ f \in Rows /\ rows[f] \in Row /\ ForwardOK(f)
  BY MoverFacts DEF Expire, At, HandlerOK
<1>2. /\ thread' \in [Threads -> ThreadState] /\ thread'[t].pc = "idle"
      /\ \A u \in Threads : u # t => thread'[u] = thread[u]
  BY Still, DoneMoves DEF Expire
<1>3. HandlerOK(t)' /\ \A r \in Rows : ~Holds(t, r)'
  BY <1>2, IdleKnows
<1>4. UNCHANGED <<anomaly, swept, calls, faults>>
  BY DEF Expire
<1>5. CASE rows[f].status = thread[t].seen
  <2>1. SetStatus(f, "failed") /\ Log(f, "expired")
    BY <1>5 DEF Expire
  <2>2. /\ rows' \in [Rows -> Row] /\ rows'[f] = [rows[f] EXCEPT !.status = "failed"]
        /\ \A s \in Rows : s # f => rows'[s] = rows[s]
        /\ trail' \in [Rows -> SUBSET Events] /\ \A r \in Rows : trail[r] \subseteq trail'[r]
    BY <1>1, <2>1, StatusWrite, LogWrite, Still DEF Statuses, IN_FLIGHT_STATUSES, Events
  <2>3. StepTypes
    BY <1>2, <1>4, <2>2, Still DEF StepTypes
  <2>4. ForwardOK(f)'
    BY <1>1, <1>4, <1>5, <2>2 DEF ForwardOK, Row, Undecided
  <2>5. RowChange(f)
    BY <1>1, <1>4, <1>5, <2>4, RowsAssumption DEF RowChange, Undecided, IInv, CalledOnce
  <2>6. \A u \in Threads : ~Holds(u, f)
    BY <1>1, <1>5, NotHeld DEF Undecided
  <2> QED BY <1>1, <1>2, <1>3, <1>4, <2>2, <2>3, <2>5, <2>6, RowStepIsSafe
<1>6. CASE rows[f].status # thread[t].seen
  <2>1. UNCHANGED <<rows, trail>>
    BY <1>6 DEF Expire
  <2>2. StepTypes
    BY <1>2, <1>4, <2>1, Still DEF StepTypes
  <2> QED BY <1>2, <1>3, <1>4, <2>1, <2>2, Still, QuietStepIsSafe
<1> QED BY <1>5, <1>6

LEMMA ClaimSafe ==
  ASSUME IInv, NEW t \in Threads, NEW f \in Forward, thread[t].row = f, Claim(t)
  PROVE  IInv'
<1>1. /\ thread[t].pc = "claiming" /\ thread[t].seen \in {"approved", "pending"}
      /\ f \in Rows /\ rows[f] \in Row /\ ForwardOK(f)
  BY MoverFacts DEF Claim, At, HandlerOK
<1>2. UNCHANGED <<anomaly, swept, calls, trail, faults>>
  BY DEF Claim
<1>3. CASE rows[f].status = thread[t].seen
  <2>1. SetStatus(f, "executing") /\ Goto(t, "auditing")
    BY <1>3 DEF Claim
  <2>2. /\ rows' \in [Rows -> Row] /\ rows'[f] = [rows[f] EXCEPT !.status = "executing"]
        /\ \A s \in Rows : s # f => rows'[s] = rows[s]
    BY <1>1, <2>1, StatusWrite, Still DEF Statuses, IN_FLIGHT_STATUSES
  <2>3. /\ thread' \in [Threads -> ThreadState] /\ thread'[t].pc = "auditing" /\ thread'[t].row = f
        /\ \A u \in Threads : u # t => thread'[u] = thread[u]
    BY <2>1, Still, GotoMoves, PcsFact DEF Working
  <2>4. StepTypes
    BY <1>2, <2>2, <2>3, Still DEF StepTypes
  <2>5. ~rows[f].executed /\ calls[f] = 0
    BY <1>1, <1>3 DEF ForwardOK, Undecided
  <2>6. HandlerOK(t)'
    BY <1>1, <1>2, <2>2, <2>3, <2>5 DEF HandlerOK, Working, Undoing, Rolling, UndoReporting, Row
  <2>7. ForwardOK(f)'
    BY <1>1, <1>2, <1>3, <2>2, <2>5 DEF ForwardOK, Row, Undecided
  <2>8. RowChange(f)
    BY <1>1, <1>2, <1>3, <2>5, <2>7, RowsAssumption DEF RowChange
  <2>9. \A u \in Threads : ~Holds(u, f)
    BY <1>1, <1>3, NotHeld
  <2>10. \A s \in Rows : Holds(t, s)' => s = f
    BY <2>3 DEF Holds, Undoing
  <2> QED BY <1>1, <1>2, <2>2, <2>3, <2>4, <2>6, <2>8, <2>9, <2>10, Still, RowStepIsSafe
<1>4. CASE rows[f].status # thread[t].seen
  <2>1. Done(t) /\ UNCHANGED rows
    BY <1>4 DEF Claim
  <2>2. /\ thread' \in [Threads -> ThreadState] /\ thread'[t].pc = "idle"
        /\ \A u \in Threads : u # t => thread'[u] = thread[u]
    BY <2>1, Still, DoneMoves
  <2>3. StepTypes
    BY <1>2, <2>1, <2>2, Still DEF StepTypes
  <2> QED BY <1>2, <2>1, <2>2, <2>3, IdleKnows, Still, QuietStepIsSafe
<1> QED BY <1>3, <1>4

LEMMA AuditStartSafe ==
  ASSUME IInv, NEW t \in Threads, NEW f \in Forward, thread[t].row = f, AuditStart(t)
  PROVE  IInv'
<1>1. /\ thread[t].pc = "auditing" /\ f \in Rows /\ Holds(t, f) /\ rows[f].status = "executing"
      /\ ~rows[f].executed /\ calls[f] = 0
  BY MoverFacts DEF AuditStart, At, HandlerOK, Holds, Working
<1>2. UNCHANGED <<rows, anomaly, swept, calls, faults>>
  BY DEF AuditStart
<1>3. CASE Log(f, "started") /\ Goto(t, "gate")
  <2>1. /\ trail' \in [Rows -> SUBSET Events] /\ \A r \in Rows : trail[r] \subseteq trail'[r]
        /\ "started" \in trail'[f]
    BY <1>1, <1>3, LogWrite, Still DEF Events
  <2>2. /\ thread' \in [Threads -> ThreadState] /\ thread'[t].pc = "gate" /\ thread'[t].row = f
        /\ \A u \in Threads : u # t => thread'[u] = thread[u]
    BY <1>3, Still, GotoMoves, PcsFact DEF Working
  <2>3. StepTypes
    BY <1>2, <2>1, <2>2, Still DEF StepTypes
  <2>4. HandlerOK(t)'
    BY <1>1, <1>2, <2>1, <2>2 DEF HandlerOK, Working, Undoing, Rolling, UndoReporting
  <2>5. \A r \in Rows : Holds(t, r)' => Holds(t, r)
    BY <1>1, <2>2 DEF Holds, Undoing
  <2> QED BY <1>2, <2>1, <2>2, <2>3, <2>4, <2>5, QuietStepIsSafe
<1>4. CASE GotoWith(t, "finishing", "failed") /\ UNCHANGED trail
  <2>1. /\ thread' \in [Threads -> ThreadState] /\ thread'[t].pc = "finishing" /\ thread'[t].row = f
        /\ thread'[t].out = "failed" /\ \A u \in Threads : u # t => thread'[u] = thread[u]
    BY <1>4, Still, GotoWithMoves, PcsFact DEF Working, Outs
  <2>2. StepTypes
    BY <1>2, <1>4, <2>1, Still DEF StepTypes
  <2>3. HandlerOK(t)'
    BY <1>1, <1>2, <2>1 DEF HandlerOK, Working, Undoing, Rolling, UndoReporting
  <2>4. \A r \in Rows : Holds(t, r)' => Holds(t, r)
    BY <1>1, <2>1 DEF Holds, Undoing
  <2> QED BY <1>2, <1>4, <2>1, <2>2, <2>3, <2>4, Still, QuietStepIsSafe
<1> QED BY <1>3, <1>4 DEF AuditStart

\* The action ends without the cloud call: t goes on to write the outcome.
LEMMA EndsQuietly ==
  ASSUME IInv, NEW t \in Threads, NEW f \in Forward, thread[t].row = f, Holds(t, f),
         NEW out \in {"ok", "dry", "failed", "blocked"}, out = "dry" => calls[f] = 0,
         thread[t].pc \in Working, GotoWith(t, "finishing", out),
         UNCHANGED <<rows, anomaly, swept, calls, trail, faults>>
  PROVE  IInv'
<1>1. f \in Rows /\ rows[f].status = "executing" /\ ~rows[f].executed
  BY HeldIsExecuting DEF Rows
<1>2. /\ thread' \in [Threads -> ThreadState] /\ thread'[t].pc = "finishing" /\ thread'[t].row = f
      /\ thread'[t].out = out /\ \A u \in Threads : u # t => thread'[u] = thread[u]
  BY Still, GotoWithMoves, PcsFact DEF Working, Outs
<1>3. StepTypes
  BY <1>2, Still DEF StepTypes
<1>4. HandlerOK(t)'
  BY <1>1, <1>2 DEF HandlerOK, Working, Undoing, Rolling, UndoReporting
<1>5. \A r \in Rows : Holds(t, r)' => Holds(t, r)
  BY <1>2 DEF Holds, Undoing
<1> QED BY <1>2, <1>3, <1>4, <1>5, Still, QuietStepIsSafe

LEMMA GateSafe ==
  ASSUME IInv, NEW t \in Threads, NEW f \in Forward, thread[t].row = f, Gate(t)
  PROVE  IInv'
<1>1. /\ thread[t].pc = "gate" /\ thread[t].pc \in Working /\ f \in Rows /\ Holds(t, f)
      /\ rows[f].status = "executing" /\ ~rows[f].executed /\ calls[f] = 0
      /\ "started" \in trail[f] /\ rows[f] \in Row /\ ForwardOK(f)
  BY MoverFacts DEF Gate, At, HandlerOK, Holds, Working
<1>2. UNCHANGED <<anomaly, swept, calls, trail, faults>>
  BY DEF Gate
<1>3. CASE GotoWith(t, "finishing", "blocked") /\ UNCHANGED rows
  BY <1>1, <1>2, <1>3, EndsQuietly
<1>4. CASE GotoWith(t, "finishing", "dry") /\ UNCHANGED rows
  BY <1>1, <1>2, <1>4, EndsQuietly
<1>5. CASE GotoWith(t, "finishing", "failed") /\ UNCHANGED rows
  BY <1>1, <1>2, <1>5, EndsQuietly
<1>6. CASE rows' = [rows EXCEPT ![f].pre = TRUE, ![f].dry = FALSE] /\ Goto(t, "mutating")
  <2> DEFINE new == [rows[f] EXCEPT !.pre = TRUE, !.dry = FALSE]
  <2>1. /\ new \in Row /\ new.pre = TRUE /\ new.dry = FALSE /\ new.status = "executing" /\ ~new.executed
        /\ new.approval = rows[f].approval /\ new.link = rows[f].link
    BY <1>1 DEF Row
  <2>2. rows' = [rows EXCEPT ![f] = new]
    BY <1>6
  <2> HIDE DEF new
  <2>3. rows' \in [Rows -> Row] /\ rows'[f] = new /\ \A s \in Rows : s # f => rows'[s] = rows[s]
    BY <1>1, <2>1, <2>2, RowWrite, Still
  <2>4. /\ thread' \in [Threads -> ThreadState] /\ thread'[t].pc = "mutating" /\ thread'[t].row = f
        /\ \A u \in Threads : u # t => thread'[u] = thread[u]
    BY <1>6, Still, GotoMoves, PcsFact DEF Working
  <2>5. StepTypes
    BY <1>2, <2>3, <2>4, Still DEF StepTypes
  <2>6. HandlerOK(t)'
    BY <1>1, <1>2, <2>1, <2>3, <2>4 DEF HandlerOK, Working, Undoing, Rolling, UndoReporting
  <2>7. ForwardOK(f)'
    BY <1>1, <1>2, <2>1, <2>3 DEF ForwardOK, Undecided
  <2>8. RowChange(f)
    BY <1>1, <1>2, <2>7, RowsAssumption DEF RowChange
  <2>9. \A s \in Rows : Holds(t, s)' => s = f
    BY <2>4 DEF Holds, Undoing
  <2> QED BY <1>1, <1>2, <2>3, <2>4, <2>5, <2>6, <2>8, <2>9, Mine, Still, RowStepIsSafe
<1> QED BY <1>1, <1>3, <1>4, <1>5, <1>6 DEF Gate

LEMMA MutateSafe ==
  ASSUME IInv, NEW t \in Threads, NEW f \in Forward, thread[t].row = f, Mutate(t)
  PROVE  IInv'
<1>1. /\ thread[t].pc = "mutating" /\ thread[t].pc \in Working /\ f \in Rows /\ Holds(t, f)
      /\ rows[f].status = "executing" /\ ~rows[f].executed /\ calls[f] = 0
      /\ "started" \in trail[f] /\ rows[f] \in Row /\ ForwardOK(f) /\ rows[f].pre /\ ~rows[f].dry
  BY MoverFacts DEF Mutate, At, HandlerOK, Holds, Working
<1>2. UNCHANGED <<rows, anomaly, swept, trail, faults>>
  BY DEF Mutate
<1>3. CASE UNCHANGED calls /\ GotoWith(t, "finishing", "ok")
  BY <1>1, <1>2, <1>3, EndsQuietly
<1>4. CASE UNCHANGED calls /\ GotoWith(t, "finishing", "failed")
  BY <1>1, <1>2, <1>4, EndsQuietly
<1>5. CASE /\ calls' = [calls EXCEPT ![f] = @ + 1]
           /\ \/ GotoWith(t, "finishing", "failed")
              \/ Goto(t, "submitting")
              \/ GotoWith(t, "finishing", "ok")
  <2>1. calls' \in [Rows -> Nat] /\ calls'[f] = 1 /\ \A s \in Rows : s # f => calls'[s] = calls[s]
    BY <1>1, <1>5, Still DEF TypeOK
  <2>2. /\ thread' \in [Threads -> ThreadState] /\ thread'[t].pc \in {"finishing", "submitting"}
        /\ thread'[t].row = f
        /\ thread'[t].pc = "finishing" => thread'[t].out \in {"ok", "failed"}
        /\ \A u \in Threads : u # t => thread'[u] = thread[u]
    <3>1. CASE GotoWith(t, "finishing", "failed")
      BY <3>1, Still, GotoWithMoves, PcsFact DEF Working, Outs
    <3>2. CASE Goto(t, "submitting")
      BY <3>2, Still, GotoMoves, PcsFact DEF Working
    <3>3. CASE GotoWith(t, "finishing", "ok")
      BY <3>3, Still, GotoWithMoves, PcsFact DEF Working, Outs
    <3> QED BY <1>5, <3>1, <3>2, <3>3
  <2>3. StepTypes
    BY <1>2, <2>1, <2>2, Still DEF StepTypes
  <2>4. HandlerOK(t)'
    BY <1>1, <1>2, <2>2 DEF HandlerOK, Working, Undoing, Rolling, UndoReporting
  <2>5. ForwardOK(f)'
    BY <1>1, <1>2, <2>1 DEF ForwardOK, Undecided
  <2>6. RowChange(f)
    BY <1>1, <1>2, <2>1, <2>5, RowsAssumption DEF RowChange
  <2>7. \A s \in Rows : Holds(t, s)' => s = f
    BY <2>2 DEF Holds, Undoing
  <2> QED BY <1>1, <1>2, <2>1, <2>2, <2>3, <2>4, <2>6, <2>7, Mine, Still, RowStepIsSafe
<1> QED BY <1>1, <1>3, <1>4, <1>5 DEF Mutate

LEMMA SubmitSafe ==
  ASSUME IInv, NEW t \in Threads, NEW f \in Forward, thread[t].row = f, Submit(t)
  PROVE  IInv'
<1>1. /\ thread[t].pc = "submitting" /\ f \in Rows /\ Holds(t, f) /\ rows[f] \in Row
      /\ rows[f].status = "executing" /\ ForwardOK(f)
  BY MoverFacts DEF Submit, At, HandlerOK, Holds, Working
<1>2. UNCHANGED <<anomaly, swept, calls, faults>>
  BY DEF Submit
<1>3. /\ thread' \in [Threads -> ThreadState] /\ thread'[t].pc = "idle"
      /\ \A u \in Threads : u # t => thread'[u] = thread[u]
  BY Still, DoneMoves DEF Submit
<1>4. HandlerOK(t)' /\ \A r \in Rows : ~Holds(t, r)'
  BY <1>3, IdleKnows
<1>5. /\ rows' = [rows EXCEPT ![f].status = "executing", ![f].executed = TRUE]
      /\ Log(f, "submitted")
  BY <1>1 DEF Submit, InFlight, IN_FLIGHT_STATUSES
<1> DEFINE new == [rows[f] EXCEPT !.status = "executing", !.executed = TRUE]
<1>6. /\ new \in Row /\ new.status = "executing" /\ new.approval = rows[f].approval
      /\ new.link = rows[f].link /\ new.pre = rows[f].pre /\ new.dry = rows[f].dry
  BY <1>1 DEF Row
<1>7. rows' = [rows EXCEPT ![f] = new]
  BY <1>5
<1> HIDE DEF new
<1>8. /\ rows' \in [Rows -> Row] /\ rows'[f] = new /\ \A s \in Rows : s # f => rows'[s] = rows[s]
      /\ trail' \in [Rows -> SUBSET Events] /\ \A r \in Rows : trail[r] \subseteq trail'[r]
  BY <1>1, <1>5, <1>6, <1>7, RowWrite, LogWrite, Still DEF Events
<1>9. StepTypes
  BY <1>2, <1>3, <1>8, Still DEF StepTypes
<1>10. ForwardOK(f)'
  BY <1>1, <1>2, <1>6, <1>8 DEF ForwardOK, Undecided
<1>11. RowChange(f)
  BY <1>1, <1>2, <1>10, RowsAssumption DEF RowChange, IInv, CalledOnce
<1> QED BY <1>1, <1>2, <1>3, <1>4, <1>8, <1>9, <1>11, Mine, RowStepIsSafe

LEMMA FinishSafe ==
  ASSUME IInv, NEW t \in Threads, NEW f \in Forward, thread[t].row = f, Finish(t)
  PROVE  IInv'
<1> DEFINE out == thread[t].out
           status == IF out \in {"ok", "dry"} THEN "completed" ELSE "failed"
           new == [rows[f] EXCEPT !.status = status, !.executed = TRUE, !.dry = @ \/ out = "dry"]
<1>1. /\ thread[t].pc = "finishing" /\ f \in Rows /\ Holds(t, f) /\ rows[f] \in Row
      /\ rows[f].status = "executing" /\ ForwardOK(f) /\ out \in {"ok", "dry", "failed", "blocked"}
      /\ out = "dry" => calls[f] = 0
  BY MoverFacts DEF Finish, At, HandlerOK, Holds, Working
<1>2. UNCHANGED <<anomaly, swept, calls, trail, faults>>
  BY DEF Finish
<1>3. /\ thread' \in [Threads -> ThreadState] /\ thread'[t].pc = "recording"
      /\ thread'[t].row = f /\ thread'[t].out \in {"ok", "dry", "failed", "blocked"}
      /\ \A u \in Threads : u # t => thread'[u] = thread[u]
  BY <1>1, Still, GotoMoves, PcsFact DEF Finish, Reporting
<1>4. /\ new \in Row /\ new.status \in {"completed", "failed"} /\ new.approval = rows[f].approval
      /\ new.link = rows[f].link /\ new.pre = rows[f].pre
      /\ new.dry = (rows[f].dry \/ out = "dry")
  <2>1. status \in {"completed", "failed"} /\ status \in Statuses
    BY DEF Statuses
  <2> HIDE DEF status
  <2> QED BY <1>1, <2>1 DEF Row
<1>5. rows' = [rows EXCEPT ![f] = new]
  BY DEF Finish
<1> HIDE DEF new
<1>6. rows' \in [Rows -> Row] /\ rows'[f] = new /\ \A s \in Rows : s # f => rows'[s] = rows[s]
  BY <1>1, <1>4, <1>5, RowWrite, Still
<1>7. StepTypes
  BY <1>2, <1>3, <1>6, Still DEF StepTypes
<1>8. HandlerOK(t)'
  BY <1>3 DEF HandlerOK, Working, Undoing, Rolling, UndoReporting
<1>9. ForwardOK(f)'
  <2>1. calls[f] > 0 => out # "dry"
    BY <1>1
  <2>2. calls[f] > 0 => new.pre /\ ~new.dry
    BY <1>1, <1>4, <2>1 DEF ForwardOK
  <2>3. new.link = None
    BY <1>1, <1>4 DEF ForwardOK
  <2>4. calls[f] > 0 => /\ "started" \in trail[f]
                        /\ new.approval => "approved" \in trail[f]
    BY <1>1, <1>4 DEF ForwardOK
  <2> HIDE DEF out
  <2> QED BY <1>2, <1>4, <1>6, <2>2, <2>3, <2>4 DEF ForwardOK, Undecided
<1>10. RowChange(f)
  BY <1>1, <1>2, <1>9, RowsAssumption DEF RowChange, IInv, CalledOnce
<1>11. \A r \in Rows : ~Holds(t, r)'
  BY <1>3 DEF Holds, Working, Undoing
<1> QED BY <1>1, <1>2, <1>3, <1>6, <1>7, <1>8, <1>10, <1>11, Mine, Still, RowStepIsSafe

\* A step that holds nothing afterwards and touches no row and no cloud.
LEMMA LetsGo ==
  ASSUME IInv, NEW t \in Threads, UNCHANGED <<rows, swept, calls>>,
         anomaly' \in [Forward -> BOOLEAN], faults' \in 0..MaxFaults, trail' \in [Rows -> SUBSET Events],
         \A r \in Rows : trail[r] \subseteq trail'[r], Done(t)
  PROVE  IInv'
<1>1. /\ thread' \in [Threads -> ThreadState] /\ thread'[t].pc = "idle"
      /\ \A u \in Threads : u # t => thread'[u] = thread[u]
  BY Still, DoneMoves
<1>2. StepTypes
  BY <1>1, Still DEF StepTypes
<1> QED BY <1>1, <1>2, IdleKnows, QuietStepIsSafe

LEMMA RecordSafe ==
  ASSUME IInv, NEW t \in Threads, NEW f \in Forward, thread[t].row = f, Record(t)
  PROVE  IInv'
<1> DEFINE event == IF thread[t].out \in {"ok", "dry"} THEN "completed" ELSE thread[t].out
<1>1. thread[t].pc = "recording" /\ f \in Rows /\ event \in Events /\ Log(f, event)
  BY MoverFacts DEF Record, At, HandlerOK, Events
<1>2. UNCHANGED <<rows, anomaly, swept, calls, faults>>
  BY DEF Record
<1> HIDE DEF event
<1>3. trail' \in [Rows -> SUBSET Events] /\ \A r \in Rows : trail[r] \subseteq trail'[r]
  BY <1>1, LogWrite, Still
<1>4. CASE Done(t)
  BY <1>2, <1>3, <1>4, LetsGo, Still
<1>5. CASE Goto(t, "resolving")
  <2>1. /\ thread' \in [Threads -> ThreadState] /\ thread'[t].pc = "resolving" /\ thread'[t].row = f
        /\ \A u \in Threads : u # t => thread'[u] = thread[u]
    BY <1>5, Still, GotoMoves, PcsFact DEF Reporting
  <2>2. StepTypes
    BY <1>2, <1>3, <2>1, Still DEF StepTypes
  <2>3. HandlerOK(t)' /\ \A r \in Rows : ~Holds(t, r)'
    BY <2>1 DEF HandlerOK, Holds, Working, Undoing, Rolling, UndoReporting
  <2> QED BY <1>2, <1>3, <2>1, <2>2, <2>3, QuietStepIsSafe
<1> QED BY <1>4, <1>5 DEF Record

LEMMA ResolveSafe ==
  ASSUME IInv, NEW t \in Threads, Resolve(t)
  PROVE  IInv'
<1>1. anomaly' \in [Forward -> BOOLEAN] /\ UNCHANGED <<rows, swept, calls, trail, faults>> /\ Done(t)
  BY Still DEF Resolve, TypeOK
<1> QED BY <1>1, LetsGo, Still

LEMMA CrashSafe ==
  ASSUME IInv, NEW t \in Threads, Crash(t)
  PROVE  IInv'
<1>1. UNCHANGED <<rows, anomaly, swept, calls, trail>> /\ Fault /\ Done(t)
  BY DEF Crash
<1>2. faults' \in 0..MaxFaults
  BY <1>1, FaultType, Still
<1> QED BY <1>1, <1>2, LetsGo, Still

LEMMA RecordUndoSafe ==
  ASSUME IInv, NEW t \in Threads, RecordUndo(t)
  PROVE  IInv'
<1> DEFINE event == IF thread[t].out = "failed" THEN "rollback_failed" ELSE "rollback_completed"
<1>1. thread[t].undo \in Rows /\ event \in Events /\ Log(thread[t].undo, event)
  BY MoverFacts DEF RecordUndo, At, Events, UndoReporting
<1>2. UNCHANGED <<rows, anomaly, swept, calls, faults>> /\ Done(t)
  BY DEF RecordUndo
<1> HIDE DEF event
<1>3. trail' \in [Rows -> SUBSET Events] /\ \A r \in Rows : trail[r] \subseteq trail'[r]
  BY <1>1, LogWrite, Still
<1> QED BY <1>2, <1>3, LetsGo, Still

\* The types of the reverse actions, and the rows of a rollback in progress.
LEMMA ReverseType == \A type \in DOMAIN REVERSIBLE : REVERSIBLE[type] \in Types
  BY DEF REVERSIBLE, Types, ForwardTypes

LEMMA RollbackInsertSafe ==
  ASSUME IInv, NEW t \in Threads, NEW f \in Forward, thread[t].row = f, RollbackInsert(t)
  PROVE  IInv'
<1>1. /\ thread[t].pc = "inserting" /\ f \in Rows
      /\ rows[f].status \in {"completed", "rolled_back"} /\ rows[f].type \in DOMAIN REVERSIBLE
  BY MoverFacts DEF RollbackInsert, At, HandlerOK, Rolling
<1>2. UNCHANGED <<anomaly, swept, calls, faults>>
  BY DEF RollbackInsert
<1>3. CASE Log(f, "rollback_failed") /\ Done(t) /\ UNCHANGED rows
  <2>1. trail' \in [Rows -> SUBSET Events] /\ \A r \in Rows : trail[r] \subseteq trail'[r]
    BY <1>1, <1>3, LogWrite, Still DEF Events
  <2> QED BY <1>2, <1>3, <2>1, LetsGo, Still
<1>4. ASSUME NEW q \in Reverse, rows[q].status = "absent", UNCHANGED trail,
             rows' = [rows EXCEPT ![q] = [NoRow EXCEPT !.status = "executing",
                          !.type = REVERSIBLE[rows[f].type], !.dry = thread[t].out = "dry"]],
             thread' = [thread EXCEPT ![t].pc = "linking", ![t].undo = q]
      PROVE  IInv'
  <2> DEFINE new == [NoRow EXCEPT !.status = "executing", !.type = REVERSIBLE[rows[f].type],
                                  !.dry = thread[t].out = "dry"]
             moved == [thread[t] EXCEPT !.pc = "linking", !.undo = q]
  <2>1. new \in Row /\ new.status = "executing" /\ new.link = None /\ ~new.executed
    BY <1>1, ReverseType DEF NoRow, Row, Statuses, IN_FLIGHT_STATUSES
  <2>2. moved \in ThreadState /\ moved.pc = "linking" /\ moved.undo = q /\ moved.row = f
    <3>1. thread[t] \in ThreadState
      BY Still DEF TypeOK, ThreadState
    <3>2. "linking" \in Pcs
      BY DEF Pcs, Undoing
    <3> QED BY <3>1, <3>2 DEF ThreadState
  <2>3. rows' = [rows EXCEPT ![q] = new] /\ thread' = [thread EXCEPT ![t] = moved]
    <3>1. [thread EXCEPT ![t].pc = "linking", ![t].undo = q] = [thread EXCEPT ![t] = moved]
      OBVIOUS
    <3>2. thread' = [thread EXCEPT ![t] = moved]
      BY <1>4, <3>1
    <3> QED BY <1>4, <3>2
  <2> HIDE DEF new, moved
  <2>4. q \in Rows /\ q # f /\ calls[q] = 0
    BY <1>4, RowsAssumption DEF Rows, IInv, Table, ReverseOK
  <2>5. rows' \in [Rows -> Row] /\ rows'[q] = new /\ \A s \in Rows : s # q => rows'[s] = rows[s]
    BY <2>1, <2>3, <2>4, RowWrite, Still
  <2>6. /\ thread' \in [Threads -> ThreadState] /\ thread'[t] = moved
        /\ \A u \in Threads : u # t => thread'[u] = thread[u]
    BY <2>2, <2>3, Still DEF TypeOK, ThreadState
  <2>7. StepTypes
    BY <1>2, <1>4, <2>5, <2>6, Still DEF StepTypes
  <2>8. HandlerOK(t)'
    BY <1>1, <1>2, <2>1, <2>2, <2>4, <2>5, <2>6 DEF HandlerOK, Working, Undoing, Rolling, UndoReporting
  <2>9. RowChange(q)
    BY <1>2, <2>1, <2>4, <2>5, RowsAssumption DEF RowChange, ReverseOK
  <2>10. \A u \in Threads : ~Holds(u, q)
    BY <1>4, <2>4, NotHeld
  <2>11. \A s \in Rows : Holds(t, s)' => s = q
    BY <2>2, <2>6 DEF Holds, Working
  <2> QED BY <1>2, <1>4, <2>4, <2>5, <2>6, <2>7, <2>8, <2>9, <2>10, <2>11, Still, RowStepIsSafe
<1> QED BY <1>3, <1>4 DEF RollbackInsert

\* What a rollback that has inserted its row q knows of it and of its original.
LEMMA RollingFacts ==
  ASSUME IInv, NEW t \in Threads, NEW f \in Forward, thread[t].row = f,
         NEW q \in Reverse, thread[t].undo = q, thread[t].pc \in Undoing \cup UndoReporting
  PROVE  /\ f \in Rows /\ q \in Rows /\ q # f /\ rows[f] \in Row /\ rows[q] \in Row
         /\ rows[f].status \in {"completed", "rolled_back"} /\ rows[f].type \in DOMAIN REVERSIBLE
         /\ thread[t].pc \in Undoing => rows[q].status = "executing" /\ ~rows[q].executed /\ Holds(t, q)
         /\ thread[t].pc \in {"linking", "superseding", "undoing"} => calls[q] = 0
         /\ ForwardOK(f) /\ ReverseOK(q)
<1>1. thread[t].pc # "idle"
  BY DEF Undoing, UndoReporting
<1> QED BY <1>1, MoverFacts, RowsAssumption DEF HandlerOK, Rolling, Holds

LEMMA RollbackLinkSafe ==
  ASSUME IInv, NEW t \in Threads, NEW f \in Forward, thread[t].row = f,
         NEW q \in Reverse, thread[t].undo = q, RollbackLink(t)
  PROVE  IInv'
<1>1. /\ thread[t].pc = "linking" /\ f \in Rows /\ q \in Rows /\ q # f /\ rows[f] \in Row
      /\ rows[f].status \in {"completed", "rolled_back"} /\ rows[f].type \in DOMAIN REVERSIBLE
      /\ rows[q].status = "executing" /\ ~rows[q].executed /\ Holds(t, q) /\ calls[q] = 0 /\ ForwardOK(f)
  BY RollingFacts DEF RollbackLink, At, Undoing
<1>2. UNCHANGED <<anomaly, swept, calls, trail, faults>>
  BY DEF RollbackLink
<1>3. CASE rows' = [rows EXCEPT ![f].link = q] /\ Goto(t, "undoing")
  <2> DEFINE new == [rows[f] EXCEPT !.link = q]
  <2>1. /\ new \in Row /\ new.status = rows[f].status /\ new.type = rows[f].type
        /\ new.approval = rows[f].approval /\ new.pre = rows[f].pre /\ new.dry = rows[f].dry
    BY <1>1 DEF Row
  <2>2. rows' = [rows EXCEPT ![f] = new]
    BY <1>3
  <2> HIDE DEF new
  <2>3. rows' \in [Rows -> Row] /\ rows'[f] = new /\ \A s \in Rows : s # f => rows'[s] = rows[s]
    BY <1>1, <2>1, <2>2, RowWrite, Still
  <2>4. /\ thread' \in [Threads -> ThreadState] /\ thread'[t].pc = "undoing" /\ thread'[t].row = f
        /\ thread'[t].undo = q /\ \A u \in Threads : u # t => thread'[u] = thread[u]
    BY <1>3, Still, GotoMoves, PcsFact DEF Undoing
  <2>5. StepTypes
    BY <1>2, <2>3, <2>4, Still DEF StepTypes
  <2>6. HandlerOK(t)'
    BY <1>1, <1>2, <2>1, <2>3, <2>4 DEF HandlerOK, Working, Undoing, Rolling, UndoReporting
  <2>7. ForwardOK(f)'
    BY <1>1, <1>2, <2>1, <2>3 DEF ForwardOK, Undecided
  <2>8. RowChange(f)
    BY <1>1, <1>2, <2>1, <2>3, <2>7, RowsAssumption DEF RowChange, IInv, CalledOnce
  <2>9. \A u \in Threads : ~Holds(u, f)
    BY <1>1, NotHeld
  <2>10. \A s \in Rows : Holds(t, s)' => Holds(t, s)
    BY <1>1, <2>4 DEF Holds, Working, Undoing
  <2> QED BY <1>1, <1>2, <2>3, <2>4, <2>5, <2>6, <2>8, <2>9, <2>10, Still, RowStepIsSafe
<1>4. CASE Goto(t, "superseding") /\ UNCHANGED rows
  <2>1. /\ thread' \in [Threads -> ThreadState] /\ thread'[t].pc = "superseding" /\ thread'[t].row = f
        /\ thread'[t].undo = q /\ \A u \in Threads : u # t => thread'[u] = thread[u]
    BY <1>4, Still, GotoMoves, PcsFact DEF Undoing
  <2>2. StepTypes
    BY <1>2, <1>4, <2>1, Still DEF StepTypes
  <2>3. HandlerOK(t)'
    BY <1>1, <1>2, <1>4, <2>1 DEF HandlerOK, Working, Undoing, Rolling, UndoReporting
  <2>4. \A s \in Rows : Holds(t, s)' => Holds(t, s)
    BY <1>1, <2>1 DEF Holds, Working, Undoing
  <2> QED BY <1>2, <1>4, <2>1, <2>2, <2>3, <2>4, Still, QuietStepIsSafe
<1> QED BY <1>3, <1>4 DEF RollbackLink

\* The rollback's own row is written and the rollback holds nothing of it any more.
LEMMA UndoRowWrite ==
  ASSUME IInv, NEW t \in Threads, NEW f \in Forward, thread[t].row = f,
         NEW q \in Reverse, thread[t].undo = q, thread[t].pc \in Undoing,
         NEW new \in Row, new.status \in {"executing", "completed", "failed"}, new.link = None,
         rows' = [rows EXCEPT ![q] = new], UNCHANGED <<anomaly, swept, calls, trail, faults>>,
         Done(t) \/ Goto(t, "marking")
  PROVE  IInv'
<1>1. /\ f \in Rows /\ q \in Rows /\ q # f /\ Holds(t, q)
      /\ rows[f].status \in {"completed", "rolled_back"} /\ rows[f].type \in DOMAIN REVERSIBLE
  BY RollingFacts
<1>2. rows' \in [Rows -> Row] /\ rows'[q] = new /\ \A s \in Rows : s # q => rows'[s] = rows[s]
  BY <1>1, RowWrite, Still
<1>3. RowChange(q)
  BY <1>1, <1>2, RowsAssumption DEF RowChange, ReverseOK, IInv, CalledOnce
<1>4. CASE Done(t)
  <2>1. /\ thread' \in [Threads -> ThreadState] /\ thread'[t].pc = "idle"
        /\ \A u \in Threads : u # t => thread'[u] = thread[u]
    BY <1>4, Still, DoneMoves
  <2>2. StepTypes
    BY <1>2, <2>1, Still DEF StepTypes
  <2> QED BY <1>1, <1>2, <1>3, <2>1, <2>2, IdleKnows, Mine, Still, RowStepIsSafe
<1>5. CASE Goto(t, "marking")
  <2>1. /\ thread' \in [Threads -> ThreadState] /\ thread'[t].pc = "marking" /\ thread'[t].row = f
        /\ thread'[t].undo = q /\ \A u \in Threads : u # t => thread'[u] = thread[u]
    BY <1>5, Still, GotoMoves, PcsFact DEF UndoReporting
  <2>2. StepTypes
    BY <1>2, <2>1, Still DEF StepTypes
  <2>3. HandlerOK(t)' /\ \A s \in Rows : ~Holds(t, s)'
    BY <1>1, <1>2, <2>1 DEF HandlerOK, Holds, Working, Undoing, Rolling, UndoReporting
  <2> QED BY <1>1, <1>2, <1>3, <2>1, <2>2, <2>3, Mine, Still, RowStepIsSafe
<1> QED BY <1>4, <1>5

LEMMA SupersedeSafe ==
  ASSUME IInv, NEW t \in Threads, NEW f \in Forward, thread[t].row = f,
         NEW q \in Reverse, thread[t].undo = q, Supersede(t)
  PROVE  IInv'
<1> DEFINE new == [rows[q] EXCEPT !.status = "failed"]
<1>1. thread[t].pc \in Undoing /\ rows[q] \in Row /\ ReverseOK(q)
  BY RollingFacts DEF Supersede, At, Undoing
<1>2. new \in Row /\ new.status = "failed" /\ new.link = None
  BY <1>1 DEF Row, Statuses, ReverseOK
<1>3. /\ rows' = [rows EXCEPT ![q] = new] /\ Done(t)
      /\ UNCHANGED <<anomaly, swept, calls, trail, faults>>
  BY DEF Supersede, SetStatus
<1> HIDE DEF new
<1> QED BY <1>1, <1>2, <1>3, UndoRowWrite

LEMMA SubmitUndoSafe ==
  ASSUME IInv, NEW t \in Threads, NEW f \in Forward, thread[t].row = f,
         NEW q \in Reverse, thread[t].undo = q, SubmitUndo(t)
  PROVE  IInv'
<1> DEFINE new == [rows[q] EXCEPT !.executed = TRUE]
<1>1. thread[t].pc \in Undoing /\ rows[q] \in Row /\ ReverseOK(q) /\ rows[q].status = "executing"
  BY RollingFacts DEF SubmitUndo, At, Undoing
<1>2. new \in Row /\ new.status = "executing" /\ new.link = None
  BY <1>1 DEF Row, ReverseOK
<1>3. /\ rows' = [rows EXCEPT ![q] = new] /\ Done(t)
      /\ UNCHANGED <<anomaly, swept, calls, trail, faults>>
  BY DEF SubmitUndo
<1> HIDE DEF new
<1> QED BY <1>1, <1>2, <1>3, UndoRowWrite

LEMMA FinishUndoSafe ==
  ASSUME IInv, NEW t \in Threads, NEW f \in Forward, thread[t].row = f,
         NEW q \in Reverse, thread[t].undo = q, FinishUndo(t)
  PROVE  IInv'
<1> DEFINE status == IF thread[t].out = "failed" THEN "failed" ELSE "completed"
           new == [rows[q] EXCEPT !.executed = TRUE, !.status = status]
<1>1. thread[t].pc \in Undoing /\ rows[q] \in Row /\ ReverseOK(q)
  BY RollingFacts DEF FinishUndo, At, Undoing
<1>2. new \in Row /\ new.status \in {"completed", "failed"} /\ new.link = None
  BY <1>1 DEF Row, Statuses, ReverseOK
<1>3. /\ rows' = [rows EXCEPT ![q] = new] /\ Goto(t, "marking")
      /\ UNCHANGED <<anomaly, swept, calls, trail, faults>>
  BY DEF FinishUndo
<1> HIDE DEF new
<1> QED BY <1>1, <1>2, <1>3, UndoRowWrite

LEMMA UndoSafe ==
  ASSUME IInv, NEW t \in Threads, NEW f \in Forward, thread[t].row = f,
         NEW q \in Reverse, thread[t].undo = q, Undo(t)
  PROVE  IInv'
<1>1. /\ thread[t].pc = "undoing" /\ f \in Rows /\ q \in Rows /\ q # f
      /\ rows[f].status \in {"completed", "rolled_back"} /\ rows[f].type \in DOMAIN REVERSIBLE
      /\ rows[q].status = "executing" /\ ~rows[q].executed /\ Holds(t, q) /\ calls[q] = 0 /\ ReverseOK(q)
  BY RollingFacts DEF Undo, At, Undoing
<1>2. UNCHANGED <<rows, anomaly, swept, trail, faults>>
  BY DEF Undo
<1>3. /\ thread' \in [Threads -> ThreadState] /\ thread'[t].pc \in {"finishingUndo", "submittingUndo"}
      /\ thread'[t].row = f /\ thread'[t].undo = q
      /\ \A u \in Threads : u # t => thread'[u] = thread[u]
  <2>1. CASE Goto(t, "finishingUndo")
    BY <2>1, Still, GotoMoves, PcsFact DEF Undoing
  <2>2. CASE Goto(t, "submittingUndo")
    BY <2>2, Still, GotoMoves, PcsFact DEF Undoing
  <2>3. CASE GotoWith(t, "finishingUndo", "ok")
    BY <2>3, Still, GotoWithMoves, PcsFact DEF Undoing, Outs
  <2>4. CASE GotoWith(t, "finishingUndo", "failed")
    BY <2>4, Still, GotoWithMoves, PcsFact DEF Undoing, Outs
  <2> QED BY <1>1, <2>1, <2>2, <2>3, <2>4 DEF Undo
<1>4. calls' \in [Rows -> Nat] /\ calls'[q] <= 1 /\ \A s \in Rows : s # q => calls'[s] = calls[s]
  <2>1. CASE UNCHANGED calls
    BY <1>1, <2>1, Still
  <2>2. CASE calls' = [calls EXCEPT ![q] = @ + 1]
    BY <1>1, <2>2, Still DEF TypeOK
  <2> QED BY <1>1, <2>1, <2>2 DEF Undo
<1>5. StepTypes
  BY <1>2, <1>3, <1>4, Still DEF StepTypes
<1>6. HandlerOK(t)'
  BY <1>1, <1>2, <1>3 DEF HandlerOK, Working, Undoing, Rolling, UndoReporting
<1>7. RowChange(q)
  BY <1>1, <1>2, <1>4, RowsAssumption DEF RowChange, ReverseOK
<1>8. \A s \in Rows : Holds(t, s)' => Holds(t, s)
  BY <1>1, <1>3 DEF Holds, Working, Undoing
<1> QED BY <1>1, <1>2, <1>3, <1>4, <1>5, <1>6, <1>7, <1>8, Mine, Still, RowStepIsSafe

\* Unlinking what a failed rollback held changes only completed originals.
LEMMA UnlinkedRow ==
  ASSUME IInv, NEW r \in Rows, NEW q \in Rows, rows[r].link = q, rows[r].status = "completed",
         rows'[r] = [rows[r] EXCEPT !.link = None], UNCHANGED calls,
         \A s \in Rows : trail[s] \subseteq trail'[s]
  PROVE  rows'[r] \in Row /\ RowChange(r) /\ \A u \in Threads : ~Holds(u, r)
<1>1. r \in Forward /\ r \notin Reverse /\ ForwardOK(r)
  BY RowsAssumption DEF IInv, Table, ReverseOK, Rows
<1> DEFINE new == [rows[r] EXCEPT !.link = None]
<1>2. /\ new \in Row /\ new.status = "completed" /\ new.type = rows[r].type /\ new.link = None
      /\ new.approval = rows[r].approval /\ new.pre = rows[r].pre /\ new.dry = rows[r].dry
  BY Still DEF TypeOK, Row
<1>3. rows'[r] = new
  OBVIOUS
<1> HIDE DEF new
<1>4. ForwardOK(r)'
  BY <1>1, <1>2, <1>3 DEF ForwardOK, Undecided
<1>5. RowChange(r)
  BY <1>1, <1>2, <1>3, <1>4 DEF RowChange, IInv, CalledOnce
<1> QED BY <1>2, <1>3, <1>5, NotHeld

LEMMA UnlinkedRows ==
  ASSUME IInv, NEW q \in Rows, rows' = Unlinked(rows, q), UNCHANGED calls,
         \A r \in Rows : trail[r] \subseteq trail'[r]
  PROVE  /\ rows' \in [Rows -> Row]
         /\ \A r \in Rows : Same(r) \/ (RowChange(r) /\ \A u \in Threads : ~Holds(u, r))
<1>1. ASSUME NEW r \in Rows
      PROVE  rows'[r] \in Row /\ (Same(r) \/ (RowChange(r) /\ \A u \in Threads : ~Holds(u, r)))
  <2>1. CASE ~(rows[r].link = q /\ rows[r].status = "completed")
    BY <2>1, Still DEF Unlinked, Same, TypeOK
  <2>2. CASE rows[r].link = q /\ rows[r].status = "completed"
    BY <2>2, UnlinkedRow DEF Unlinked
  <2> QED BY <2>1, <2>2
<1>2. rows' = [r \in Rows |-> rows'[r]]
  BY DEF Unlinked
<1> QED BY <1>1, <1>2

LEMMA MarkSafe ==
  ASSUME IInv, NEW t \in Threads, NEW f \in Forward, thread[t].row = f,
         NEW q \in Reverse, thread[t].undo = q, Mark(t)
  PROVE  IInv'
<1>1. /\ thread[t].pc = "marking" /\ f \in Rows /\ q \in Rows /\ rows[f] \in Row
      /\ rows[f].status \in {"completed", "rolled_back"} /\ rows[f].type \in DOMAIN REVERSIBLE /\ ForwardOK(f)
  BY RollingFacts DEF Mark, At, UndoReporting
<1>2. UNCHANGED <<anomaly, swept, calls, trail>>
  BY DEF Mark
<1>3. /\ thread' \in [Threads -> ThreadState] /\ thread'[t].pc = "recordingUndo" /\ thread'[t].row = f
      /\ thread'[t].undo = q /\ \A u \in Threads : u # t => thread'[u] = thread[u]
  BY Still, GotoMoves, PcsFact DEF Mark, UndoReporting
<1>4. \A s \in Rows : ~Holds(t, s)'
  BY <1>3 DEF Holds, Working, Undoing
<1>5. faults' \in 0..MaxFaults
  BY FaultType, Still DEF Mark
<1>6. ASSUME rows'[f].status \in {"completed", "rolled_back"}, rows'[f].type = rows[f].type
      PROVE  HandlerOK(t)'
  BY <1>1, <1>3, <1>6 DEF HandlerOK, Working, Undoing, Rolling, UndoReporting
<1>7. CASE SetStatus(f, "rolled_back")
  <2> DEFINE new == [rows[f] EXCEPT !.status = "rolled_back"]
  <2>1. /\ new \in Row /\ new.status = "rolled_back" /\ new.type = rows[f].type
        /\ new.approval = rows[f].approval /\ new.pre = rows[f].pre /\ new.dry = rows[f].dry
    BY <1>1 DEF Row, Statuses
  <2>2. rows' = [rows EXCEPT ![f] = new]
    BY <1>7 DEF SetStatus
  <2> HIDE DEF new
  <2>3. rows' \in [Rows -> Row] /\ rows'[f] = new /\ \A s \in Rows : s # f => rows'[s] = rows[s]
    BY <1>1, <2>1, <2>2, RowWrite, Still
  <2>4. StepTypes
    BY <1>2, <1>3, <1>5, <2>3, Still DEF StepTypes
  <2>5. ForwardOK(f)'
    BY <1>1, <1>2, <2>1, <2>3 DEF ForwardOK, Undecided
  <2>6. RowChange(f)
    BY <1>1, <1>2, <2>1, <2>3, <2>5, RowsAssumption DEF RowChange, IInv, CalledOnce
  <2>7. \A u \in Threads : ~Holds(u, f)
    BY <1>1, NotHeld
  <2> QED BY <1>1, <1>2, <1>3, <1>4, <1>6, <2>1, <2>3, <2>4, <2>6, <2>7, Still, RowStepIsSafe
<1>8. CASE rows' = Unlinked(rows, q)
  <2>1. /\ rows' \in [Rows -> Row]
        /\ \A r \in Rows : Same(r) \/ (RowChange(r) /\ \A u \in Threads : ~Holds(u, r))
    BY <1>1, <1>2, <1>8, UnlinkedRows, Still
  <2>2. rows'[f].status \in {"completed", "rolled_back"} /\ rows'[f].type = rows[f].type
    BY <1>1, <2>1 DEF Same, RowChange
  <2>3. StepTypes
    BY <1>2, <1>3, <1>5, <2>1, Still DEF StepTypes
  <2> QED BY <1>2, <1>3, <1>4, <1>6, <2>1, <2>2, <2>3, Still, StepIsSafe
<1>9. CASE UNCHANGED rows
  <2>1. StepTypes
    BY <1>2, <1>3, <1>5, <1>9, Still DEF StepTypes
  <2> QED BY <1>1, <1>2, <1>3, <1>4, <1>6, <1>9, <2>1, Still, QuietStepIsSafe
<1> QED BY <1>7, <1>8, <1>9 DEF Mark

----
\* How a call begins, and the steps of no call.

\* A call that begins with state `first` holds nothing yet.
LEMMA BeginsSafely ==
  ASSUME IInv, NEW t \in Threads, NEW first \in ThreadState, thread' = [thread EXCEPT ![t] = first],
         first.pc \in {"deciding", "expiring", "claiming", "inserting"}, HandlerOK(t)',
         UNCHANGED <<rows, anomaly, swept, calls, faults>>, trail' \in [Rows -> SUBSET Events],
         \A r \in Rows : trail[r] \subseteq trail'[r]
  PROVE  IInv'
<1>1. /\ thread' \in [Threads -> ThreadState] /\ thread'[t] = first
      /\ \A u \in Threads : u # t => thread'[u] = thread[u]
  BY Still DEF TypeOK, ThreadState
<1>2. \A r \in Rows : ~Holds(t, r)'
  BY <1>1 DEF Holds, Working, Undoing
<1>3. StepTypes
  BY <1>1, Still DEF StepTypes
<1> QED BY <1>1, <1>2, <1>3, QuietStepIsSafe

LEMMA ReviewReadSafe ==
  ASSUME IInv, NEW t \in Threads, NEW f \in Forward, NEW verdict \in {"approved", "rejected"},
         ReviewRead(t, f, verdict)
  PROVE  IInv'
<1> DEFINE first == [Idle EXCEPT !.pc = "deciding", !.row = f, !.seen = rows[f].status, !.out = verdict]
<1>1. rows[f].status \in Undecided /\ f \in Rows
  BY DEF ReviewRead, Rows
<1>2. /\ first \in ThreadState /\ first.pc = "deciding" /\ first.row = f
      /\ first.seen = rows[f].status /\ first.out = verdict
  BY <1>1 DEF Idle, ThreadState, Pcs, Outs, Statuses, IN_FLIGHT_STATUSES
<1>3. /\ thread' = [thread EXCEPT ![t] = first] /\ Log(f, verdict)
      /\ UNCHANGED <<rows, anomaly, swept, calls, faults>>
  BY DEF ReviewRead
<1> HIDE DEF first
<1>4. /\ trail' \in [Rows -> SUBSET Events] /\ \A r \in Rows : trail[r] \subseteq trail'[r]
      /\ verdict \in trail'[f]
  BY <1>1, <1>3, LogWrite, Still DEF Events
<1>5. thread'[t] = first
  BY <1>3, Still DEF TypeOK
<1>6. HandlerOK(t)'
  BY <1>1, <1>2, <1>3, <1>4, <1>5 DEF HandlerOK, Working, Undoing, Rolling, UndoReporting
<1> QED BY <1>2, <1>3, <1>4, <1>6, BeginsSafely

LEMMA ExpiryReadSafe ==
  ASSUME IInv, NEW t \in Threads, NEW f \in Forward, ExpiryRead(t, f)
  PROVE  IInv'
<1> DEFINE first == [Idle EXCEPT !.pc = "expiring", !.row = f, !.seen = rows[f].status]
<1>1. rows[f].status \in Undecided \cup {"approved"}
  BY DEF ExpiryRead
<1>2. first \in ThreadState /\ first.pc = "expiring" /\ first.row = f /\ first.seen = rows[f].status
  BY <1>1 DEF Idle, ThreadState, Pcs, Outs, Statuses, IN_FLIGHT_STATUSES
<1>3. /\ thread' = [thread EXCEPT ![t] = first]
      /\ UNCHANGED <<rows, anomaly, swept, calls, trail, faults>>
  BY DEF ExpiryRead
<1> HIDE DEF first
<1>4. thread'[t] = first
  BY <1>3, Still DEF TypeOK
<1>5. HandlerOK(t)'
  BY <1>1, <1>2, <1>4 DEF HandlerOK, Working, Undoing, Rolling, UndoReporting
<1> QED BY <1>2, <1>3, <1>5, Still, BeginsSafely

LEMMA ExecuteReadSafe ==
  ASSUME IInv, NEW t \in Threads, NEW f \in Forward, ExecuteRead(t, f)
  PROVE  IInv'
<1> DEFINE first == [Idle EXCEPT !.pc = "claiming", !.row = f, !.seen = rows[f].status]
<1>1. rows[f].status \in {"approved", "pending"}
  BY DEF ExecuteRead, Claimable
<1>2. first \in ThreadState /\ first.pc = "claiming" /\ first.row = f /\ first.seen = rows[f].status
  BY <1>1 DEF Idle, ThreadState, Pcs, Outs, Statuses, IN_FLIGHT_STATUSES, Undecided
<1>3. /\ thread' = [thread EXCEPT ![t] = first]
      /\ UNCHANGED <<rows, anomaly, swept, calls, trail, faults>>
  BY DEF ExecuteRead
<1> HIDE DEF first
<1>4. thread'[t] = first
  BY <1>3, Still DEF TypeOK
<1>5. HandlerOK(t)'
  BY <1>1, <1>2, <1>4 DEF HandlerOK, Working, Undoing, Rolling, UndoReporting
<1> QED BY <1>2, <1>3, <1>5, Still, BeginsSafely

LEMMA RollbackReadSafe ==
  ASSUME IInv, NEW t \in Threads, NEW f \in Forward, RollbackRead(t, f)
  PROVE  IInv'
<1>1. /\ rows[f].status = "completed" /\ rows[f].type \in DOMAIN REVERSIBLE
      /\ UNCHANGED <<rows, anomaly, swept, calls, trail, faults>>
  BY DEF RollbackRead
<1>2. PICK mode \in {"dry", "real"} :
        thread' = [thread EXCEPT ![t] = [Idle EXCEPT !.pc = "inserting", !.row = f, !.out = mode]]
  BY DEF RollbackRead
<1> DEFINE first == [Idle EXCEPT !.pc = "inserting", !.row = f, !.out = mode]
<1>3. first \in ThreadState /\ first.pc = "inserting" /\ first.row = f
  BY DEF Idle, ThreadState, Pcs, Outs
<1>4. thread' = [thread EXCEPT ![t] = first]
  BY <1>2
<1> HIDE DEF first
<1>5. thread'[t] = first
  BY <1>4, Still DEF TypeOK
<1>6. HandlerOK(t)'
  BY <1>1, <1>3, <1>5 DEF HandlerOK, Working, Undoing, Rolling, UndoReporting
<1> QED BY <1>1, <1>3, <1>4, <1>6, Still, BeginsSafely

LEMMA ProposeSafe == ASSUME IInv, NEW f \in Forward, Propose(f) PROVE IInv'
<1>1. /\ rows[f].status = "absent" /\ UNCHANGED <<anomaly, thread, swept, calls, trail, faults>>
      /\ f \in Rows /\ ForwardOK(f)
  BY DEF Propose, Rows, IInv, Table
<1>2. PICK type \in Proposable, approval \in BOOLEAN, dry \in BOOLEAN :
        rows' = [rows EXCEPT ![f] = [NoRow EXCEPT
              !.status = IF approval THEN "pending_approval" ELSE "pending",
              !.type = type, !.approval = approval, !.dry = dry]]
  BY DEF Propose
<1> DEFINE new == [NoRow EXCEPT !.status = IF approval THEN "pending_approval" ELSE "pending",
                               !.type = type, !.approval = approval, !.dry = dry]
<1>3. /\ new \in Row /\ new.status \in Undecided /\ new.link = None /\ ~new.executed
      /\ new.status = "pending" => ~new.approval
  BY TypesAssumption DEF NoRow, Row, Statuses, IN_FLIGHT_STATUSES, Undecided, Types
<1>4. rows' = [rows EXCEPT ![f] = new]
  BY <1>2
<1> HIDE DEF new
<1>5. rows' \in [Rows -> Row] /\ rows'[f] = new /\ \A s \in Rows : s # f => rows'[s] = rows[s]
  BY <1>1, <1>3, <1>4, RowWrite, Still
<1>6. ForwardOK(f)'
  BY <1>1, <1>3, <1>5 DEF ForwardOK, Undecided
<1>7. RowChange(f) /\ \A u \in Threads : ~Holds(u, f)
  BY <1>1, <1>6, RowsAssumption, NotHeld DEF RowChange, IInv, CalledOnce
<1>8. StepTypes
  BY <1>1, <1>5, Still DEF StepTypes
<1>9. \A r \in Rows : Same(r) \/ (RowChange(r) /\ \A u \in Threads : ~Holds(u, r))
  BY <1>1, <1>5, <1>7 DEF Same
<1> QED BY <1>1, <1>8, <1>9, Still, TableStepIsSafe

LEMMA CloseAnomalySafe == ASSUME IInv, NEW f \in Forward, CloseAnomaly(f) PROVE IInv'
<1>1. UNCHANGED <<rows, thread, swept, calls, trail, faults>> /\ anomaly' \in [Forward -> BOOLEAN]
  BY Still DEF CloseAnomaly, TypeOK
<1>2. StepTypes /\ \A r \in Rows : Same(r)
  BY <1>1, Still DEF StepTypes, Same
<1> QED BY <1>1, <1>2, Still, TableStepIsSafe

LEMMA CrashSweepSafe == ASSUME IInv, CrashSweep PROVE IInv'
<1>1. UNCHANGED <<rows, anomaly, thread, calls, trail>> /\ swept' = {} /\ faults' \in 0..MaxFaults
  BY FaultType, Still DEF CrashSweep
<1>2. StepTypes /\ \A r \in Rows : Same(r)
  BY <1>1, Still DEF StepTypes, Same
<1> QED BY <1>1, <1>2, Still, TableStepIsSafe

\* The sweep's condition, that no live call holds the claim, is what it needs.
LEMMA SweepSafe == ASSUME IInv, Sweep PROVE IInv'
<1>1. PICK S \in SUBSET {r \in Unsubmitted : ~Held(r)} :
        /\ rows' = [r \in Rows |-> IF r \in S THEN [rows[r] EXCEPT !.status = "failed"] ELSE rows[r]]
        /\ swept' = swept \cup S
  BY DEF Sweep, SweepOf
<1>2. UNCHANGED <<anomaly, thread, calls, trail, faults>>
  BY DEF Sweep, SweepOf
<1>3. ASSUME NEW r \in Rows PROVE rows'[r] \in Row
  <2>1. rows[r] \in Row /\ [rows[r] EXCEPT !.status = "failed"] \in Row
    BY Still DEF TypeOK, Row, Statuses
  <2> QED BY <1>1, <2>1
<1>4. ASSUME NEW r \in Rows PROVE Same(r) \/ (RowChange(r) /\ \A u \in Threads : ~Holds(u, r))
  <2>1. CASE r \notin S
    BY <1>1, <1>2, <2>1 DEF Same
  <2>2. CASE r \in S
    <3>1. rows[r].status = "executing" /\ ~Held(r) /\ rows[r] \in Row
      BY <2>2, Still DEF Unsubmitted, TypeOK
    <3>2. \A u \in Threads : ~Holds(u, r)
      BY <3>1 DEF Held, Holds
    <3> DEFINE new == [rows[r] EXCEPT !.status = "failed"]
    <3>3. /\ new.status = "failed" /\ new.approval = rows[r].approval /\ new.link = rows[r].link
          /\ new.pre = rows[r].pre /\ new.dry = rows[r].dry
      BY <3>1 DEF Row
    <3>4. rows'[r] = new
      BY <1>1, <2>2
    <3> HIDE DEF new
    <3>5. ASSUME r \in Forward PROVE ForwardOK(r)'
      BY <1>2, <3>1, <3>3, <3>4, <3>5 DEF ForwardOK, Undecided, IInv, Table
    <3>6. ASSUME r \in Reverse PROVE ReverseOK(r)'
      BY <1>2, <3>1, <3>3, <3>4, <3>6 DEF ReverseOK, IInv, Table
    <3> QED BY <1>2, <3>1, <3>2, <3>5, <3>6 DEF RowChange, IInv, CalledOnce
  <2> QED BY <2>1, <2>2
<1>5. rows' = [r \in Rows |-> rows'[r]] /\ swept' \subseteq Rows
  BY <1>1, Still DEF TypeOK, Unsubmitted
<1>6. rows' \in [Rows -> Row]
  BY <1>3, <1>5
<1>7. StepTypes
  BY <1>2, <1>5, <1>6, Still DEF StepTypes
<1> QED BY <1>2, <1>4, <1>7, Still, TableStepIsSafe

LEMMA SweepReleaseSafe == ASSUME IInv, NEW r \in Rows, SweepRelease(r) PROVE IInv'
<1>1. /\ UNCHANGED <<anomaly, thread, calls>> /\ Log(r, "failed") /\ swept' \subseteq Rows
  BY Still DEF SweepRelease, TypeOK
<1>2. trail' \in [Rows -> SUBSET Events] /\ \A s \in Rows : trail[s] \subseteq trail'[s]
  BY <1>1, LogWrite, Still DEF Events
<1>3. faults' \in 0..MaxFaults
  BY FaultType, Still DEF SweepRelease
<1>4. /\ rows' \in [Rows -> Row]
      /\ \A s \in Rows : Same(s) \/ (RowChange(s) /\ \A u \in Threads : ~Holds(u, s))
  <2>1. CASE rows' = Unlinked(rows, r)
    BY <1>1, <1>2, <2>1, UnlinkedRows
  <2>2. CASE UNCHANGED rows
    BY <1>1, <2>2, Still DEF Same
  <2> QED BY <2>1, <2>2 DEF SweepRelease
<1>5. StepTypes
  BY <1>1, <1>2, <1>3, <1>4, Still DEF StepTypes
<1> QED BY <1>1, <1>2, <1>4, <1>5, TableStepIsSafe

\* A submitted row, that no call holds any more, gets its outcome.
LEMMA VerdictRow ==
  ASSUME IInv, NEW r \in Rows, Awaiting(r), NEW status \in {"completed", "failed"}
  PROVE  LET new == [rows[r] EXCEPT !.status = status] IN
         /\ new \in Row /\ new.status = status /\ new.link = None /\ new.type = rows[r].type
         /\ new.approval = rows[r].approval /\ new.pre = rows[r].pre /\ new.dry = rows[r].dry
         /\ \A u \in Threads : ~Holds(u, r)
         /\ rows[r].status = "executing"
<1>1. rows[r] \in Row /\ rows[r].status = "executing" /\ rows[r].executed
  BY Still DEF TypeOK, Awaiting
<1>2. rows[r].link = None
  BY <1>1 DEF IInv, Table, ForwardOK, ReverseOK, Rows
<1> QED BY <1>1, <1>2, NotHeld DEF Row, Statuses

LEMMA VerdictChange ==
  ASSUME IInv, NEW r \in Rows, Awaiting(r), NEW status \in {"completed", "failed"},
         rows'[r] = [rows[r] EXCEPT !.status = status], UNCHANGED calls,
         \A s \in Rows : trail[s] \subseteq trail'[s]
  PROVE  RowChange(r)
<1> DEFINE new == [rows[r] EXCEPT !.status = status]
<1>1. /\ new.status = status /\ new.link = None /\ new.approval = rows[r].approval
      /\ new.pre = rows[r].pre /\ new.dry = rows[r].dry /\ rows[r].status = "executing"
  BY VerdictRow
<1>2. rows'[r] = new
  OBVIOUS
<1> HIDE DEF new
<1>3. ASSUME r \in Forward PROVE ForwardOK(r)'
  BY <1>1, <1>2, <1>3 DEF ForwardOK, Undecided, IInv, Table
<1>4. ASSUME r \in Reverse PROVE ReverseOK(r)'
  BY <1>1, <1>2, <1>4 DEF ReverseOK, IInv, Table
<1> QED BY <1>1, <1>3, <1>4 DEF RowChange, IInv, CalledOnce

\* The original of a verified rollback is marked with it.
LEMMA RolledBackRow ==
  ASSUME IInv, NEW f \in Rows, NEW q \in Rows, rows[f].link = q, UNCHANGED calls,
         rows'[f] = [rows[f] EXCEPT !.status = "rolled_back"],
         \A s \in Rows : trail[s] \subseteq trail'[s]
  PROVE  rows'[f] \in Row /\ RowChange(f) /\ \A u \in Threads : ~Holds(u, f)
<1>1. f \in Forward /\ f \notin Reverse /\ ForwardOK(f) /\ rows[f].link # None
  BY RowsAssumption DEF IInv, Table, ReverseOK, Rows
<1> DEFINE new == [rows[f] EXCEPT !.status = "rolled_back"]
<1>2. /\ new \in Row /\ new.status = "rolled_back" /\ new.type = rows[f].type
      /\ new.approval = rows[f].approval /\ new.pre = rows[f].pre /\ new.dry = rows[f].dry
  <2>1. rows[f] \in Row
    BY Still DEF TypeOK
  <2>2. "rolled_back" \in Statuses
    BY DEF Statuses
  <2> QED BY <2>1, <2>2 DEF Row
<1>3. rows'[f] = new
  OBVIOUS
<1> HIDE DEF new
<1>4. rows[f].status \in {"completed", "rolled_back"}
  BY <1>1 DEF ForwardOK
<1>5. ForwardOK(f)'
  BY <1>1, <1>2, <1>3 DEF ForwardOK, Undecided
<1> QED BY <1>1, <1>2, <1>3, <1>4, <1>5, NotHeld DEF RowChange, IInv, CalledOnce

LEMMA CompleteVerifiedSafe == ASSUME IInv, NEW r \in Rows, CompleteVerified(r) PROVE IInv'
<1> DEFINE new == [rows[r] EXCEPT !.status = "completed"]
           done == [rows EXCEPT ![r] = new]
<1>1. /\ Awaiting(r) /\ Log(r, "verified") /\ UNCHANGED <<thread, swept, calls, faults>>
      /\ anomaly' = [f \in Forward |-> anomaly[f] /\ f # r] \/ UNCHANGED anomaly
      /\ rows' = done \/ rows' = RolledBack(done, r)
  BY DEF CompleteVerified
<1>2. trail' \in [Rows -> SUBSET Events] /\ \A s \in Rows : trail[s] \subseteq trail'[s]
  BY <1>1, LogWrite, Still DEF Events
<1>3. anomaly' \in [Forward -> BOOLEAN]
  BY <1>1, Still DEF TypeOK
<1>4. new \in Row /\ new.link = None /\ \A u \in Threads : ~Holds(u, r)
  BY <1>1, VerdictRow
<1>5. r # None
  BY RowsAssumption DEF Rows
<1>6. done \in [Rows -> Row] /\ done[r] = new /\ \A s \in Rows : s # r => done[s] = rows[s]
  BY <1>4, Still DEF TypeOK
<1>7. rows'[r] = new => RowChange(r)
  BY <1>1, <1>2, VerdictChange
<1> HIDE DEF new, done
<1>8. ASSUME NEW s \in Rows
      PROVE  rows'[s] \in Row /\ (Same(s) \/ (RowChange(s) /\ \A u \in Threads : ~Holds(u, s)))
  <2>1. CASE s = r
    <3>1. rows'[r] = new
      BY <1>1, <1>4, <1>5, <1>6 DEF RolledBack
    <3> QED BY <1>4, <1>7, <2>1, <3>1
  <2>2. CASE s # r /\ rows'[s] = rows[s]
    BY <1>1, <2>2, Still DEF Same, TypeOK
  <2>3. CASE s # r /\ rows'[s] # rows[s]
    <3>1. rows[s].link = r /\ rows'[s] = [rows[s] EXCEPT !.status = "rolled_back"]
      BY <1>1, <1>6, <2>3 DEF RolledBack
    <3> QED BY <1>1, <1>2, <3>1, RolledBackRow
  <2> QED BY <2>1, <2>2, <2>3
<1>9. rows' \in [Rows -> Row]
  <2>1. rows' = [s \in Rows |-> rows'[s]]
    BY <1>1, <1>6 DEF RolledBack
  <2> QED BY <1>8, <2>1
<1>10. StepTypes
  BY <1>1, <1>2, <1>3, <1>9, Still DEF StepTypes
<1> QED BY <1>1, <1>2, <1>8, <1>10, TableStepIsSafe

LEMMA FailTimedOutSafe == ASSUME IInv, NEW r \in Rows, FailTimedOut(r) PROVE IInv'
<1> DEFINE new == [rows[r] EXCEPT !.status = "failed"]
           done == [rows EXCEPT ![r] = new]
<1>1. /\ Awaiting(r) /\ Log(r, "failed") /\ UNCHANGED <<anomaly, thread, swept, calls, faults>>
      /\ rows' = Unlinked(done, r)
  BY DEF FailTimedOut
<1>2. trail' \in [Rows -> SUBSET Events] /\ \A s \in Rows : trail[s] \subseteq trail'[s]
  BY <1>1, LogWrite, Still DEF Events
<1>3. /\ new \in Row /\ new.status = "failed" /\ rows[r].status = "executing"
      /\ \A u \in Threads : ~Holds(u, r)
  BY <1>1, VerdictRow
<1>4. done \in [Rows -> Row] /\ done[r] = new /\ \A s \in Rows : s # r => done[s] = rows[s]
  BY <1>3, Still DEF TypeOK
<1>5. rows'[r] = new => RowChange(r)
  BY <1>1, <1>2, VerdictChange
<1> HIDE DEF new, done
<1>6. ASSUME NEW s \in Rows
      PROVE  rows'[s] \in Row /\ (Same(s) \/ (RowChange(s) /\ \A u \in Threads : ~Holds(u, s)))
  <2>1. CASE s = r
    <3>1. rows'[r] = new
      BY <1>1, <1>3, <1>4 DEF Unlinked
    <3> QED BY <1>3, <1>5, <2>1, <3>1
  <2>2. CASE s # r /\ rows'[s] = rows[s]
    BY <1>1, <2>2, Still DEF Same, TypeOK
  <2>3. CASE s # r /\ rows'[s] # rows[s]
    <3>1. rows[s].link = r /\ rows[s].status = "completed" /\ rows'[s] = [rows[s] EXCEPT !.link = None]
      BY <1>1, <1>4, <2>3 DEF Unlinked
    <3> QED BY <1>1, <1>2, <3>1, UnlinkedRow
  <2> QED BY <2>1, <2>2, <2>3
<1>7. rows' \in [Rows -> Row]
  <2>1. rows' = [s \in Rows |-> rows'[s]]
    BY <1>1 DEF Unlinked
  <2> QED BY <1>6, <2>1
<1>8. StepTypes
  BY <1>1, <1>2, <1>7, Still DEF StepTypes
<1> QED BY <1>1, <1>2, <1>6, <1>8, TableStepIsSafe

----
\* The invariant is inductive.

LEMMA ProceedSafe == ASSUME IInv, NEW t \in Threads, Proceed(t) PROVE IInv'
<1>1. thread[t].pc # "idle"
  BY DEF Proceed, At, Decide, Expire, Claim, AuditStart, Gate, Mutate, Submit, Finish, Record, Resolve,
         RollbackInsert, RollbackLink, Supersede, Undo, SubmitUndo, FinishUndo, Mark, RecordUndo
<1>2. PICK f \in Forward : thread[t].row = f
  BY <1>1, MoverFacts
<1>3. CASE Decide(t) \/ Expire(t) \/ Claim(t) \/ AuditStart(t) \/ Gate(t) \/ Mutate(t) \/ Submit(t)
  BY <1>2, <1>3, DecideSafe, ExpireSafe, ClaimSafe, AuditStartSafe, GateSafe, MutateSafe, SubmitSafe
<1>4. CASE Finish(t) \/ Record(t) \/ Resolve(t) \/ RollbackInsert(t) \/ RecordUndo(t)
  BY <1>2, <1>4, FinishSafe, RecordSafe, ResolveSafe, RollbackInsertSafe, RecordUndoSafe
<1>5. CASE RollbackLink(t) \/ Supersede(t) \/ Undo(t) \/ SubmitUndo(t) \/ FinishUndo(t) \/ Mark(t)
  <2>1. thread[t].pc \in Undoing \cup UndoReporting
    BY <1>5 DEF At, RollbackLink, Supersede, Undo, SubmitUndo, FinishUndo, Mark, Undoing, UndoReporting
  <2>2. PICK q \in Reverse : thread[t].undo = q
    BY <1>1, <2>1, MoverFacts
  <2> QED BY <1>2, <1>5, <2>2, RollbackLinkSafe, SupersedeSafe, UndoSafe, SubmitUndoSafe,
             FinishUndoSafe, MarkSafe
<1> QED BY <1>3, <1>4, <1>5 DEF Proceed

LEMMA NextSafe == ASSUME IInv, [Next]_vars PROVE IInv'
<1>1. ASSUME NEW f \in Forward, Propose(f) \/ CloseAnomaly(f) PROVE IInv'
  BY <1>1, ProposeSafe, CloseAnomalySafe
<1>2. ASSUME NEW t \in Threads, Proceed(t) \/ Crash(t) PROVE IInv'
  BY <1>2, ProceedSafe, CrashSafe
<1>3. ASSUME NEW t \in Threads, NEW f \in Forward, Begin(t, f) PROVE IInv'
  BY <1>3, ReviewReadSafe, ExpiryReadSafe, ExecuteReadSafe, RollbackReadSafe DEF Begin
<1>4. ASSUME NEW r \in Rows, SweepRelease(r) \/ CompleteVerified(r) \/ FailTimedOut(r) PROVE IInv'
  BY <1>4, SweepReleaseSafe, CompleteVerifiedSafe, FailTimedOutSafe
<1>5. CASE Sweep \/ CrashSweep
  BY <1>5, SweepSafe, CrashSweepSafe
<1>6. CASE UNCHANGED vars
  <2>1. StepTypes /\ \A r \in Rows : Same(r)
    BY <1>6, Still DEF vars, StepTypes, Same
  <2> QED BY <1>6, <2>1, Still, TableStepIsSafe DEF vars
<1> QED BY <1>1, <1>2, <1>3, <1>4, <1>5, <1>6 DEF Next

LEMMA SpecInvariant == Spec => []IInv
<1>1. IInv /\ [Next]_vars => IInv'
  BY NextSafe
<1> QED BY InitOK, <1>1, PTL DEF Spec

----
\* The theorems.

\* Every variable keeps its type, for any number of calls, actions, rollbacks and faults.
THEOREM HandlersTypeCorrect == Spec => []TypeOK
<1>1. IInv => TypeOK
  BY DEF IInv
<1> QED BY <1>1, SpecInvariant, PTL

\* However many calls, retries, sweeps and crashes interleave, no action and no rollback makes a
\* second mutating cloud call.
THEOREM OneCallPerAction == Spec => []CalledOnce
<1>1. IInv => CalledOnce
  BY DEF IInv
<1> QED BY <1>1, SpecInvariant, PTL

\* A cloud call is made only with an approval on record where one is required, after its
\* action_started row, and never for an action that was declined.
THEOREM CallsHaveAuthority == Spec => []CalledWithAuthority
<1>1. ASSUME IInv PROVE CalledWithAuthority
  <2> SUFFICES ASSUME NEW f \in Forward, calls[f] > 0
               PROVE  /\ "started" \in trail[f]
                      /\ rows[f].approval => "approved" \in trail[f]
                      /\ rows[f].status \in {"executing", "completed", "failed", "rolled_back"}
    BY DEF CalledWithAuthority
  <2>1. ForwardOK(f) /\ rows[f] \in Row /\ calls[f] # 0
    BY <1>1 DEF IInv, Table, TypeOK, Rows
  <2>2. rows[f].status \in {"executing", "completed", "failed", "rolled_back"}
    BY <2>1 DEF ForwardOK, Row, Statuses, IN_FLIGHT_STATUSES, Undecided
  <2> QED BY <2>1, <2>2 DEF ForwardOK
<1> QED BY <1>1, SpecInvariant, PTL

\* The row of an action whose cloud call was made is not marked a dry run and holds its pre_state.
THEOREM RowsAreTruthful == Spec => []TruthfulRow
<1>1. ASSUME IInv PROVE TruthfulRow
  BY <1>1 DEF IInv, Table, ForwardOK, TruthfulRow
<1> QED BY <1>1, SpecInvariant, PTL

----
\* Outcomes are final.

Final == {"rejected", "completed", "failed", "rolled_back"}

KeepsOutcome(r) ==
    rows[r].status \in Final =>
        \/ rows'[r].status = rows[r].status
        \/ rows[r].status = "completed" /\ rows'[r].status = "rolled_back"

\* A write to one row, of a row without an outcome, of an original that is undone, or of other columns.
LEMMA OneRowKeeps ==
  ASSUME IInv, NEW r \in Rows, NEW new, rows' = [rows EXCEPT ![r] = new],
         \/ rows[r].status \notin Final
         \/ new.status = rows[r].status
         \/ rows[r].status \in {"completed", "rolled_back"} /\ new.status = "rolled_back"
  PROVE  \A s \in Rows : KeepsOutcome(s)
<1>1. rows'[r] = new /\ \A s \in Rows : s # r => rows'[s] = rows[s]
  BY Still DEF TypeOK
<1> QED BY <1>1 DEF KeepsOutcome

LEMMA UnlinkedKeeps ==
  ASSUME IInv, NEW q \in Rows, rows' = Unlinked(rows, q)
  PROVE  \A s \in Rows : KeepsOutcome(s)
<1>1. ASSUME NEW s \in Rows PROVE rows'[s].status = rows[s].status
  <2>1. [rows[s] EXCEPT !.link = None].status = rows[s].status
    BY Still DEF TypeOK, Row
  <2> QED BY <2>1 DEF Unlinked
<1> QED BY <1>1 DEF KeepsOutcome

LEMMA ProceedKeeps ==
  ASSUME IInv, NEW t \in Threads, Proceed(t)
  PROVE  \A s \in Rows : KeepsOutcome(s)
<1>1. thread[t].pc # "idle"
  BY DEF Proceed, At, Decide, Expire, Claim, AuditStart, Gate, Mutate, Submit, Finish, Record, Resolve,
         RollbackInsert, RollbackLink, Supersede, Undo, SubmitUndo, FinishUndo, Mark, RecordUndo
<1>2. PICK f \in Forward : thread[t].row = f
  BY <1>1, MoverFacts
<1>3. f \in Rows /\ rows[f] \in Row /\ HandlerOK(t)
  BY <1>1, <1>2, MoverFacts
<1>4. CASE UNCHANGED rows
  BY <1>4 DEF KeepsOutcome
<1>5. CASE (Decide(t) \/ Expire(t) \/ Claim(t)) /\ ~UNCHANGED rows
  <2>1. rows[f].status = thread[t].seen /\ thread[t].seen \notin Final
    BY <1>2, <1>3, <1>5 DEF Decide, Expire, Claim, At, HandlerOK, Undecided, Final
  <2>2. \E status \in {thread[t].out, "failed", "executing"} :
           rows' = [rows EXCEPT ![f] = [rows[f] EXCEPT !.status = status]]
    BY <1>2, <1>5 DEF Decide, Expire, Claim, SetStatus
  <2> QED BY <1>3, <2>1, <2>2, OneRowKeeps
<1>6. CASE (Gate(t) \/ Submit(t) \/ Finish(t)) /\ ~UNCHANGED rows
  <2>1. rows[f].status = "executing"
    BY <1>2, <1>3, <1>6 DEF Gate, Submit, Finish, At, HandlerOK, Working
  <2>2. \E new : rows' = [rows EXCEPT ![f] = new]
    BY <1>2, <1>6 DEF Gate, Submit, Finish
  <2> QED BY <1>3, <2>1, <2>2, OneRowKeeps DEF Final
<1>7. CASE RollbackInsert(t) /\ ~UNCHANGED rows
  <2>1. PICK q \in Reverse : /\ rows[q].status = "absent"
                             /\ \E new : rows' = [rows EXCEPT ![q] = new]
    BY <1>7 DEF RollbackInsert
  <2> QED BY <2>1, OneRowKeeps DEF Final, Rows
<1>8. CASE /\ RollbackLink(t) \/ Supersede(t) \/ Undo(t) \/ SubmitUndo(t) \/ FinishUndo(t) \/ Mark(t)
           /\ ~UNCHANGED rows
  <2>1. thread[t].pc \in Undoing \cup UndoReporting
    BY <1>8 DEF At, RollbackLink, Supersede, Undo, SubmitUndo, FinishUndo, Mark, Undoing, UndoReporting
  <2>2. PICK q \in Reverse : thread[t].undo = q
    BY <1>1, <2>1, MoverFacts
  <2>3. /\ q \in Rows /\ rows[q] \in Row /\ rows[f].status \in {"completed", "rolled_back"}
        /\ thread[t].pc \in Undoing => rows[q].status = "executing"
    BY <1>2, <2>1, <2>2, RollingFacts
  <2>4. CASE RollbackLink(t)
    <3>1. rows' = [rows EXCEPT ![f] = [rows[f] EXCEPT !.link = q]]
      BY <1>2, <1>8, <2>2, <2>4 DEF RollbackLink
    <3>2. [rows[f] EXCEPT !.link = q].status = rows[f].status
      BY <1>3 DEF Row
    <3> QED BY <1>3, <3>1, <3>2, OneRowKeeps
  <2>5. CASE Supersede(t) \/ SubmitUndo(t) \/ FinishUndo(t)
    <3>1. rows[q].status = "executing"
      BY <2>3, <2>5 DEF At, Supersede, SubmitUndo, FinishUndo, Undoing
    <3>2. \E new : rows' = [rows EXCEPT ![q] = new]
      BY <2>2, <2>5 DEF Supersede, SubmitUndo, FinishUndo, SetStatus
    <3> QED BY <2>3, <3>1, <3>2, OneRowKeeps DEF Final
  <2>6. CASE Mark(t) /\ SetStatus(f, "rolled_back")
    <3>1. rows' = [rows EXCEPT ![f] = [rows[f] EXCEPT !.status = "rolled_back"]]
      BY <2>6 DEF SetStatus
    <3>2. [rows[f] EXCEPT !.status = "rolled_back"].status = "rolled_back"
      BY <1>3 DEF Row
    <3> QED BY <1>3, <2>3, <3>1, <3>2, OneRowKeeps
  <2>7. CASE Mark(t) /\ rows' = Unlinked(rows, q)
    BY <2>3, <2>7, UnlinkedKeeps
  <2> QED BY <1>2, <1>8, <2>2, <2>4, <2>5, <2>6, <2>7 DEF Mark, Undo
<1> QED BY <1>4, <1>5, <1>6, <1>7, <1>8 DEF Proceed, AuditStart, Mutate, Record, Resolve, RecordUndo

LEMMA TableKeeps ==
  ASSUME IInv, NEW r \in Rows, SweepRelease(r) \/ CompleteVerified(r) \/ FailTimedOut(r)
  PROVE  \A s \in Rows : KeepsOutcome(s)
<1>1. CASE SweepRelease(r)
  <2>1. CASE UNCHANGED rows
    BY <2>1 DEF KeepsOutcome
  <2> QED BY <1>1, <2>1, UnlinkedKeeps DEF SweepRelease
<1>2. CASE CompleteVerified(r)
  <2> DEFINE done == [rows EXCEPT ![r] = [rows[r] EXCEPT !.status = "completed"]]
  <2>1. Awaiting(r) /\ (rows' = done \/ rows' = RolledBack(done, r))
    BY <1>2 DEF CompleteVerified
  <2>2. rows[r].status = "executing" /\ \A s \in Rows : s # r => done[s] = rows[s]
    BY <2>1, Still DEF Awaiting, TypeOK
  <2> HIDE DEF done
  <2>3. ASSUME NEW s \in Rows PROVE KeepsOutcome(s)
    <3>1. CASE s = r
      BY <2>2, <3>1 DEF KeepsOutcome, Final
    <3>2. CASE s # r /\ rows'[s] = rows[s]
      BY <3>2 DEF KeepsOutcome
    <3>3. CASE s # r /\ rows'[s] # rows[s]
      <4>1. rows[s].link = r /\ rows'[s] = [rows[s] EXCEPT !.status = "rolled_back"]
        BY <2>1, <2>2, <3>3 DEF RolledBack
      <4>2. s \in Forward /\ rows[s].link # None
        BY <4>1, RowsAssumption DEF IInv, Table, ReverseOK, Rows
      <4>3. rows[s].status \in {"completed", "rolled_back"}
        BY <4>2 DEF IInv, Table, ForwardOK
      <4>4. [rows[s] EXCEPT !.status = "rolled_back"].status = "rolled_back"
        BY Still DEF TypeOK, Row
      <4> QED BY <4>1, <4>3, <4>4 DEF KeepsOutcome
    <3> QED BY <3>1, <3>2, <3>3
  <2> QED BY <2>3
<1>3. CASE FailTimedOut(r)
  <2> DEFINE done == [rows EXCEPT ![r] = [rows[r] EXCEPT !.status = "failed"]]
  <2>1. Awaiting(r) /\ rows' = Unlinked(done, r)
    BY <1>3 DEF FailTimedOut
  <2>2. rows[r].status = "executing" /\ \A s \in Rows : s # r => done[s] = rows[s]
    BY <2>1, Still DEF Awaiting, TypeOK
  <2> HIDE DEF done
  <2>3. ASSUME NEW s \in Rows PROVE KeepsOutcome(s)
    <3>1. CASE s = r
      BY <2>2, <3>1 DEF KeepsOutcome, Final
    <3>2. CASE s # r
      <4>1. [rows[s] EXCEPT !.link = None].status = rows[s].status
        BY Still DEF TypeOK, Row
      <4>2. rows'[s].status = rows[s].status
        BY <2>1, <2>2, <3>2, <4>1 DEF Unlinked
      <4> QED BY <4>2 DEF KeepsOutcome
    <3> QED BY <3>1, <3>2
  <2> QED BY <2>3
<1> QED BY <1>1, <1>2, <1>3

LEMMA NextKeeps ==
  ASSUME IInv, [Next]_vars
  PROVE  \A s \in Rows : KeepsOutcome(s)
<1>1. ASSUME UNCHANGED rows PROVE \A s \in Rows : KeepsOutcome(s)
  BY <1>1 DEF KeepsOutcome
<1>2. ASSUME NEW f \in Forward, Propose(f) PROVE \A s \in Rows : KeepsOutcome(s)
  <2>1. f \in Rows /\ rows[f].status \notin Final /\ \E new : rows' = [rows EXCEPT ![f] = new]
    BY <1>2 DEF Propose, Rows, Final
  <2> QED BY <2>1, OneRowKeeps
<1>3. CASE Sweep
  <2>1. ASSUME NEW s \in Rows PROVE KeepsOutcome(s)
    BY <1>3 DEF Sweep, SweepOf, Unsubmitted, KeepsOutcome, Final
  <2> QED BY <2>1
<1>4. ASSUME NEW f \in Forward, CloseAnomaly(f) PROVE UNCHANGED rows
  BY <1>4 DEF CloseAnomaly
<1>5. ASSUME NEW t \in Threads, Crash(t) \/ \E f \in Forward : Begin(t, f) PROVE UNCHANGED rows
  BY <1>5 DEF Crash, Begin, ReviewRead, ExpiryRead, ExecuteRead, RollbackRead
<1>6. CASE CrashSweep \/ UNCHANGED vars
  BY <1>1, <1>6 DEF CrashSweep, vars
<1> QED BY <1>1, <1>2, <1>3, <1>4, <1>5, <1>6, ProceedKeeps, TableKeeps DEF Next

\* An outcome is final: no late call, sweep or verification turns a rejected, completed, failed or
\* rolled back action into anything else, except a completed one into rolled back.
THEOREM OutcomesAreFinal == Spec => OutcomeIsFinal
<1>1. IInv /\ [Next]_vars => [\A r \in Rows :
        rows[r].status \in {"rejected", "completed", "failed", "rolled_back"} =>
            \/ rows'[r].status = rows[r].status
            \/ rows[r].status = "completed" /\ rows'[r].status = "rolled_back"]_vars
  BY NextKeeps DEF KeepsOutcome, Final
<1> QED BY <1>1, SpecInvariant, PTL DEF Spec, OutcomeIsFinal

----
\* Links between rows, and the trail.

\* What a call knows of the link between its original and its rollback, and of what it is to record.
LinkOK(t) ==
    LET f == thread[t].row
        q == thread[t].undo
        pc == thread[t].pc
        out == thread[t].out IN
    /\ pc \in {"undoing", "submittingUndo", "finishingUndo"} => rows[f].link = q
    /\ pc = "marking" /\ out # "failed" => rows[f].link = q
    /\ pc \in UndoReporting => rows[q].status = IF out = "failed" THEN "failed" ELSE "completed"
    /\ pc = "recording" => rows[f].status \in IF out \in {"ok", "dry"} THEN {"completed", "rolled_back"}
                                              ELSE {"failed"}

\* A rollback that was called, submitted or completed; submitted ones may still complete.
Owes(q) == calls[q] > 0 \/ rows[q].status = "completed" \/ rows[q].executed
Linked(q) == \E f \in Forward : rows[f].link = q

Linking == \A t \in Threads : LinkOK(t)
SweptFailed == \A r \in swept : rows[r].status = "failed"
Backed == \A q \in Reverse : Owes(q) => rows[q].status = "failed" \/ Linked(q)

LInv == Linking /\ SweptFailed /\ Backed /\ RolledBackIsUndone /\ TrailAgrees

\* A step that respects links, outcomes and the trail.

KeepsLink(f) ==
    rows[f].link # None =>
        \/ rows'[f].link = rows[f].link
        \/ rows[f].status = "completed" /\ rows'[f].link = None /\ rows'[rows[f].link].status = "failed"

UndoneWell(f) ==
    rows'[f].status = "rolled_back" =>
        \/ rows[f].status = "rolled_back"
        \/ rows'[f].link # None /\ rows'[rows'[f].link].status = "completed"

BackedStill(q) == Owes(q)' => Owes(q) \/ rows'[q].status = "failed" \/ Linked(q)'

LoggedTruly(r) ==
    \A event \in trail'[r] \ trail[r] :
        /\ event \in Successes => rows'[r].status \in {"completed", "rolled_back"}
        /\ event \in Failures => rows'[r].status = "failed"

RowsWell == /\ \A f \in Forward : KeepsLink(f) /\ UndoneWell(f)
            /\ \A q \in Reverse : BackedStill(q)
TrailWell == \A r \in Rows : LoggedTruly(r)
SweptWell == \A r \in swept' : r \in swept \/ rows'[r].status = "failed"
CallsWell == \A t \in Threads : thread'[t] = thread[t] \/ LinkOK(t)'

GoodStep == RowsWell /\ TrailWell /\ SweptWell /\ CallsWell

----
\* Good steps keep the invariant.

LEMMA ReverseStays ==
    ASSUME IInv, IInv', NEW q \in Reverse, \A s \in Rows : KeepsOutcome(s)
    PROVE  /\ rows[q].status = "completed" => rows'[q].status = "completed"
           /\ rows[q].status = "failed" => rows'[q].status = "failed"
<1>1. q \in Rows /\ ReverseOK(q)'
  BY DEF IInv, Table, Rows
<1> QED BY <1>1 DEF KeepsOutcome, Final, ReverseOK

LEMMA LinkingFrame ==
    ASSUME IInv, IInv', LInv, GoodStep, \A s \in Rows : KeepsOutcome(s),
           NEW u \in Threads, thread'[u] = thread[u]
    PROVE  LinkOK(u)'
<1> DEFINE f == thread[u].row
           q == thread[u].undo
           pc == thread[u].pc
<1>1. LinkOK(u) /\ HandlerOK(u) /\ HandlerOK(u)'
  BY DEF LInv, Linking, IInv, Handlers
<1>2. pc # "idle" => f \in Forward /\ f \in Rows /\ KeepsLink(f) /\ KeepsOutcome(f)
  BY <1>1 DEF HandlerOK, GoodStep, RowsWell, Rows
<1>3. pc \in Undoing \cup UndoReporting => q \in Reverse /\ q # None
  BY <1>1, RowsAssumption DEF HandlerOK
<1>4. pc \in Undoing => rows'[q].status = "executing"
  BY <1>1 DEF HandlerOK
<1>5. pc \in UndoReporting => /\ rows[q].status = "completed" => rows'[q].status = "completed"
                              /\ rows[q].status = "failed" => rows'[q].status = "failed"
  BY <1>3, ReverseStays
<1>6. {"undoing", "submittingUndo", "finishingUndo"} \subseteq Undoing /\ "marking" \in UndoReporting
  BY DEF Undoing, UndoReporting
<1>7. pc \in {"undoing", "submittingUndo", "finishingUndo"} => rows'[f].link = q
  BY <1>1, <1>2, <1>3, <1>4, <1>6 DEF LinkOK, KeepsLink
<1>8. pc = "marking" /\ thread[u].out # "failed" => rows'[f].link = q
  BY <1>1, <1>2, <1>3, <1>5, <1>6 DEF LinkOK, KeepsLink
<1>9. pc = "recording" => rows'[f].status \in IF thread[u].out \in {"ok", "dry"} THEN {"completed", "rolled_back"}
                                              ELSE {"failed"}
  BY <1>1, <1>2 DEF LinkOK, KeepsOutcome, Final
<1> HIDE DEF f, q, pc
<1> QED BY <1>1, <1>5, <1>7, <1>8, <1>9 DEF LinkOK, f, q, pc

LEMMA GoodStepKeeps ==
    ASSUME IInv, IInv', LInv, GoodStep, \A s \in Rows : KeepsOutcome(s)
    PROVE  LInv'
<1>1. Linking'
  BY LinkingFrame DEF Linking, GoodStep, CallsWell
<1>2. SweptFailed'
  <2> SUFFICES ASSUME NEW r \in swept', rows'[r].status # "failed" PROVE FALSE
    BY DEF SweptFailed
  <2>1. r \in swept /\ r \in Rows /\ rows[r].status = "failed"
    BY DEF GoodStep, SweptWell, LInv, SweptFailed, IInv, TypeOK
  <2> QED BY <2>1 DEF KeepsOutcome, Final
<1>3. Backed'
  <2> SUFFICES ASSUME NEW q \in Reverse, Owes(q)', rows'[q].status # "failed" PROVE Linked(q)'
    BY DEF Backed
  <2>1. CASE Owes(q)
    <3>1. rows[q].status # "failed" /\ q # None
      BY ReverseStays, RowsAssumption
    <3>2. PICK f \in Forward : rows[f].link = q
      BY <2>1, <3>1 DEF LInv, Backed, Linked
    <3>3. rows'[f].link = q
      BY <3>1, <3>2 DEF GoodStep, RowsWell, KeepsLink
    <3> QED BY <3>3 DEF Linked
  <2>2. CASE ~Owes(q)
    BY <2>2 DEF GoodStep, RowsWell, BackedStill
  <2> QED BY <2>1, <2>2
<1>4. RolledBackIsUndone'
  <2> SUFFICES ASSUME NEW f \in Forward, rows'[f].status = "rolled_back"
               PROVE  rows'[f].link # None /\ rows'[rows'[f].link].status = "completed"
    BY DEF RolledBackIsUndone
  <2>1. CASE rows[f].status = "rolled_back"
    <3>1. rows[f].link # None /\ rows[rows[f].link].status = "completed"
      BY <2>1 DEF LInv, RolledBackIsUndone
    <3>2. rows[f].link \in Reverse
      BY <3>1 DEF IInv, TypeOK, Row, Rows
    <3>3. rows'[f].link = rows[f].link
      BY <2>1, <3>1 DEF GoodStep, RowsWell, KeepsLink
    <3> QED BY <3>1, <3>2, <3>3, ReverseStays
  <2>2. CASE rows[f].status # "rolled_back"
    BY <2>2 DEF GoodStep, RowsWell, UndoneWell
  <2> QED BY <2>1, <2>2
<1>5. TrailAgrees'
  <2> SUFFICES ASSUME NEW r \in Rows
               PROVE  /\ trail'[r] \cap Successes # {} => rows'[r].status \in {"completed", "rolled_back"}
                      /\ trail'[r] \cap Failures # {} => rows'[r].status = "failed"
    BY DEF TrailAgrees
  <2>1. LoggedTruly(r) /\ KeepsOutcome(r)
    BY DEF GoodStep, TrailWell
  <2>2. /\ trail[r] \cap Successes # {} => rows[r].status \in {"completed", "rolled_back"}
        /\ trail[r] \cap Failures # {} => rows[r].status = "failed"
    BY DEF LInv, TrailAgrees
  <2> QED BY <2>1, <2>2 DEF LoggedTruly, KeepsOutcome, Final
<1> QED BY <1>1, <1>2, <1>3, <1>4, <1>5 DEF LInv

----
\* What makes a step good.

\* A call's own state matters only where it knows of a link or has an outcome to record.
Knowing == {"undoing", "submittingUndo", "finishingUndo", "recording"} \cup UndoReporting

LEMMA PlainCall ==
    ASSUME NEW t \in Threads, thread'[t].pc \notin Knowing
    PROVE  LinkOK(t)'
  BY DEF LinkOK, Knowing, UndoReporting

LEMMA EndsWell == ASSUME IInv, NEW t \in Threads, Done(t) PROVE CallsWell
<1>1. thread'[t].pc = "idle" /\ \A u \in Threads : u # t => thread'[u] = thread[u]
  BY DoneMoves DEF IInv
<1>2. LinkOK(t)'
  BY <1>1, PlainCall DEF Knowing, UndoReporting
<1> QED BY <1>1, <1>2 DEF CallsWell

LEMMA GoesWell ==
    ASSUME IInv, NEW t \in Threads, NEW pc \in Pcs \ Knowing,
           Goto(t, pc) \/ \E out \in Outs : GotoWith(t, pc, out)
    PROVE  CallsWell
<1>1. thread'[t].pc = pc /\ \A u \in Threads : u # t => thread'[u] = thread[u]
  <2>1. CASE Goto(t, pc)
    BY <2>1, GotoMoves DEF IInv
  <2>2. CASE \E out \in Outs : GotoWith(t, pc, out)
    BY <2>2, GotoWithMoves DEF IInv
  <2> QED BY <2>1, <2>2
<1> QED BY <1>1, PlainCall DEF CallsWell

LEMMA StaysWell == UNCHANGED thread => CallsWell
  BY DEF CallsWell

LEMMA QuietWell == (UNCHANGED trail => TrailWell) /\ (UNCHANGED swept => SweptWell)
  BY DEF TrailWell, LoggedTruly, SweptWell

LEMMA LogWell ==
    ASSUME IInv, NEW r \in Rows, NEW event, Log(r, event),
           event \in Successes => rows'[r].status \in {"completed", "rolled_back"},
           event \in Failures => rows'[r].status = "failed"
    PROVE  TrailWell
  BY DEF Log, TrailWell, LoggedTruly, IInv, TypeOK

LEMMA RowsStand ==
    ASSUME UNCHANGED rows, \A q \in Reverse : calls'[q] = calls[q] \/ Linked(q)
    PROVE  RowsWell
<1>1. \A q \in Reverse : BackedStill(q)
  BY DEF BackedStill, Owes, Linked
<1> QED BY <1>1 DEF RowsWell, KeepsLink, UndoneWell

LEMMA StandWell == UNCHANGED <<rows, calls>> => RowsWell
  BY RowsStand

\* One row is written, and its link kept or set.
LEMMA OneRowWell ==
    ASSUME IInv, NEW r \in Rows, NEW new, rows' = [rows EXCEPT ![r] = new], UNCHANGED calls,
           new.link = rows[r].link \/ rows[r].link = None,
           \/ new.status # "rolled_back"
           \/ rows[r].status = "rolled_back"
           \/ r \in Forward /\ new.link \in Reverse /\ rows[new.link].status = "completed",
           \/ r \in Forward
           \/ new.status = "failed"
           \/ new.status # "completed" /\ ~new.executed
           \/ Linked(r)
    PROVE  RowsWell
<1>1. rows'[r] = new /\ \A s \in Rows : s # r => rows'[s] = rows[s]
  BY DEF IInv, TypeOK
<1>2. ASSUME NEW f \in Forward PROVE KeepsLink(f) /\ UndoneWell(f)
  <2>1. CASE f # r
    BY <1>1, <2>1 DEF KeepsLink, UndoneWell, Rows
  <2>2. CASE f = r
    <3>1. KeepsLink(f)
      BY <1>1, <2>2 DEF KeepsLink
    <3>2. rows[r].status = "rolled_back" \/ new.status # "rolled_back" => UndoneWell(f)
      BY <1>1, <2>2 DEF UndoneWell
    <3>3. CASE new.link \in Reverse /\ rows[new.link].status = "completed"
      <4>1. rows'[new.link] = rows[new.link] /\ new.link # None
        BY <1>1, <2>2, <3>3, RowsAssumption DEF Rows
      <4> QED BY <1>1, <2>2, <3>1, <3>3, <4>1 DEF UndoneWell
    <3> QED BY <3>1, <3>2, <3>3
  <2> QED BY <2>1, <2>2
<1>3. ASSUME NEW q \in Reverse PROVE BackedStill(q)
  <2>1. CASE q # r
    BY <1>1, <2>1 DEF BackedStill, Owes, Rows
  <2>2. CASE q = r
    <3>1. r \notin Forward
      BY <2>2, RowsAssumption
    <3>2. CASE Linked(r)
      BY <1>1, <2>2, <3>1, <3>2 DEF BackedStill, Linked, Rows
    <3> QED BY <1>1, <2>2, <3>1, <3>2 DEF BackedStill, Owes
  <2> QED BY <2>1, <2>2
<1> QED BY <1>2, <1>3 DEF RowsWell

LEMMA StatusWell ==
    ASSUME IInv, NEW r \in Rows, NEW status, SetStatus(r, status), UNCHANGED calls,
           (r \in Forward /\ status # "rolled_back") \/ status = "failed"
    PROVE  RowsWell /\ rows'[r].status = status
<1> DEFINE new == [rows[r] EXCEPT !.status = status]
<1>1. rows' = [rows EXCEPT ![r] = new] /\ new.link = rows[r].link /\ new.status = status
  BY DEF SetStatus, IInv, TypeOK, Row
<1> HIDE DEF new
<1>2. rows'[r] = new
  BY <1>1 DEF IInv, TypeOK
<1> QED BY <1>1, <1>2, OneRowWell

\* What a failed rollback held is released.
LEMMA UnlinkedWell ==
    ASSUME IInv, NEW q \in Rows, rows' = Unlinked(rows, q), rows[q].status = "failed", UNCHANGED calls
    PROVE  RowsWell
<1>1. ASSUME NEW s \in Rows
      PROVE  /\ rows'[s].status = rows[s].status /\ rows'[s].executed = rows[s].executed
             /\ \/ rows'[s].link = rows[s].link
                \/ rows[s].link = q /\ rows[s].status = "completed" /\ rows'[s].link = None
  <2>1. /\ [rows[s] EXCEPT !.link = None].status = rows[s].status
        /\ [rows[s] EXCEPT !.link = None].executed = rows[s].executed
        /\ [rows[s] EXCEPT !.link = None].link = None
    BY DEF IInv, TypeOK, Row
  <2> QED BY <2>1 DEF Unlinked
<1>2. \A f \in Forward : KeepsLink(f) /\ UndoneWell(f)
  BY <1>1 DEF KeepsLink, UndoneWell, Rows
<1>3. \A r \in Reverse : BackedStill(r)
  BY <1>1 DEF BackedStill, Owes, Rows
<1> QED BY <1>2, <1>3 DEF RowsWell

----
\* The steps of an execution.

LEMMA DecideGood == ASSUME IInv, NEW t \in Threads, Decide(t) PROVE GoodStep
<1> DEFINE f == thread[t].row
<1>1. f \in Rows /\ f \in Forward /\ thread[t].out \in {"approved", "rejected"}
  BY MoverFacts DEF Decide, At, HandlerOK
<1>2. CallsWell /\ SweptWell
  BY EndsWell, QuietWell DEF Decide
<1>3. CASE SetStatus(f, thread[t].out) /\ UNCHANGED trail
  BY <1>1, <1>2, <1>3, StatusWell, QuietWell DEF Decide, GoodStep
<1>4. CASE Log(f, "superseded") /\ UNCHANGED rows
  <2>1. TrailWell
    BY <1>1, <1>4, LogWell DEF Successes, Failures
  <2> QED BY <1>2, <1>4, <2>1, StandWell DEF Decide, GoodStep
<1> QED BY <1>3, <1>4 DEF Decide

LEMMA ExpireGood == ASSUME IInv, NEW t \in Threads, Expire(t) PROVE GoodStep
<1> DEFINE f == thread[t].row
<1>1. f \in Rows /\ f \in Forward
  BY MoverFacts DEF Expire, At
<1>2. CallsWell /\ SweptWell
  BY EndsWell, QuietWell DEF Expire
<1>3. CASE SetStatus(f, "failed") /\ Log(f, "expired")
  <2>1. RowsWell /\ rows'[f].status = "failed"
    BY <1>1, <1>3, StatusWell DEF Expire
  <2>2. TrailWell
    BY <1>1, <1>3, <2>1, LogWell DEF Successes
  <2> QED BY <1>2, <2>1, <2>2 DEF GoodStep
<1>4. CASE UNCHANGED <<rows, trail>>
  BY <1>2, <1>4, StandWell, QuietWell DEF Expire, GoodStep
<1> QED BY <1>3, <1>4 DEF Expire

LEMMA ClaimGood == ASSUME IInv, NEW t \in Threads, Claim(t) PROVE GoodStep
<1> DEFINE f == thread[t].row
<1>1. f \in Rows /\ f \in Forward
  BY MoverFacts DEF Claim, At
<1>2. TrailWell /\ SweptWell
  BY QuietWell DEF Claim
<1>3. CASE SetStatus(f, "executing") /\ Goto(t, "auditing")
  <2>1. CallsWell
    BY <1>3, GoesWell, PcsFact DEF Working, Knowing, UndoReporting
  <2> QED BY <1>1, <1>2, <1>3, <2>1, StatusWell DEF Claim, GoodStep
<1>4. CASE Done(t) /\ UNCHANGED rows
  BY <1>2, <1>4, EndsWell, StandWell DEF Claim, GoodStep
<1> QED BY <1>3, <1>4 DEF Claim

LEMMA AuditStartGood == ASSUME IInv, NEW t \in Threads, AuditStart(t) PROVE GoodStep
<1>1. thread[t].row \in Rows
  BY MoverFacts DEF AuditStart, At
<1>2. RowsWell /\ SweptWell
  BY StandWell, QuietWell DEF AuditStart
<1>3. TrailWell
  <2>1. CASE Log(thread[t].row, "started")
    BY <1>1, <2>1, LogWell DEF Successes, Failures
  <2> QED BY <2>1, QuietWell DEF AuditStart
<1>4. CallsWell
  BY GoesWell, PcsFact DEF AuditStart, Working, Knowing, UndoReporting, Outs
<1> QED BY <1>2, <1>3, <1>4 DEF GoodStep

LEMMA GateGood == ASSUME IInv, NEW t \in Threads, Gate(t) PROVE GoodStep
<1> DEFINE f == thread[t].row
           new == [rows[f] EXCEPT !.pre = TRUE, !.dry = FALSE]
<1>1. f \in Rows /\ f \in Forward /\ rows[f] \in Row /\ rows[f].status = "executing"
  BY MoverFacts DEF Gate, At, HandlerOK, Working
<1>2. TrailWell /\ SweptWell
  BY QuietWell DEF Gate
<1>3. CallsWell
  BY GoesWell, PcsFact DEF Gate, Working, Knowing, UndoReporting, Outs
<1>4. RowsWell
  <2>1. CASE UNCHANGED rows
    BY <2>1, StandWell DEF Gate
  <2>2. CASE rows' = [rows EXCEPT ![f].pre = TRUE, ![f].dry = FALSE]
    <3>1. new.link = rows[f].link /\ new.status = "executing"
      BY <1>1 DEF Row
    <3>2. rows' = [rows EXCEPT ![f] = new]
      BY <2>2
    <3> HIDE DEF new
    <3> QED BY <1>1, <3>1, <3>2, OneRowWell DEF Gate
  <2> QED BY <2>1, <2>2 DEF Gate
<1> QED BY <1>2, <1>3, <1>4 DEF GoodStep

LEMMA MutateGood == ASSUME IInv, NEW t \in Threads, Mutate(t) PROVE GoodStep
<1>1. thread[t].row \in Forward
  BY MoverFacts DEF Mutate, At
<1>2. TrailWell /\ SweptWell
  BY QuietWell DEF Mutate
<1>3. CallsWell
  BY GoesWell, PcsFact DEF Mutate, Working, Knowing, UndoReporting, Outs
<1>4. \A q \in Reverse : calls'[q] = calls[q]
  BY <1>1, RowsAssumption DEF Mutate, IInv, TypeOK, Rows
<1>5. RowsWell
  BY <1>4, RowsStand DEF Mutate
<1> QED BY <1>2, <1>3, <1>5 DEF GoodStep

LEMMA SubmitGood == ASSUME IInv, NEW t \in Threads, Submit(t) PROVE GoodStep
<1> DEFINE f == thread[t].row
           new == [rows[f] EXCEPT !.status = "executing", !.executed = TRUE]
<1>1. f \in Rows /\ f \in Forward /\ rows[f] \in Row
  BY MoverFacts DEF Submit, At
<1>2. CallsWell /\ SweptWell
  BY EndsWell, QuietWell DEF Submit
<1>3. CASE rows' = [rows EXCEPT ![f].status = "executing", ![f].executed = TRUE] /\ Log(f, "submitted")
  <2>1. new.link = rows[f].link /\ new.status = "executing"
    BY <1>1 DEF Row
  <2>2. rows' = [rows EXCEPT ![f] = new]
    BY <1>3
  <2> HIDE DEF new
  <2>3. RowsWell
    BY <1>1, <2>1, <2>2, OneRowWell DEF Submit
  <2>4. TrailWell
    BY <1>1, <1>3, LogWell DEF Successes, Failures
  <2> QED BY <1>2, <2>3, <2>4 DEF GoodStep
<1>4. CASE UNCHANGED <<rows, trail>>
  BY <1>2, <1>4, StandWell, QuietWell DEF Submit, GoodStep
<1> QED BY <1>3, <1>4 DEF Submit

LEMMA FinishGood == ASSUME IInv, NEW t \in Threads, Finish(t) PROVE GoodStep
<1> DEFINE f == thread[t].row
           out == thread[t].out
           new == [rows[f] EXCEPT !.status = IF out \in {"ok", "dry"} THEN "completed" ELSE "failed",
                                  !.executed = TRUE, !.dry = @ \/ out = "dry"]
<1>1. f \in Rows /\ f \in Forward /\ rows[f] \in Row
  BY MoverFacts DEF Finish, At
<1>2. TrailWell /\ SweptWell
  BY QuietWell DEF Finish
<1>3. new.link = rows[f].link /\ new.status = (IF out \in {"ok", "dry"} THEN "completed" ELSE "failed")
  BY <1>1 DEF Row
<1>4. rows' = [rows EXCEPT ![f] = new]
  BY DEF Finish
<1> HIDE DEF new
<1>5. RowsWell
  BY <1>1, <1>3, <1>4, OneRowWell DEF Finish
<1>6. /\ thread'[t].pc = "recording" /\ thread'[t].row = f /\ thread'[t].out = out
      /\ \A u \in Threads : u # t => thread'[u] = thread[u]
  BY GotoMoves, PcsFact DEF Finish, IInv, Reporting
<1>7. LinkOK(t)'
  BY <1>1, <1>3, <1>4, <1>6 DEF LinkOK, UndoReporting, IInv, TypeOK
<1>8. CallsWell
  BY <1>6, <1>7 DEF CallsWell
<1> QED BY <1>2, <1>5, <1>8 DEF GoodStep

LEMMA RecordGood == ASSUME IInv, LInv, NEW t \in Threads, Record(t) PROVE GoodStep
<1> DEFINE f == thread[t].row
           out == thread[t].out
<1>1. /\ f \in Rows /\ out \in {"ok", "dry", "failed", "blocked"}
      /\ rows[f].status \in IF out \in {"ok", "dry"} THEN {"completed", "rolled_back"} ELSE {"failed"}
  BY MoverFacts DEF Record, At, HandlerOK, LInv, Linking, LinkOK
<1>2. RowsWell /\ SweptWell
  BY StandWell, QuietWell DEF Record
<1>3. Log(f, IF out \in {"ok", "dry"} THEN "completed" ELSE out) /\ UNCHANGED rows
  BY DEF Record
<1>4. TrailWell
  BY <1>1, <1>3, LogWell DEF Successes, Failures
<1>5. CallsWell
  BY EndsWell, GoesWell, PcsFact DEF Record, Reporting, Knowing, UndoReporting
<1> QED BY <1>2, <1>4, <1>5 DEF GoodStep

LEMMA ResolveGood == ASSUME IInv, NEW t \in Threads, Resolve(t) PROVE GoodStep
  BY EndsWell, QuietWell, StandWell DEF Resolve, GoodStep

----
\* The steps of a rollback.

LEMMA RollbackInsertGood == ASSUME IInv, NEW t \in Threads, RollbackInsert(t) PROVE GoodStep
<1> DEFINE f == thread[t].row
           type == REVERSIBLE[rows[f].type]
<1>1. f \in Rows /\ UNCHANGED <<swept, calls>>
  BY MoverFacts DEF RollbackInsert, At
<1>2. CASE Log(f, "rollback_failed") /\ Done(t) /\ UNCHANGED rows
  <2>1. TrailWell
    BY <1>1, <1>2, LogWell DEF Successes, Failures
  <2> QED BY <1>1, <1>2, <2>1, EndsWell, StandWell, QuietWell DEF GoodStep
<1>3. CASE /\ \E q \in Reverse :
                 /\ rows[q].status = "absent"
                 /\ rows' = [rows EXCEPT ![q] = [NoRow EXCEPT !.status = "executing", !.type = type,
                                                              !.dry = thread[t].out = "dry"]]
                 /\ thread' = [thread EXCEPT ![t].pc = "linking", ![t].undo = q]
           /\ UNCHANGED trail
  <2>1. PICK q \in Reverse :
                 /\ rows' = [rows EXCEPT ![q] = [NoRow EXCEPT !.status = "executing", !.type = type,
                                                              !.dry = thread[t].out = "dry"]]
                 /\ thread' = [thread EXCEPT ![t].pc = "linking", ![t].undo = q]
    BY <1>3
  <2> DEFINE new == [NoRow EXCEPT !.status = "executing", !.type = type, !.dry = thread[t].out = "dry"]
             next == [thread[t] EXCEPT !.pc = "linking", !.undo = q]
  <2>2. new.link = None /\ new.status = "executing" /\ ~new.executed
    BY DEF NoRow
  <2>3. next.pc = "linking"
    BY DEF IInv, TypeOK
  <2>4. rows' = [rows EXCEPT ![q] = new] /\ thread' = [thread EXCEPT ![t] = next]
    BY <2>1
  <2> HIDE DEF new, next
  <2>5. q \in Rows /\ rows[q].link = None
    BY DEF IInv, Table, ReverseOK, Rows
  <2>6. RowsWell
    BY <1>1, <2>2, <2>4, <2>5, OneRowWell
  <2>7. thread'[t].pc = "linking" /\ \A u \in Threads : u # t => thread'[u] = thread[u]
    BY <2>3, <2>4 DEF IInv, TypeOK
  <2>8. CallsWell
    BY <2>7, PlainCall DEF CallsWell, Knowing, UndoReporting
  <2> QED BY <1>1, <1>3, <2>6, <2>8, QuietWell DEF GoodStep
<1> QED BY <1>2, <1>3 DEF RollbackInsert

LEMMA RollbackLinkGood ==
    ASSUME IInv, NEW t \in Threads, NEW q \in Reverse, thread[t].undo = q, RollbackLink(t)
    PROVE  GoodStep
<1> DEFINE f == thread[t].row
           new == [rows[f] EXCEPT !.link = q]
<1>1. f \in Rows /\ f \in Forward /\ rows[f] \in Row /\ ForwardOK(f)
      /\ UNCHANGED <<swept, calls, trail>>
  BY MoverFacts DEF RollbackLink, At
<1>2. CASE rows[f].link = None /\ rows' = [rows EXCEPT ![f].link = q] /\ Goto(t, "undoing")
  <2>1. new.link = q /\ new.status = rows[f].status
    BY <1>1 DEF Row
  <2>2. rows' = [rows EXCEPT ![f] = new]
    BY <1>2
  <2> HIDE DEF new
  <2>3. RowsWell
    BY <1>1, <1>2, <2>1, <2>2, OneRowWell
  <2>4. /\ thread'[t].pc = "undoing" /\ thread'[t].row = f /\ thread'[t].undo = q
        /\ \A u \in Threads : u # t => thread'[u] = thread[u]
    BY <1>2, GotoMoves, PcsFact DEF IInv, Undoing
  <2>5. rows'[f].link = q
    BY <1>1, <2>1, <2>2 DEF IInv, TypeOK
  <2>6. LinkOK(t)'
    BY <2>4, <2>5 DEF LinkOK, UndoReporting
  <2> QED BY <1>1, <2>3, <2>4, <2>6, QuietWell DEF GoodStep, CallsWell
<1>3. CASE Goto(t, "superseding") /\ UNCHANGED rows
  <2>1. CallsWell
    BY <1>3, GoesWell, PcsFact DEF Undoing, Knowing, UndoReporting
  <2> QED BY <1>1, <1>3, <2>1, StandWell, QuietWell DEF GoodStep
<1> QED BY <1>2, <1>3 DEF RollbackLink

LEMMA SupersedeGood ==
    ASSUME IInv, NEW t \in Threads, NEW q \in Reverse, thread[t].undo = q, Supersede(t)
    PROVE  GoodStep
  BY EndsWell, StatusWell, QuietWell DEF Supersede, GoodStep, Rows

LEMMA UndoGood ==
    ASSUME IInv, LInv, NEW t \in Threads, NEW q \in Reverse, thread[t].undo = q, Undo(t)
    PROVE  GoodStep
<1> DEFINE f == thread[t].row
<1>1. f \in Forward /\ rows[f].link = q /\ UNCHANGED <<rows, swept, trail>>
  BY MoverFacts DEF Undo, At, LInv, Linking, LinkOK
<1>2. \A r \in Reverse : calls'[r] = calls[r] \/ Linked(r)
  BY <1>1 DEF Undo, Linked, IInv, TypeOK, Rows
<1>3. /\ thread'[t].pc \in {"finishingUndo", "submittingUndo"} /\ thread'[t].row = f /\ thread'[t].undo = q
      /\ \A u \in Threads : u # t => thread'[u] = thread[u]
  <2>1. CASE Goto(t, "finishingUndo")
    BY <2>1, GotoMoves, PcsFact DEF Undoing, IInv
  <2>2. CASE Goto(t, "submittingUndo")
    BY <2>2, GotoMoves, PcsFact DEF Undoing, IInv
  <2>3. CASE GotoWith(t, "finishingUndo", "ok")
    BY <2>3, GotoWithMoves, PcsFact DEF Undoing, Outs, IInv
  <2>4. CASE GotoWith(t, "finishingUndo", "failed")
    BY <2>4, GotoWithMoves, PcsFact DEF Undoing, Outs, IInv
  <2> QED BY <2>1, <2>2, <2>3, <2>4 DEF Undo
<1>4. LinkOK(t)'
  BY <1>1, <1>3 DEF LinkOK, UndoReporting
<1> QED BY <1>1, <1>2, <1>3, <1>4, RowsStand, QuietWell DEF GoodStep, CallsWell

LEMMA SubmitUndoGood ==
    ASSUME IInv, LInv, NEW t \in Threads, NEW q \in Reverse, thread[t].undo = q, SubmitUndo(t)
    PROVE  GoodStep
<1> DEFINE f == thread[t].row
           new == [rows[q] EXCEPT !.executed = TRUE]
<1>1. f \in Forward /\ rows[f].link = q /\ q \in Rows /\ rows[q] \in Row /\ rows[q].status = "executing"
  BY MoverFacts DEF SubmitUndo, At, LInv, Linking, LinkOK, HandlerOK, Undoing
<1>2. new.link = rows[q].link /\ new.status = "executing"
  BY <1>1 DEF Row
<1>3. rows' = [rows EXCEPT ![q] = new]
  BY DEF SubmitUndo
<1> HIDE DEF new
<1>4. RowsWell
  BY <1>1, <1>2, <1>3, OneRowWell DEF SubmitUndo, Linked
<1> QED BY <1>4, EndsWell, QuietWell DEF SubmitUndo, GoodStep

LEMMA FinishUndoGood ==
    ASSUME IInv, LInv, NEW t \in Threads, NEW q \in Reverse, thread[t].undo = q, FinishUndo(t)
    PROVE  GoodStep
<1> DEFINE f == thread[t].row
           out == thread[t].out
           new == [rows[q] EXCEPT !.executed = TRUE,
                                  !.status = IF out = "failed" THEN "failed" ELSE "completed"]
<1>1. /\ f \in Forward /\ f \in Rows /\ rows[f].link = q /\ q \in Rows /\ rows[q] \in Row /\ q # f
  BY MoverFacts, RowsAssumption DEF FinishUndo, At, LInv, Linking, LinkOK, Undoing
<1>2. new.link = rows[q].link /\ new.status = (IF out = "failed" THEN "failed" ELSE "completed")
  BY <1>1 DEF Row
<1>3. rows' = [rows EXCEPT ![q] = new]
  BY DEF FinishUndo
<1> HIDE DEF new
<1>4. RowsWell
  <2>1. Linked(q) /\ UNCHANGED calls
    BY <1>1 DEF FinishUndo, Linked
  <2>2. new.status # "rolled_back"
    BY <1>2
  <2> QED BY <1>1, <1>2, <1>3, <2>1, <2>2, OneRowWell
<1>5. rows'[q] = new /\ rows'[f] = rows[f]
  BY <1>1, <1>3 DEF IInv, TypeOK
<1>6. /\ thread'[t].pc = "marking" /\ thread'[t].row = f /\ thread'[t].undo = q /\ thread'[t].out = out
      /\ \A u \in Threads : u # t => thread'[u] = thread[u]
  BY GotoMoves, PcsFact DEF FinishUndo, IInv, UndoReporting
<1>7. LinkOK(t)'
  BY <1>1, <1>2, <1>5, <1>6 DEF LinkOK
<1> QED BY <1>4, <1>6, <1>7, QuietWell DEF FinishUndo, GoodStep, CallsWell

LEMMA MarkGood ==
    ASSUME IInv, LInv, NEW t \in Threads, NEW q \in Reverse, thread[t].undo = q, Mark(t)
    PROVE  GoodStep
<1> DEFINE f == thread[t].row
           out == thread[t].out
<1>1. /\ f \in Forward /\ f \in Rows /\ rows[f] \in Row /\ q \in Rows /\ q # f /\ q # None
      /\ out # "failed" => rows[f].link = q
      /\ rows[q].status = IF out = "failed" THEN "failed" ELSE "completed"
      /\ rows[q].link = None /\ UNCHANGED <<swept, calls, trail>>
  <2>1. thread[t].pc = "marking" /\ UNCHANGED <<swept, calls, trail>>
    BY DEF Mark, At
  <2>2. LinkOK(t)
    BY DEF LInv, Linking
  <2>3. /\ out # "failed" => rows[f].link = q
        /\ rows[q].status = IF out = "failed" THEN "failed" ELSE "completed"
    BY <2>1, <2>2 DEF LinkOK, UndoReporting
  <2>4. f \in Forward /\ f \in Rows /\ rows[f] \in Row /\ q \in Rows /\ rows[q].link = None
    BY <2>1, MoverFacts DEF UndoReporting, ReverseOK
  <2> QED BY <2>1, <2>3, <2>4, RowsAssumption
<1>2. /\ thread'[t].pc = "recordingUndo" /\ thread'[t].undo = q /\ thread'[t].out = out
      /\ \A u \in Threads : u # t => thread'[u] = thread[u]
  BY GotoMoves, PcsFact DEF Mark, IInv, UndoReporting
<1>3. rows'[q].status = rows[q].status => LinkOK(t)'
  BY <1>1, <1>2 DEF LinkOK, UndoReporting
<1>4. CASE out # "failed" /\ SetStatus(f, "rolled_back")
  <2> DEFINE new == [rows[f] EXCEPT !.status = "rolled_back"]
  <2>1. new.link = rows[f].link /\ new.status = "rolled_back"
    BY <1>1 DEF Row
  <2>2. rows' = [rows EXCEPT ![f] = new]
    BY <1>4 DEF SetStatus
  <2> HIDE DEF new
  <2>3. RowsWell
    <3>1. new.link \in Reverse /\ rows[new.link].status = "completed" /\ UNCHANGED calls
      BY <1>1, <1>4, <2>1
    <3> QED BY <1>1, <2>1, <2>2, <3>1, OneRowWell
  <2>4. rows'[q] = rows[q]
    BY <1>1, <2>2 DEF IInv, TypeOK
  <2> QED BY <1>1, <1>2, <1>3, <2>3, <2>4, QuietWell DEF GoodStep, CallsWell
<1>5. CASE out = "failed" /\ rows' = Unlinked(rows, q)
  <2>1. RowsWell
    BY <1>1, <1>5, UnlinkedWell
  <2>2. rows'[q] = rows[q]
    BY <1>1, <1>5 DEF Unlinked
  <2> QED BY <1>1, <1>2, <1>3, <2>1, <2>2, QuietWell DEF GoodStep, CallsWell
<1>6. CASE UNCHANGED rows
  BY <1>1, <1>2, <1>3, <1>6, StandWell, QuietWell DEF GoodStep, CallsWell
<1> QED BY <1>4, <1>5, <1>6 DEF Mark

LEMMA RecordUndoGood ==
    ASSUME IInv, LInv, NEW t \in Threads, NEW q \in Reverse, thread[t].undo = q, RecordUndo(t)
    PROVE  GoodStep
<1>1. /\ q \in Rows /\ UNCHANGED rows
      /\ rows[q].status = IF thread[t].out = "failed" THEN "failed" ELSE "completed"
  BY MoverFacts DEF RecordUndo, At, LInv, Linking, LinkOK, UndoReporting
<1>2. TrailWell
  BY <1>1, LogWell DEF RecordUndo, Successes, Failures
<1> QED BY <1>2, EndsWell, StandWell, QuietWell DEF RecordUndo, GoodStep

----
\* The other steps.

\* The local state of a call that begins.
Started(t, new) == /\ thread' = [thread EXCEPT ![t] = new]
                   /\ new.pc \in {"deciding", "expiring", "claiming", "inserting"}

LEMMA BeginStarts == ASSUME NEW t, NEW f, Begin(t, f) PROVE \E new : Started(t, new)
<1>1. CASE \E verdict \in {"approved", "rejected"} : ReviewRead(t, f, verdict)
  <2>1. PICK verdict : ReviewRead(t, f, verdict)
    BY <1>1
  <2> DEFINE new == [Idle EXCEPT !.pc = "deciding", !.row = f, !.seen = rows[f].status, !.out = verdict]
  <2>2. thread' = [thread EXCEPT ![t] = new] /\ new.pc = "deciding"
    BY <2>1 DEF ReviewRead, Idle
  <2> QED BY <2>2 DEF Started
<1>2. CASE ExpiryRead(t, f)
  <2> DEFINE new == [Idle EXCEPT !.pc = "expiring", !.row = f, !.seen = rows[f].status]
  <2>1. thread' = [thread EXCEPT ![t] = new] /\ new.pc = "expiring"
    BY <1>2 DEF ExpiryRead, Idle
  <2> QED BY <2>1 DEF Started
<1>3. CASE ExecuteRead(t, f)
  <2> DEFINE new == [Idle EXCEPT !.pc = "claiming", !.row = f, !.seen = rows[f].status]
  <2>1. thread' = [thread EXCEPT ![t] = new] /\ new.pc = "claiming"
    BY <1>3 DEF ExecuteRead, Idle
  <2> QED BY <2>1 DEF Started
<1>4. CASE RollbackRead(t, f)
  <2>1. PICK mode : thread' = [thread EXCEPT ![t] = [Idle EXCEPT !.pc = "inserting", !.row = f, !.out = mode]]
    BY <1>4 DEF RollbackRead
  <2> DEFINE new == [Idle EXCEPT !.pc = "inserting", !.row = f, !.out = mode]
  <2>2. thread' = [thread EXCEPT ![t] = new] /\ new.pc = "inserting"
    BY <2>1 DEF Idle
  <2> QED BY <2>2 DEF Started
<1> QED BY <1>1, <1>2, <1>3, <1>4 DEF Begin

LEMMA BeginGood == ASSUME IInv, NEW t \in Threads, NEW f \in Forward, Begin(t, f) PROVE GoodStep
<1>1. UNCHANGED <<rows, swept, calls>>
  BY DEF Begin, ReviewRead, ExpiryRead, ExecuteRead, RollbackRead
<1>2. TrailWell
  <2>1. CASE UNCHANGED trail
    BY <2>1, QuietWell
  <2>2. CASE Log(f, "approved") \/ Log(f, "rejected")
    BY <2>2, LogWell DEF Successes, Failures, Rows
  <2> QED BY <2>1, <2>2 DEF Begin, ReviewRead, ExpiryRead, ExecuteRead, RollbackRead
<1>3. PICK new : Started(t, new)
  BY BeginStarts
<1>4. thread'[t] = new /\ \A u \in Threads : u # t => thread'[u] = thread[u]
  BY <1>3, Still DEF TypeOK, Started
<1>5. LinkOK(t)'
  BY <1>3, <1>4, PlainCall DEF Started, Knowing, UndoReporting
<1>6. CallsWell
  BY <1>4, <1>5 DEF CallsWell
<1> QED BY <1>1, <1>2, <1>6, StandWell, QuietWell DEF GoodStep

LEMMA CrashGood == ASSUME IInv, NEW t \in Threads, Crash(t) PROVE GoodStep
  BY EndsWell, StandWell, QuietWell DEF Crash, GoodStep

LEMMA ProposeGood == ASSUME IInv, NEW f \in Forward, Propose(f) PROVE GoodStep
<1>1. f \in Rows /\ rows[f].status = "absent" /\ UNCHANGED <<thread, swept, calls, trail>>
  BY DEF Propose, Rows
<1>2. rows[f].link = None
  BY <1>1 DEF IInv, Table, ForwardOK
<1>3. PICK new : rows' = [rows EXCEPT ![f] = new] /\ new.link = None /\ new.status # "rolled_back"
  <2> DEFINE proposed(type, approval, dry) ==
               [NoRow EXCEPT !.status = IF approval THEN "pending_approval" ELSE "pending",
                             !.type = type, !.approval = approval, !.dry = dry]
  <2>1. PICK type \in Proposable, approval \in BOOLEAN, dry \in BOOLEAN :
           rows' = [rows EXCEPT ![f] = proposed(type, approval, dry)]
    BY DEF Propose
  <2>2. proposed(type, approval, dry).link = None /\ proposed(type, approval, dry).status # "rolled_back"
    BY DEF NoRow
  <2> HIDE DEF proposed
  <2> QED BY <2>1, <2>2
<1>4. RowsWell
  BY <1>1, <1>2, <1>3, OneRowWell
<1> QED BY <1>1, <1>4, StaysWell, QuietWell DEF GoodStep

LEMMA CloseAnomalyGood == ASSUME IInv, NEW f \in Forward, CloseAnomaly(f) PROVE GoodStep
  BY StaysWell, StandWell, QuietWell DEF CloseAnomaly, GoodStep

LEMMA SweepGood == ASSUME IInv, Sweep PROVE GoodStep
<1>1. PICK S \in SUBSET Rows :
        /\ \A r \in S : rows[r].status = "executing"
        /\ rows' = [r \in Rows |-> IF r \in S THEN [rows[r] EXCEPT !.status = "failed"] ELSE rows[r]]
        /\ swept' = swept \cup S
  BY DEF Sweep, SweepOf, Unsubmitted
<1>2. UNCHANGED <<thread, calls, trail>>
  BY DEF Sweep, SweepOf
<1>3. ASSUME NEW r \in Rows
      PROVE  /\ rows'[r].link = rows[r].link /\ rows'[r].executed = rows[r].executed
             /\ rows'[r].status = IF r \in S THEN "failed" ELSE rows[r].status
  <2>1. LET new == [rows[r] EXCEPT !.status = "failed"] IN
          new.link = rows[r].link /\ new.executed = rows[r].executed /\ new.status = "failed"
    BY Still DEF TypeOK, Row
  <2> QED BY <1>1, <2>1
<1>4. SweptWell
  BY <1>1, <1>3 DEF SweptWell
<1>5. \A f \in Forward : KeepsLink(f) /\ UndoneWell(f)
  BY <1>3 DEF KeepsLink, UndoneWell, Rows
<1>6. \A q \in Reverse : BackedStill(q)
  BY <1>2, <1>3 DEF BackedStill, Owes, Rows
<1> QED BY <1>2, <1>4, <1>5, <1>6, StaysWell, QuietWell DEF GoodStep, RowsWell

LEMMA SweepReleaseGood == ASSUME IInv, LInv, NEW r \in Rows, SweepRelease(r) PROVE GoodStep
<1>1. rows[r].status = "failed" /\ Log(r, "failed") /\ swept' \subseteq swept /\ UNCHANGED <<thread, calls>>
  BY DEF SweepRelease, LInv, SweptFailed
<1>2. RowsWell /\ rows'[r].status = "failed"
  <2>1. CASE rows' = Unlinked(rows, r)
    BY <1>1, <2>1, UnlinkedWell DEF Unlinked
  <2>2. CASE UNCHANGED rows
    BY <1>1, <2>2, StandWell
  <2> QED BY <2>1, <2>2 DEF SweepRelease
<1>3. TrailWell
  BY <1>1, <1>2, LogWell DEF Successes
<1> QED BY <1>1, <1>2, <1>3, StaysWell DEF GoodStep, SweptWell

\* The verdict of the verification job on a submitted row: it is completed, and what it undid is
\* rolled back ...
LEMMA CompleteVerifiedGood == ASSUME IInv, LInv, NEW r \in Rows, CompleteVerified(r) PROVE GoodStep
<1> DEFINE new == [rows[r] EXCEPT !.status = "completed"]
           done == [rows EXCEPT ![r] = new]
<1>1. /\ rows[r].status = "executing" /\ rows[r].executed /\ Log(r, "verified")
      /\ rows' = done \/ rows' = RolledBack(done, r)
      /\ UNCHANGED <<thread, swept, calls>>
  BY DEF CompleteVerified, Awaiting
<1>2. rows[r].link = None
  BY <1>1 DEF IInv, Table, ForwardOK, ReverseOK, Rows
<1>3. new.status = "completed" /\ new.link = None
  BY <1>2, Still DEF TypeOK, Row
<1>4. done[r] = new /\ \A s \in Rows : s # r => done[s] = rows[s]
  BY Still DEF TypeOK
<1> HIDE DEF new, done
<1>5. ASSUME NEW s \in Rows, s # r
      PROVE  /\ rows'[s].link = rows[s].link /\ rows'[s].executed = rows[s].executed
             /\ \/ rows'[s].status = rows[s].status
                \/ rows[s].link = r /\ rows'[s].status = "rolled_back"
  <2>1. LET back == [rows[s] EXCEPT !.status = "rolled_back"] IN
          back.link = rows[s].link /\ back.executed = rows[s].executed /\ back.status = "rolled_back"
    BY Still DEF TypeOK, Row
  <2>2. CASE rows' = done
    BY <1>4, <1>5, <2>2
  <2>3. CASE rows' = RolledBack(done, r)
    BY <1>4, <1>5, <2>1, <2>3 DEF RolledBack
  <2> QED BY <1>1, <2>2, <2>3
<1>6. rows'[r] = new
  <2>1. r # None
    BY RowsAssumption DEF Rows
  <2> QED BY <1>1, <1>3, <1>4, <2>1 DEF RolledBack
<1>7. ASSUME NEW f \in Forward PROVE KeepsLink(f) /\ UndoneWell(f)
  <2>1. CASE f = r
    BY <1>2, <1>3, <1>6, <2>1 DEF KeepsLink, UndoneWell
  <2>2. CASE f # r
    <3>1. f \in Rows /\ r # None
      BY RowsAssumption DEF Rows
    <3> QED BY <1>3, <1>5, <1>6, <2>2, <3>1 DEF KeepsLink, UndoneWell
  <2> QED BY <2>1, <2>2
<1>8. ASSUME NEW q \in Reverse PROVE BackedStill(q)
  <2>1. CASE q = r
    BY <1>1, <2>1 DEF BackedStill, Owes
  <2>2. CASE q # r
    BY <1>1, <1>5, <2>2 DEF BackedStill, Owes, Rows
  <2> QED BY <2>1, <2>2
<1>9. TrailWell
  BY <1>1, <1>3, <1>6, LogWell DEF Failures
<1> QED BY <1>1, <1>7, <1>8, <1>9, StaysWell, QuietWell DEF GoodStep, RowsWell

\* ... or it fails, and its original is free for a retry.
LEMMA FailTimedOutGood == ASSUME IInv, NEW r \in Rows, FailTimedOut(r) PROVE GoodStep
<1> DEFINE new == [rows[r] EXCEPT !.status = "failed"]
           done == [rows EXCEPT ![r] = new]
<1>1. /\ rows[r].status = "executing" /\ Log(r, "failed") /\ rows' = Unlinked(done, r)
      /\ UNCHANGED <<thread, swept, calls>>
  BY DEF FailTimedOut, Awaiting
<1>2. rows[r].link = None
  BY <1>1 DEF IInv, Table, ForwardOK, ReverseOK, Rows
<1>3. new.status = "failed" /\ new.link = None
  BY <1>2, Still DEF TypeOK, Row
<1>4. done[r] = new /\ \A s \in Rows : s # r => done[s] = rows[s]
  BY Still DEF TypeOK
<1> HIDE DEF new, done
<1>5. ASSUME NEW s \in Rows, s # r
      PROVE  /\ rows'[s].status = rows[s].status /\ rows'[s].executed = rows[s].executed
             /\ \/ rows'[s].link = rows[s].link
                \/ rows[s].link = r /\ rows[s].status = "completed" /\ rows'[s].link = None
  <2>1. LET free == [rows[s] EXCEPT !.link = None] IN
          free.status = rows[s].status /\ free.executed = rows[s].executed /\ free.link = None
    BY Still DEF TypeOK, Row
  <2> QED BY <1>1, <1>4, <1>5, <2>1 DEF Unlinked
<1>6. rows'[r] = new
  BY <1>1, <1>3, <1>4 DEF Unlinked
<1>7. ASSUME NEW f \in Forward PROVE KeepsLink(f) /\ UndoneWell(f)
  <2>1. CASE f = r
    BY <1>2, <1>3, <1>6, <2>1 DEF KeepsLink, UndoneWell
  <2>2. CASE f # r
    BY <1>3, <1>5, <1>6, <2>2 DEF KeepsLink, UndoneWell, Rows
  <2> QED BY <2>1, <2>2
<1>8. ASSUME NEW q \in Reverse PROVE BackedStill(q)
  <2>1. CASE q = r
    BY <1>3, <1>6, <2>1 DEF BackedStill
  <2>2. CASE q # r
    BY <1>1, <1>5, <2>2 DEF BackedStill, Owes, Rows
  <2> QED BY <2>1, <2>2
<1>9. TrailWell
  BY <1>1, <1>3, <1>6, LogWell DEF Successes
<1> QED BY <1>1, <1>7, <1>8, <1>9, StaysWell, QuietWell DEF GoodStep, RowsWell

LEMMA CrashSweepGood == ASSUME IInv, CrashSweep PROVE GoodStep
  BY StaysWell, StandWell, QuietWell DEF CrashSweep, GoodStep, SweptWell

----
\* The invariant is inductive.

LEMMA ProceedGood == ASSUME IInv, LInv, NEW t \in Threads, Proceed(t) PROVE GoodStep
<1>1. CASE Decide(t) \/ Expire(t) \/ Claim(t) \/ AuditStart(t) \/ Gate(t) \/ Mutate(t) \/ Submit(t)
  BY <1>1, DecideGood, ExpireGood, ClaimGood, AuditStartGood, GateGood, MutateGood, SubmitGood
<1>2. CASE Finish(t) \/ Record(t) \/ Resolve(t) \/ RollbackInsert(t)
  BY <1>2, FinishGood, RecordGood, ResolveGood, RollbackInsertGood
<1>3. CASE RollbackLink(t) \/ Supersede(t) \/ Undo(t) \/ SubmitUndo(t) \/ FinishUndo(t) \/ Mark(t) \/ RecordUndo(t)
  <2>1. thread[t].pc \in Undoing \cup UndoReporting /\ thread[t].pc # "idle"
    BY <1>3 DEF At, RollbackLink, Supersede, Undo, SubmitUndo, FinishUndo, Mark, RecordUndo, Undoing, UndoReporting
  <2>2. PICK q \in Reverse : thread[t].undo = q
    BY <2>1, MoverFacts
  <2> QED BY <1>3, <2>2, RollbackLinkGood, SupersedeGood, UndoGood, SubmitUndoGood, FinishUndoGood,
             MarkGood, RecordUndoGood
<1> QED BY <1>1, <1>2, <1>3 DEF Proceed

LEMMA NextGood == ASSUME IInv, LInv, [Next]_vars PROVE GoodStep
<1>1. CASE UNCHANGED vars
  BY <1>1, StaysWell, StandWell, QuietWell DEF vars, GoodStep
<1>2. CASE \E f \in Forward : Propose(f) \/ CloseAnomaly(f)
  BY <1>2, ProposeGood, CloseAnomalyGood
<1>3. CASE \E t \in Threads : Proceed(t) \/ Crash(t) \/ \E f \in Forward : Begin(t, f)
  BY <1>3, ProceedGood, CrashGood, BeginGood
<1>4. CASE \E r \in Rows : SweepRelease(r) \/ CompleteVerified(r) \/ FailTimedOut(r)
  BY <1>4, SweepReleaseGood, CompleteVerifiedGood, FailTimedOutGood
<1>5. CASE Sweep \/ CrashSweep
  BY <1>5, SweepGood, CrashSweepGood
<1> QED BY <1>1, <1>2, <1>3, <1>4, <1>5 DEF Next

LEMMA InitLinks == Init => LInv
<1> SUFFICES ASSUME Init PROVE LInv
  OBVIOUS
<1>1. NoRow.status = "absent" /\ NoRow.link = None /\ NoRow.executed = FALSE /\ Idle.pc = "idle"
  BY DEF NoRow, Idle
<1> QED BY <1>1 DEF Init, LInv, Linking, LinkOK, UndoReporting, SweptFailed, Backed, Owes,
                    RolledBackIsUndone, TrailAgrees, Rows

LEMMA SpecLinks == Spec => [](IInv /\ LInv)
<1>1. ASSUME IInv, LInv, [Next]_vars PROVE IInv' /\ LInv'
  <2>1. IInv' /\ GoodStep /\ \A s \in Rows : KeepsOutcome(s)
    BY <1>1, NextSafe, NextGood, NextKeeps
  <2> QED BY <1>1, <2>1, GoodStepKeeps
<1> QED BY <1>1, InitOK, InitLinks, PTL DEF Spec

----
\* The theorems.

\* The audit trail never contradicts the table, although rows are written by one statement and
\* audited by a later one: nothing changes an outcome between the two.
THEOREM TrailsAgree == Spec => []TrailAgrees
<1>1. LInv => TrailAgrees
  BY DEF LInv
<1> QED BY <1>1, SpecLinks, PTL

\* An action is rolled back only with the rollback that undid it, completed, on its row.
THEOREM RolledBackWasUndone == Spec => []RolledBackIsUndone
<1>1. LInv => RolledBackIsUndone
  BY DEF LInv
<1> QED BY <1>1, SpecLinks, PTL

\* A rollback that reached the cloud or completed belongs to an original, unless it failed: of two
\* concurrent rollbacks the one that lost the link calls nothing.
THEOREM RollbacksAreLinked == Spec => []RollbackIsLinked
<1>1. ASSUME IInv, LInv PROVE RollbackIsLinked
  <2> SUFFICES ASSUME NEW q \in Reverse, calls[q] > 0 \/ rows[q].status = "completed",
                      rows[q].status # "failed"
               PROVE  \E f \in Forward : rows[f].link = q /\ rows[f].status \in {"completed", "rolled_back"}
    BY DEF RollbackIsLinked
  <2>1. PICK f \in Forward : rows[f].link = q
    BY <1>1 DEF LInv, Backed, Owes, Linked
  <2>2. rows[f].status \in {"completed", "rolled_back"}
    BY <1>1, <2>1, RowsAssumption DEF IInv, Table, ForwardOK
  <2> QED BY <2>1, <2>2
<1> QED BY <1>1, SpecLinks, PTL

----
\* The refinement of ActionContract.  Of the contract's promises two need more than the above: that
\* phases move along its edges, and that no rollback undoes two actions.

\* A rollback is linked once: one that is about to be linked, or not yet inserted, has no original.
LinkedOnce == \A f, g \in Forward : rows[f].link = rows[g].link /\ rows[f].link # None => f = g
LinkIsNew == /\ \A q \in Reverse : rows[q].status = "absent" => ~Linked(q)
             /\ \A t \in Threads : thread[t].pc = "linking" => ~Linked(thread[t].undo)

CInv == LinkedOnce /\ LinkIsNew

\* How a row's status moves.
Move(r, from, to) ==
    \/ to = from
    \/ from = "absent" /\ r \in Forward /\ to \in Undecided
    \/ from = "absent" /\ r \in Reverse /\ to = "executing"
    \/ from \in Undecided /\ to \in {"approved", "rejected", "failed"}
    \/ from \in {"pending", "approved"} /\ to \in {"executing", "failed"}
    \/ from = "executing" /\ to \in {"completed", "failed"}
    \/ from = "completed" /\ to = "rolled_back"

Moves == \A r \in Rows : Move(r, rows[r].status, rows'[r].status)

\* A link is made by the call that is about to make it ...
LinkMade(f) ==
    \/ rows'[f].link \in {rows[f].link, None}
    \/ \E t \in Threads : /\ thread[t].pc = "linking" /\ thread[t].row = f
                          /\ rows'[f].link = thread[t].undo /\ thread'[t].pc # "linking"

\* ... and that one has inserted its rollback just before.
AboutToLink(u) ==
    thread'[u].pc = "linking" =>
        \/ thread[u].pc = "linking" /\ thread'[u].undo = thread[u].undo
        \/ thread'[u].undo \in Reverse /\ rows[thread'[u].undo].status = "absent"

LinksMade == (\A f \in Forward : LinkMade(f)) /\ (\A u \in Threads : AboutToLink(u))

LEMMA LinksKept ==
    ASSUME IInv, IInv', CInv, Moves, LinksMade
    PROVE  CInv'
<1>1. ASSUME NEW f \in Forward, rows'[f].link # None
      PROVE  \/ rows[f].link = rows'[f].link
             \/ \E t \in Threads : /\ thread[t].pc = "linking" /\ thread[t].row = f
                                   /\ rows'[f].link = thread[t].undo /\ thread'[t].pc # "linking"
  BY <1>1 DEF LinksMade, LinkMade
<1>2. ASSUME NEW t \in Threads, thread[t].pc = "linking"
      PROVE  /\ thread[t].undo \in Reverse /\ thread[t].undo \in Rows /\ Holds(t, thread[t].undo)
             /\ ~Linked(thread[t].undo) /\ rows[thread[t].undo].status = "executing"
  <2>1. "linking" \in Undoing
    BY DEF Undoing
  <2>2. HandlerOK(t) /\ ~Linked(thread[t].undo)
    BY <1>2 DEF IInv, Handlers, CInv, LinkIsNew
  <2>3. thread[t].undo \in Reverse /\ rows[thread[t].undo].status = "executing"
    BY <1>2, <2>1, <2>2 DEF HandlerOK
  <2> QED BY <1>2, <2>1, <2>2, <2>3 DEF Holds, Rows
<1>3. LinkedOnce'
  <2> SUFFICES ASSUME NEW f \in Forward, NEW g \in Forward, rows'[f].link = rows'[g].link, rows'[f].link # None
               PROVE  f = g
    BY DEF LinkedOnce
  <2>1. CASE rows[f].link = rows'[f].link /\ rows[g].link = rows'[g].link
    BY <2>1 DEF CInv, LinkedOnce
  <2>2. CASE rows[f].link # rows'[f].link /\ rows[g].link = rows'[g].link
    BY <1>1, <1>2, <2>2 DEF Linked
  <2>3. CASE rows[f].link = rows'[f].link /\ rows[g].link # rows'[g].link
    BY <1>1, <1>2, <2>3 DEF Linked
  <2>4. CASE rows[f].link # rows'[f].link /\ rows[g].link # rows'[g].link
    <3>1. PICK t \in Threads : thread[t].pc = "linking" /\ thread[t].row = f /\ rows'[f].link = thread[t].undo
      BY <1>1, <2>4
    <3>2. PICK u \in Threads : thread[u].pc = "linking" /\ thread[u].row = g /\ rows'[g].link = thread[u].undo
      BY <1>1, <2>4
    <3>3. t = u
      BY <1>2, <3>1, <3>2 DEF IInv, Exclusive
    <3> QED BY <3>1, <3>2, <3>3
  <2> QED BY <2>1, <2>2, <2>3, <2>4
<1>4. ASSUME NEW q \in Reverse, rows'[q].status = "absent" PROVE ~Linked(q)'
  <2>1. q \in Rows /\ q # None
    BY RowsAssumption DEF Rows
  <2>2. rows[q].status = "absent"
    BY <1>4, <2>1 DEF Moves, Move, Undecided
  <2>3. ~Linked(q)
    BY <2>2 DEF CInv, LinkIsNew
  <2> QED BY <1>1, <1>2, <2>1, <2>2, <2>3 DEF Linked
<1>5. ASSUME NEW u \in Threads, thread'[u].pc = "linking" PROVE ~Linked(thread[u].undo)'
  <2> DEFINE q == thread'[u].undo
  <2> SUFFICES ASSUME NEW f \in Forward, rows'[f].link = q PROVE FALSE
    BY DEF Linked
  <2>1. CASE thread[u].pc = "linking" /\ q = thread[u].undo
    <3>1. q \in Rows /\ q # None /\ ~Linked(q) /\ Holds(u, q)
      BY <1>2, <2>1, RowsAssumption
    <3>2. \A t \in Threads : thread[t].pc = "linking" /\ thread[t].undo = q => t = u
      BY <1>2, <3>1 DEF IInv, Exclusive
    <3> QED BY <1>1, <1>5, <3>1, <3>2 DEF Linked
  <2>2. CASE q \in Reverse /\ rows[q].status = "absent"
    <3>1. q # None /\ ~Linked(q)
      BY <2>2, RowsAssumption DEF CInv, LinkIsNew
    <3> QED BY <1>1, <1>2, <2>2, <3>1 DEF Linked
  <2> QED BY <1>5, <2>1, <2>2 DEF LinksMade, AboutToLink
<1> QED BY <1>3, <1>4, <1>5 DEF CInv, LinkIsNew

\* A write to one row.
LEMMA OneRowMoves ==
    ASSUME IInv, NEW r \in Rows, NEW new, rows' = [rows EXCEPT ![r] = new],
           Move(r, rows[r].status, new.status)
    PROVE  /\ Moves
           /\ new.link = rows[r].link => \A f \in Forward : LinkMade(f)
           /\ r \in Reverse => \A f \in Forward : LinkMade(f)
<1>1. rows'[r] = new /\ \A s \in Rows : s # r => rows'[s] = rows[s]
  BY Still DEF TypeOK
<1>2. Moves
  BY <1>1 DEF Moves, Move
<1> QED BY <1>1, <1>2, RowsAssumption DEF LinkMade, Rows

LEMMA RowsUnmoved == UNCHANGED rows => Moves /\ \A f \in Forward : LinkMade(f)
  BY DEF Moves, Move, LinkMade

LEMMA UnlinkedMoves ==
    ASSUME IInv, NEW q \in Rows, rows' = Unlinked(rows, q)
    PROVE  Moves /\ \A f \in Forward : LinkMade(f)
<1>1. ASSUME NEW s \in Rows PROVE rows'[s].status = rows[s].status /\ rows'[s].link \in {rows[s].link, None}
  <2>1. LET free == [rows[s] EXCEPT !.link = None] IN free.status = rows[s].status /\ free.link = None
    BY Still DEF TypeOK, Row
  <2> QED BY <2>1 DEF Unlinked
<1> QED BY <1>1 DEF Moves, Move, LinkMade, Rows

\* A call that ends in another place than "linking".
LEMMA LinkersStand ==
    ASSUME IInv, NEW t \in Threads,
           \/ Done(t)
           \/ \E pc \in Pcs \ {"linking"} : Goto(t, pc) \/ \E out \in Outs : GotoWith(t, pc, out)
    PROVE  thread'[t].pc # "linking" /\ \A u \in Threads : AboutToLink(u)
<1>1. thread'[t].pc # "linking" /\ \A u \in Threads : u # t => thread'[u] = thread[u]
  <2>1. CASE Done(t)
    BY <2>1, DoneMoves DEF IInv
  <2>2. CASE \E pc \in Pcs \ {"linking"} : Goto(t, pc)
    BY <2>2, GotoMoves DEF IInv
  <2>3. CASE \E pc \in Pcs \ {"linking"}, out \in Outs : GotoWith(t, pc, out)
    BY <2>3, GotoWithMoves DEF IInv
  <2> QED BY <2>1, <2>2, <2>3
<1> QED BY <1>1 DEF AboutToLink

LEMMA ExecuteMoves ==
    ASSUME IInv, NEW t \in Threads,
           Decide(t) \/ Expire(t) \/ Claim(t) \/ AuditStart(t) \/ Gate(t) \/ Mutate(t) \/ Submit(t)
             \/ Finish(t) \/ Record(t) \/ Resolve(t)
    PROVE  Moves /\ LinksMade
<1>1. thread[t].pc # "idle"
  BY DEF At, Decide, Expire, Claim, AuditStart, Gate, Mutate, Submit, Finish, Record, Resolve
<1>2. PICK f \in Forward : thread[t].row = f
  BY <1>1, MoverFacts
<1>3. f \in Rows /\ rows[f] \in Row /\ HandlerOK(t)
  BY <1>1, <1>2, MoverFacts
<1>4. \A u \in Threads : AboutToLink(u)
  <2>1. CASE Decide(t) \/ Expire(t) \/ Claim(t) \/ Submit(t) \/ Resolve(t)
    BY <2>1, LinkersStand, PcsFact DEF Decide, Expire, Claim, Submit, Resolve, Working
  <2>2. CASE AuditStart(t) \/ Gate(t) \/ Mutate(t)
    BY <2>2, LinkersStand, PcsFact DEF AuditStart, Gate, Mutate, Working, Outs
  <2>3. CASE Finish(t) \/ Record(t)
    BY <2>3, LinkersStand, PcsFact DEF Finish, Record, Reporting
  <2> QED BY <2>1, <2>2, <2>3
<1>5. CASE UNCHANGED rows
  BY <1>4, <1>5, RowsUnmoved DEF LinksMade
<1>6. CASE (Decide(t) \/ Expire(t) \/ Claim(t)) /\ ~UNCHANGED rows
  <2>1. PICK status : /\ rows' = [rows EXCEPT ![f] = [rows[f] EXCEPT !.status = status]]
                      /\ Move(f, rows[f].status, status)
    <3>1. CASE Decide(t)
      BY <1>2, <1>3, <1>6, <3>1 DEF Decide, At, HandlerOK, SetStatus, Move
    <3>2. CASE Expire(t)
      BY <1>2, <1>3, <1>6, <3>2 DEF Expire, At, HandlerOK, SetStatus, Move, Undecided
    <3>3. CASE Claim(t)
      BY <1>2, <1>3, <1>6, <3>3 DEF Claim, At, HandlerOK, SetStatus, Move
    <3> QED BY <1>6, <3>1, <3>2, <3>3
  <2>2. LET new == [rows[f] EXCEPT !.status = status] IN new.status = status /\ new.link = rows[f].link
    BY <1>3 DEF Row
  <2> QED BY <1>3, <1>4, <2>1, <2>2, OneRowMoves DEF LinksMade
<1>7. CASE (Gate(t) \/ Submit(t) \/ Finish(t)) /\ ~UNCHANGED rows
  <2>1. rows[f].status = "executing"
    BY <1>2, <1>3, <1>7 DEF Gate, Submit, Finish, At, HandlerOK, Working
  <2> DEFINE gated == [rows[f] EXCEPT !.pre = TRUE, !.dry = FALSE]
             submitted == [rows[f] EXCEPT !.status = "executing", !.executed = TRUE]
             finished(status, dry) == [rows[f] EXCEPT !.status = status, !.executed = TRUE, !.dry = @ \/ dry]
  <2>2. /\ gated.status = "executing" /\ gated.link = rows[f].link
        /\ submitted.status = "executing" /\ submitted.link = rows[f].link
        /\ \A status, dry : finished(status, dry).status = status /\ finished(status, dry).link = rows[f].link
    BY <1>3, <2>1 DEF Row
  <2>3. \/ rows' = [rows EXCEPT ![f] = gated]
        \/ rows' = [rows EXCEPT ![f] = submitted]
        \/ \E status \in {"completed", "failed"} : \E dry : rows' = [rows EXCEPT ![f] = finished(status, dry)]
    <3>1. CASE Gate(t)
      BY <1>2, <1>7, <3>1 DEF Gate
    <3>2. CASE Submit(t)
      <4>1. rows' = [rows EXCEPT ![f].status = "executing", ![f].executed = TRUE]
        BY <1>2, <1>7, <3>2 DEF Submit
      <4>2. [rows EXCEPT ![f].status = "executing", ![f].executed = TRUE] = [rows EXCEPT ![f] = submitted]
        OBVIOUS
      <4> QED BY <4>1, <4>2
    <3>3. CASE Finish(t)
      <4>1. LET out == thread[t].out IN
              rows' = [rows EXCEPT ![f] = finished(IF out \in {"ok", "dry"} THEN "completed" ELSE "failed", out = "dry")]
        BY <1>2, <3>3 DEF Finish
      <4> HIDE DEF finished
      <4> QED BY <4>1
    <3> QED BY <1>7, <3>1, <3>2, <3>3
  <2> HIDE DEF gated, submitted, finished
  <2>4. PICK new : /\ rows' = [rows EXCEPT ![f] = new] /\ new.link = rows[f].link
                   /\ new.status \in {"executing", "completed", "failed"}
    BY <2>2, <2>3
  <2>5. Move(f, rows[f].status, new.status)
    BY <2>1, <2>4 DEF Move
  <2> QED BY <1>3, <1>4, <2>4, <2>5, OneRowMoves DEF LinksMade
<1> QED BY <1>5, <1>6, <1>7 DEF AuditStart, Mutate, Record, Resolve

LEMMA RollbackMoves ==
    ASSUME IInv, LInv, NEW t \in Threads, NEW q \in Reverse, thread[t].undo = q,
           RollbackLink(t) \/ Supersede(t) \/ Undo(t) \/ SubmitUndo(t) \/ FinishUndo(t) \/ Mark(t) \/ RecordUndo(t)
    PROVE  Moves /\ LinksMade
<1> DEFINE f == thread[t].row
<1>1. thread[t].pc \in Undoing \cup UndoReporting /\ thread[t].pc # "idle"
  BY DEF At, RollbackLink, Supersede, Undo, SubmitUndo, FinishUndo, Mark, RecordUndo, Undoing, UndoReporting
<1>2. /\ f \in Forward /\ f \in Rows /\ rows[f] \in Row /\ q \in Rows /\ rows[q] \in Row
      /\ HandlerOK(t) /\ LinkOK(t) /\ rows[f].status \in {"completed", "rolled_back"}
      /\ thread[t].pc \in Undoing => rows[q].status = "executing"
  BY <1>1, MoverFacts, RollingFacts DEF LInv, Linking
<1>3. thread'[t].pc # "linking" /\ \A u \in Threads : AboutToLink(u)
  <2>1. CASE RollbackLink(t) \/ Undo(t)
    BY <2>1, LinkersStand, PcsFact DEF RollbackLink, Undo, Undoing, Outs
  <2>2. CASE Supersede(t) \/ SubmitUndo(t) \/ FinishUndo(t) \/ Mark(t) \/ RecordUndo(t)
    BY <2>2, LinkersStand, PcsFact DEF Supersede, SubmitUndo, FinishUndo, Mark, RecordUndo, UndoReporting
  <2> QED BY <2>1, <2>2
<1>4. CASE UNCHANGED rows
  BY <1>3, <1>4, RowsUnmoved DEF LinksMade
<1>5. CASE RollbackLink(t) /\ ~UNCHANGED rows
  <2> DEFINE new == [rows[f] EXCEPT !.link = q]
  <2>1. new.status = rows[f].status /\ new.link = q
    BY <1>2 DEF Row
  <2>2. rows' = [rows EXCEPT ![f] = new] /\ thread[t].pc = "linking"
    BY <1>5 DEF RollbackLink, At
  <2> HIDE DEF new
  <2>3. Moves
    BY <1>2, <2>1, <2>2, OneRowMoves DEF Move
  <2>4. \A g \in Forward : rows'[g] = IF g = f THEN new ELSE rows[g]
    BY <1>2, <2>2, Still DEF TypeOK, Rows
  <2>5. \A g \in Forward : LinkMade(g)
    BY <1>3, <2>1, <2>2, <2>4 DEF LinkMade
  <2> QED BY <1>3, <2>3, <2>5 DEF LinksMade
<1>6. CASE (Supersede(t) \/ SubmitUndo(t) \/ FinishUndo(t)) /\ ~UNCHANGED rows
  <2>1. rows[q].status = "executing"
    BY <1>2, <1>6 DEF At, Supersede, SubmitUndo, FinishUndo, Undoing
  <2> DEFINE superseded == [rows[q] EXCEPT !.status = "failed"]
             submitted == [rows[q] EXCEPT !.executed = TRUE]
             finished(status) == [rows[q] EXCEPT !.executed = TRUE, !.status = status]
  <2>2. /\ superseded.status = "failed" /\ submitted.status = "executing"
        /\ \A status : finished(status).status = status
    BY <1>2, <2>1 DEF Row
  <2>3. \/ rows' = [rows EXCEPT ![q] = superseded] \/ rows' = [rows EXCEPT ![q] = submitted]
        \/ \E status \in {"completed", "failed"} : rows' = [rows EXCEPT ![q] = finished(status)]
    BY <1>6 DEF Supersede, SubmitUndo, FinishUndo, SetStatus
  <2> HIDE DEF superseded, submitted, finished
  <2>4. PICK new : rows' = [rows EXCEPT ![q] = new] /\ new.status \in {"executing", "completed", "failed"}
    BY <2>2, <2>3
  <2>5. Move(q, rows[q].status, new.status)
    BY <2>1, <2>4 DEF Move
  <2> QED BY <1>2, <1>3, <2>4, <2>5, OneRowMoves DEF LinksMade
<1>7. CASE Mark(t) /\ SetStatus(f, "rolled_back")
  <2> DEFINE new == [rows[f] EXCEPT !.status = "rolled_back"]
  <2>1. new.status = "rolled_back" /\ new.link = rows[f].link /\ rows' = [rows EXCEPT ![f] = new]
    BY <1>2, <1>7 DEF Row, SetStatus
  <2> HIDE DEF new
  <2> QED BY <1>2, <1>3, <2>1, OneRowMoves DEF Move, LinksMade
<1>8. CASE Mark(t) /\ rows' = Unlinked(rows, q)
  BY <1>2, <1>3, <1>8, UnlinkedMoves DEF LinksMade
<1> QED BY <1>4, <1>5, <1>6, <1>7, <1>8 DEF Mark, Undo, RecordUndo

LEMMA RollbackInsertMoves == ASSUME IInv, NEW t \in Threads, RollbackInsert(t) PROVE Moves /\ LinksMade
<1> DEFINE type == REVERSIBLE[rows[thread[t].row].type]
           dry == thread[t].out = "dry"
<1>1. CASE Done(t) /\ UNCHANGED rows
  BY <1>1, LinkersStand, RowsUnmoved DEF LinksMade
<1>2. CASE \E q \in Reverse :
             /\ rows[q].status = "absent"
             /\ rows' = [rows EXCEPT ![q] = [NoRow EXCEPT !.status = "executing", !.type = type, !.dry = dry]]
             /\ thread' = [thread EXCEPT ![t].pc = "linking", ![t].undo = q]
  <2>1. PICK q \in Reverse :
             /\ rows[q].status = "absent"
             /\ rows' = [rows EXCEPT ![q] = [NoRow EXCEPT !.status = "executing", !.type = type, !.dry = dry]]
             /\ thread' = [thread EXCEPT ![t].pc = "linking", ![t].undo = q]
    BY <1>2
  <2> DEFINE new == [NoRow EXCEPT !.status = "executing", !.type = type, !.dry = dry]
             next == [thread[t] EXCEPT !.pc = "linking", !.undo = q]
  <2>2. new.status = "executing" /\ next.undo = q
    BY Still DEF NoRow, TypeOK
  <2>3. rows' = [rows EXCEPT ![q] = new] /\ thread' = [thread EXCEPT ![t] = next]
    <3>1. [thread EXCEPT ![t].pc = "linking", ![t].undo = q] = [thread EXCEPT ![t] = next]
      OBVIOUS
    <3>2. thread' = [thread EXCEPT ![t] = next]
      BY <2>1, <3>1
    <3> QED BY <2>1, <3>2
  <2> HIDE DEF new, next
  <2>4. Moves /\ \A f \in Forward : LinkMade(f)
    <3>1. q \in Rows /\ Move(q, rows[q].status, new.status)
      BY <2>1, <2>2 DEF Move, Rows
    <3> QED BY <2>3, <3>1, OneRowMoves
  <2>5. \A u \in Threads : AboutToLink(u)
    BY <2>1, <2>2, <2>3, Still DEF AboutToLink, TypeOK
  <2> QED BY <2>4, <2>5 DEF LinksMade
<1> QED BY <1>1, <1>2 DEF RollbackInsert

LEMMA CallsMoves == ASSUME IInv, LInv, NEW t \in Threads, Proceed(t) PROVE Moves /\ LinksMade
<1>1. CASE RollbackLink(t) \/ Supersede(t) \/ Undo(t) \/ SubmitUndo(t) \/ FinishUndo(t) \/ Mark(t) \/ RecordUndo(t)
  <2>1. thread[t].pc \in Undoing \cup UndoReporting /\ thread[t].pc # "idle"
    BY <1>1 DEF At, RollbackLink, Supersede, Undo, SubmitUndo, FinishUndo, Mark, RecordUndo, Undoing, UndoReporting
  <2>2. PICK q \in Reverse : thread[t].undo = q
    BY <2>1, MoverFacts
  <2> QED BY <1>1, <2>2, RollbackMoves
<1> QED BY <1>1, ExecuteMoves, RollbackInsertMoves DEF Proceed

\* The verification job and the sweep change no call, and write what is executing.
LEMMA SweepMoves == ASSUME IInv, Sweep PROVE Moves /\ \A f \in Forward : LinkMade(f)
<1>1. PICK S \in SUBSET Rows :
        /\ \A r \in S : rows[r].status = "executing"
        /\ rows' = [r \in Rows |-> IF r \in S THEN [rows[r] EXCEPT !.status = "failed"] ELSE rows[r]]
  BY DEF Sweep, SweepOf, Unsubmitted
<1>2. ASSUME NEW r \in Rows
      PROVE  rows'[r].link = rows[r].link /\ rows'[r].status = IF r \in S THEN "failed" ELSE rows[r].status
  <2>1. LET new == [rows[r] EXCEPT !.status = "failed"] IN new.link = rows[r].link /\ new.status = "failed"
    BY Still DEF TypeOK, Row
  <2> QED BY <1>1, <2>1
<1> QED BY <1>1, <1>2 DEF Moves, Move, LinkMade, Rows

LEMMA VerdictMoves ==
    ASSUME IInv, LInv, NEW r \in Rows, NEW outcome \in {"completed", "failed"},
           rows[r].status = "executing", rows[r].executed,
           LET done == [rows EXCEPT ![r].status = outcome] IN
             rows' = done \/ rows' = Unlinked(done, r) \/ (outcome = "completed" /\ rows' = RolledBack(done, r))
    PROVE  Moves /\ \A f \in Forward : LinkMade(f)
<1> DEFINE new == [rows[r] EXCEPT !.status = outcome]
           done == [rows EXCEPT ![r] = new]
<1>1. rows' = done \/ rows' = Unlinked(done, r) \/ rows' = RolledBack(done, r)
  OBVIOUS
<1>2. rows[r].link = None /\ r # None
  BY RowsAssumption DEF IInv, Table, ForwardOK, ReverseOK, Rows
<1>3. new.status = outcome /\ new.link = None
  BY <1>2, Still DEF TypeOK, Row
<1>4. done[r] = new /\ \A s \in Rows : s # r => done[s] = rows[s]
  BY Still DEF TypeOK
<1> HIDE DEF new, done
<1>5. rows'[r] = new
  BY <1>1, <1>2, <1>3, <1>4 DEF Unlinked, RolledBack
<1>6. ASSUME NEW s \in Rows, s # r
      PROVE  /\ rows'[s].link \in {rows[s].link, None}
             /\ rows'[s].status = rows[s].status \/ (rows[s].link = r /\ rows'[s].status = "rolled_back")
  <2>1. LET free == [rows[s] EXCEPT !.link = None]
            back == [rows[s] EXCEPT !.status = "rolled_back"] IN
        /\ free.status = rows[s].status /\ free.link = None
        /\ back.status = "rolled_back" /\ back.link = rows[s].link
    BY Still DEF TypeOK, Row
  <2>2. CASE rows' = done
    BY <1>4, <1>6, <2>2
  <2>3. CASE rows' = Unlinked(done, r)
    BY <1>4, <1>6, <2>1, <2>3 DEF Unlinked
  <2>4. CASE rows' = RolledBack(done, r)
    BY <1>4, <1>6, <2>1, <2>4 DEF RolledBack
  <2> QED BY <1>1, <2>2, <2>3, <2>4
<1>7. ASSUME NEW s \in Rows, s # r PROVE Move(s, rows[s].status, rows'[s].status)
  <2>1. CASE rows[s].link = r
    <3>1. s \in Forward
      BY <1>2, <2>1 DEF IInv, Table, ReverseOK, Rows
    <3>2. rows[s].status \in {"completed", "rolled_back"}
      BY <1>2, <2>1, <3>1 DEF IInv, Table, ForwardOK
    <3> QED BY <1>6, <1>7, <3>2 DEF Move
  <2>2. CASE rows[s].link # r
    BY <1>6, <1>7, <2>2 DEF Move
  <2> QED BY <2>1, <2>2
<1>8. Move(r, rows[r].status, rows'[r].status)
  BY <1>3, <1>5 DEF Move
<1>9. \A f \in Forward : LinkMade(f)
  BY <1>2, <1>3, <1>5, <1>6 DEF LinkMade, Rows
<1> QED BY <1>7, <1>8, <1>9 DEF Moves

LEMMA NextMoves == ASSUME IInv, LInv, [Next]_vars PROVE Moves /\ LinksMade
<1>1. UNCHANGED thread => \A u \in Threads : AboutToLink(u)
  BY DEF AboutToLink
<1>2. CASE UNCHANGED vars \/ CrashSweep
  BY <1>1, <1>2, RowsUnmoved DEF vars, CrashSweep, LinksMade
<1>3. ASSUME NEW f \in Forward, Propose(f) PROVE Moves /\ LinksMade
  <2>1. PICK new : rows' = [rows EXCEPT ![f] = new] /\ new.link = None /\ new.status \in Undecided
    <3> DEFINE proposed(type, approval, dry) ==
                 [NoRow EXCEPT !.status = IF approval THEN "pending_approval" ELSE "pending",
                               !.type = type, !.approval = approval, !.dry = dry]
    <3>1. PICK type \in Proposable, approval \in BOOLEAN, dry \in BOOLEAN :
             rows' = [rows EXCEPT ![f] = proposed(type, approval, dry)]
      BY <1>3 DEF Propose
    <3>2. proposed(type, approval, dry).link = None /\ proposed(type, approval, dry).status \in Undecided
      BY DEF NoRow, Undecided
    <3> HIDE DEF proposed
    <3> QED BY <3>1, <3>2
  <2>2. rows[f].status = "absent" /\ rows[f].link = None /\ f \in Rows
    BY <1>3 DEF Propose, IInv, Table, ForwardOK, Rows
  <2>3. Moves /\ \A g \in Forward : LinkMade(g)
    BY <2>1, <2>2, OneRowMoves DEF Move
  <2> QED BY <1>1, <1>3, <2>3 DEF Propose, LinksMade
<1>4. ASSUME NEW f \in Forward, CloseAnomaly(f) PROVE Moves /\ LinksMade
  BY <1>1, <1>4, RowsUnmoved DEF CloseAnomaly, LinksMade
<1>5. ASSUME NEW t \in Threads, Crash(t) PROVE Moves /\ LinksMade
  BY <1>5, LinkersStand, RowsUnmoved DEF Crash, LinksMade
<1>6. ASSUME NEW t \in Threads, NEW f \in Forward, Begin(t, f) PROVE Moves /\ LinksMade
  <2>1. UNCHANGED rows
    BY <1>6 DEF Begin, ReviewRead, ExpiryRead, ExecuteRead, RollbackRead
  <2>2. PICK new : Started(t, new)
    BY <1>6, BeginStarts
  <2>3. \A u \in Threads : AboutToLink(u)
    BY <2>2, Still DEF Started, AboutToLink, TypeOK
  <2> QED BY <2>1, <2>3, RowsUnmoved DEF LinksMade
<1>7. ASSUME NEW r \in Rows, SweepRelease(r) PROVE Moves /\ LinksMade
  BY <1>1, <1>7, RowsUnmoved, UnlinkedMoves DEF SweepRelease, LinksMade
<1>8. ASSUME NEW r \in Rows, CompleteVerified(r) PROVE Moves /\ LinksMade
  <2>1. Moves /\ \A f \in Forward : LinkMade(f)
    BY <1>8, VerdictMoves DEF CompleteVerified, Awaiting
  <2> QED BY <1>1, <1>8, <2>1 DEF CompleteVerified, LinksMade
<1>9. ASSUME NEW r \in Rows, FailTimedOut(r) PROVE Moves /\ LinksMade
  <2>1. Moves /\ \A f \in Forward : LinkMade(f)
    BY <1>9, VerdictMoves DEF FailTimedOut, Awaiting
  <2> QED BY <1>1, <1>9, <2>1 DEF FailTimedOut, LinksMade
<1>10. CASE Sweep
  BY <1>1, <1>10, SweepMoves DEF Sweep, SweepOf, LinksMade
<1> QED BY <1>2, <1>3, <1>4, <1>5, <1>6, <1>7, <1>8, <1>9, <1>10, CallsMoves DEF Next

LEMMA SpecContract == Spec => [](IInv /\ LInv /\ CInv)
<1>1. Init => CInv
  <2> SUFFICES ASSUME Init PROVE CInv
    OBVIOUS
  <2>1. NoRow.link = None /\ Idle.pc = "idle"
    BY DEF NoRow, Idle
  <2>2. \A f \in Forward : rows[f].link = None
    BY <2>1 DEF Init, Rows
  <2>3. \A q \in Reverse : ~Linked(q)
    BY <2>2, RowsAssumption DEF Linked
  <2>4. \A t \in Threads : thread[t].pc = "idle"
    BY <2>1 DEF Init
  <2>5. LinkedOnce
    BY <2>2 DEF LinkedOnce
  <2>6. LinkIsNew
    BY <2>3, <2>4 DEF LinkIsNew
  <2> QED BY <2>5, <2>6 DEF CInv
<1>2. IInv /\ LInv /\ (IInv /\ LInv)' /\ CInv /\ [Next]_vars => CInv'
  BY NextMoves, LinksKept
<1> QED BY <1>1, <1>2, SpecLinks, PTL DEF Spec

----
\* Cloud calls.

LEMMA NextCalls ==
    ASSUME IInv, LInv, [Next]_vars, NEW r \in Rows, calls'[r] # calls[r]
    PROVE  /\ calls[r] = 0 /\ calls'[r] = 1 /\ rows[r].status = "executing"
           /\ r \in Reverse => \E f \in Forward : rows[f].link = r /\ rows[f].status = "completed"
<1>1. \E t \in Threads : Mutate(t) \/ Undo(t)
  <2> SUFFICES ASSUME \A t \in Threads : ~Mutate(t) /\ ~Undo(t) PROVE UNCHANGED calls
    OBVIOUS
  <2>1. ASSUME NEW f \in Forward, Propose(f) \/ CloseAnomaly(f) PROVE UNCHANGED calls
    BY <2>1 DEF Propose, CloseAnomaly
  <2>2. ASSUME Sweep \/ CrashSweep PROVE UNCHANGED calls
    BY <2>2 DEF Sweep, SweepOf, CrashSweep
  <2>3. ASSUME NEW t \in Threads, NEW f \in Forward, Begin(t, f) PROVE UNCHANGED calls
    BY <2>3 DEF Begin, ReviewRead, ExpiryRead, ExecuteRead, RollbackRead
  <2>4. ASSUME NEW t \in Threads, Proceed(t) PROVE UNCHANGED calls
    <3>1. CASE Decide(t) \/ Expire(t) \/ Claim(t) \/ AuditStart(t) \/ Gate(t)
      BY <3>1 DEF Decide, Expire, Claim, AuditStart, Gate
    <3>2. CASE Submit(t) \/ Finish(t) \/ Record(t) \/ Resolve(t)
      BY <3>2 DEF Submit, Finish, Record, Resolve
    <3>3. CASE RollbackInsert(t) \/ RollbackLink(t) \/ Supersede(t)
      BY <3>3 DEF RollbackInsert, RollbackLink, Supersede
    <3>4. CASE SubmitUndo(t) \/ FinishUndo(t) \/ Mark(t) \/ RecordUndo(t)
      BY <3>4 DEF SubmitUndo, FinishUndo, Mark, RecordUndo
    <3> QED BY <2>4, <3>1, <3>2, <3>3, <3>4 DEF Proceed
  <2>5. ASSUME NEW t \in Threads, Crash(t) PROVE UNCHANGED calls
    BY <2>5 DEF Crash
  <2>6. ASSUME NEW s \in Rows, SweepRelease(s) \/ CompleteVerified(s) \/ FailTimedOut(s) PROVE UNCHANGED calls
    BY <2>6 DEF SweepRelease, CompleteVerified, FailTimedOut
  <2> QED BY <2>1, <2>2, <2>3, <2>4, <2>5, <2>6 DEF vars, Next
<1>2. PICK t \in Threads : Mutate(t) \/ Undo(t)
  BY <1>1
<1>3. CASE Mutate(t)
  <2>1. /\ thread[t].row \in Forward /\ thread[t].row \in Rows
        /\ calls[thread[t].row] = 0 /\ rows[thread[t].row].status = "executing"
    BY <1>3, MoverFacts DEF Mutate, At, HandlerOK, Working
  <2>2. r = thread[t].row /\ calls'[r] = calls[r] + 1
    BY <1>3, Still DEF Mutate, TypeOK
  <2> QED BY <2>1, <2>2, RowsAssumption
<1>4. CASE Undo(t)
  <2> DEFINE f == thread[t].row
  <2>1. /\ f \in Forward /\ rows[f].status \in {"completed", "rolled_back"} /\ rows[f].link = thread[t].undo
        /\ thread[t].undo \in Rows /\ thread[t].undo \in Reverse
        /\ calls[thread[t].undo] = 0 /\ rows[thread[t].undo].status = "executing"
    BY <1>4, MoverFacts DEF Undo, At, HandlerOK, Undoing, Rolling, LInv, Linking, LinkOK
  <2>2. r = thread[t].undo /\ calls'[r] = calls[r] + 1
    BY <1>4, Still DEF Undo, TypeOK
  <2>3. rows[f].status # "rolled_back"
    BY <2>1 DEF LInv, RolledBackIsUndone
  <2> QED BY <2>1, <2>2, <2>3
<1> QED BY <1>2, <1>3, <1>4

----
\* The handlers implement the contract, step by step: phases move along its edges, a call is made
\* once and only while its action runs, a rollback's only while its original is done and linked to
\* it, and an undone action holds the one rollback that undid it.
THEOREM RunnerKeepsContract == Spec => ImplementsContract
<1> DEFINE phase == [r \in Rows |-> Phase(r)]
           undo == [f \in Forward |-> rows[f].link]
           Inv == IInv /\ LInv /\ CInv
<1>1. ASSUME Init PROVE Contract!Init
  <2>1. NoRow.status = "absent" /\ NoRow.link = None
    BY DEF NoRow
  <2> QED BY <1>1, <2>1 DEF Init, Contract!Init, Contract!Table, Phase, Rows
<1>2. ASSUME Inv, Inv', [Next]_vars PROVE Contract!Next
  <2>1. Moves
    BY <1>2, NextMoves
  <2>2. ASSUME NEW r \in Rows PROVE Phase(r) \in Contract!Phases /\ Phase(r)' \in Contract!Phases
    <3>1. rows[r].status \in Statuses /\ rows'[r].status \in Statuses
      BY <1>2 DEF IInv, TypeOK, Row
    <3> QED BY <3>1 DEF Phase, Contract!Phases, Statuses, IN_FLIGHT_STATUSES, Undecided
  <2>3. ASSUME NEW r \in Rows
        PROVE  \/ Phase(r)' = Phase(r)
               \/ /\ <<Phase(r), Phase(r)'>> \in Contract!Edges
                  /\ Phase(r) = "none" => (r \in Reverse <=> Phase(r)' = "running")
    <3> DEFINE from == rows[r].status
               to == rows'[r].status
    <3>1. CASE to = from
      BY <3>1 DEF Phase
    <3>2. CASE from = "absent"
      BY <2>1, <3>2, RowsAssumption DEF Moves, Move, Phase, Contract!Edges, Undecided
    <3>3. CASE to # from /\ from \in Undecided
      BY <2>1, <3>3 DEF Moves, Move, Phase, Contract!Edges, Undecided
    <3>4. CASE to # from /\ from \notin Undecided \cup {"absent"}
      BY <2>1, <3>4 DEF Moves, Move, Phase, Contract!Edges, Undecided
    <3> QED BY <3>1, <3>2, <3>3, <3>4
  <2>4. Contract!Moves
    BY <2>3 DEF Contract!Moves, Contract!Table, Rows
  <2>5. calls' \in [Rows -> {0, 1}]
    <3>1. calls' \in [Rows -> Nat] /\ \A r \in Rows : calls'[r] <= 1
      BY <1>2 DEF IInv, TypeOK, CalledOnce
    <3>2. \A r \in Rows : calls'[r] \in {0, 1}
      BY <3>1
    <3> QED BY <3>1, <3>2
  <2>6. Contract!Calls
    <3> SUFFICES ASSUME NEW r \in Rows, calls'[r] # calls[r]
                 PROVE  /\ calls[r] = 0 /\ calls'[r] = 1 /\ Phase(r) = "running"
                        /\ r \in Reverse => \E f \in Forward : rows[f].link = r /\ Phase(f) = "done"
      BY DEF Contract!Calls, Contract!Table, Rows
    <3> QED BY <1>2, NextCalls DEF Phase
  <2>7. undo' \in [Forward -> Reverse \cup {None}]
    BY <1>2 DEF IInv, TypeOK, Row, Rows
  <2>8. Contract!Undoes
    <3>1. ASSUME NEW f \in Forward, Phase(f)' = "undone"
          PROVE  rows'[f].link \in Reverse /\ Phase(rows[f].link)' = "done"
      <4>1. rows'[f].status \in Statuses /\ rows'[f].link \in Reverse \cup {None}
        BY <1>2 DEF IInv, TypeOK, Row, Rows
      <4>2. rows'[f].status = "rolled_back"
        BY <3>1, <4>1 DEF Phase, Statuses, IN_FLIGHT_STATUSES, Undecided
      <4>3. rows'[f].link # None /\ rows'[rows'[f].link].status = "completed"
        BY <1>2, <4>2 DEF LInv, RolledBackIsUndone
      <4> QED BY <4>1, <4>3 DEF Phase
    <3>2. ASSUME NEW f \in Forward, NEW g \in Forward, rows'[f].link = rows'[g].link, rows'[f].link # None
          PROVE  f = g
      BY <1>2, <3>2 DEF CInv, LinkedOnce
    <3> QED BY <3>1, <3>2 DEF Contract!Undoes, Rows
  <2>9. phase' \in [Rows -> Contract!Phases]
    BY <2>2
  <2> QED BY <2>4, <2>5, <2>6, <2>7, <2>8, <2>9 DEF Contract!Next, Contract!Table, Rows
<1>3. Spec => []Inv
  BY SpecContract
<1>4. Inv /\ Inv' /\ [Next]_vars => [Contract!Next]_<<phase, calls, undo>>
  BY <1>2
<1> QED BY <1>1, <1>3, <1>4, PTL DEF Spec, ImplementsContract, Contract!Spec

----
\* Where no process crashed and no best-effort write failed, a failed rollback releases its original
\* and a fix closes its anomaly.

\* The call or the sweep that failed rollback q is still to release its original.
Releasing(q) == q \in swept \/ \E t \in Threads : thread[t].pc = "marking" /\ thread[t].undo = q

FailedAreReleased ==
    \A q \in Reverse, f \in Forward :
        rows[q].status = "failed" /\ rows[f].link = q /\ rows[f].status = "completed" => Releasing(q)

\* A rollback that lost its original to another one is linked to none.
LosersUnlinked == \A t \in Threads : thread[t].pc = "superseding" => ~Linked(thread[t].undo)

\* The action changed what its anomaly was about, and the call that is still to close the anomaly.
Fixed(f) == rows[f].status = "completed" /\ ~rows[f].dry /\ rows[f].type \notin NO_CLOUD_ACTIONS
Closing(t) == thread[t].pc = "resolving" \/ (thread[t].pc = "recording" /\ thread[t].out = "ok")

FixesClose == \A f \in Forward : Fixed(f) => ~anomaly[f] \/ \E t \in Threads : thread[t].row = f /\ Closing(t)

\* A policy proposed the type of every action.
TypesProposed == \A f \in Forward : rows[f].status # "absent" => rows[f].type \in Proposable

\* Only a call's own steps move it.
LEMMA OwnSteps ==
    ASSUME IInv, [Next]_vars, NEW u \in Threads, thread'[u] # thread[u]
    PROVE  Proceed(u) \/ Crash(u) \/ \E f \in Forward : Begin(u, f)
<1>1. ASSUME NEW t \in Threads, Proceed(t) \/ Crash(t) \/ \E f \in Forward : Begin(t, f)
      PROVE  t = u
  <2>1. \E new : thread' = [thread EXCEPT ![t] = new]
    <3>1. CASE \E f \in Forward : Begin(t, f)
      BY <3>1, BeginStarts DEF Started
    <3>2. CASE Crash(t)
      BY <3>2 DEF Crash, Done
    <3>3. CASE RollbackInsert(t)
      <4>1. CASE Done(t)
        BY <4>1 DEF Done
      <4>2. CASE \E q \in Reverse : thread' = [thread EXCEPT ![t].pc = "linking", ![t].undo = q]
        BY <4>2
      <4> QED BY <3>3, <4>1, <4>2 DEF RollbackInsert
    <3>4. CASE Decide(t) \/ Expire(t) \/ Claim(t) \/ AuditStart(t) \/ Gate(t) \/ Mutate(t)
      <4>1. Done(t) \/ \E pc, out : Goto(t, pc) \/ GotoWith(t, pc, out)
        BY <3>4 DEF Decide, Expire, Claim, AuditStart, Gate, Mutate
      <4> QED BY <4>1 DEF Done, Goto, GotoWith
    <3>5. CASE Submit(t) \/ Finish(t) \/ Record(t) \/ Resolve(t) \/ RollbackLink(t) \/ Supersede(t)
      <4>1. Done(t) \/ \E pc : Goto(t, pc)
        BY <3>5 DEF Submit, Finish, Record, Resolve, RollbackLink, Supersede
      <4> QED BY <4>1 DEF Done, Goto
    <3>6. CASE Undo(t) \/ SubmitUndo(t) \/ FinishUndo(t) \/ Mark(t) \/ RecordUndo(t)
      <4>1. Done(t) \/ \E pc, out : Goto(t, pc) \/ GotoWith(t, pc, out)
        BY <3>6 DEF Undo, SubmitUndo, FinishUndo, Mark, RecordUndo
      <4> QED BY <4>1 DEF Done, Goto, GotoWith
    <3> QED BY <1>1, <3>1, <3>2, <3>3, <3>4, <3>5, <3>6 DEF Proceed
  <2> QED BY <2>1, Still DEF TypeOK
<1>2. ~UNCHANGED thread
  OBVIOUS
<1> QED BY <1>1, <1>2 DEF Next, Propose, CloseAnomaly, SweepRelease, CompleteVerified, FailTimedOut,
                         Sweep, SweepOf, CrashSweep, vars

\* Only a call that finds the link taken loses it.
LEMMA LosesLink ==
    ASSUME IInv, NEW u \in Threads, Proceed(u) \/ Crash(u) \/ \E f \in Forward : Begin(u, f),
           thread'[u].pc = "superseding"
    PROVE  /\ thread[u].pc = "linking" /\ thread'[u].undo = thread[u].undo /\ UNCHANGED rows
<1>1. ~\E f \in Forward : Begin(u, f)
  BY BeginStarts, Still DEF Started, TypeOK
<1>2. ~Done(u)
  BY DoneMoves DEF IInv
<1>3. \A pc \in Pcs, out \in Outs : Goto(u, pc) \/ GotoWith(u, pc, out) => thread'[u].pc = pc
  BY GotoMoves, GotoWithMoves DEF IInv
<1>4. ~RollbackInsert(u)
  <2>1. ASSUME NEW q \in Reverse, thread' = [thread EXCEPT ![u].pc = "linking", ![u].undo = q] PROVE FALSE
    <3>1. [thread[u] EXCEPT !.pc = "linking", !.undo = q].pc = "linking"
      BY Still DEF TypeOK
    <3> QED BY <2>1, <3>1, Still DEF TypeOK
  <2> QED BY <1>2, <2>1 DEF RollbackInsert
<1>5. /\ {"gate", "mutating", "submitting", "finishing", "auditing"} \subseteq Pcs
      /\ {"recording", "resolving", "undoing", "submittingUndo", "finishingUndo"} \subseteq Pcs
      /\ {"marking", "recordingUndo", "superseding"} \subseteq Pcs
      /\ {"failed", "blocked", "dry", "ok", None} \subseteq Outs
  BY DEF Pcs, Working, Reporting, Undoing, UndoReporting, Outs
<1>6. ~(Claim(u) \/ AuditStart(u) \/ Gate(u) \/ Mutate(u) \/ Finish(u) \/ Record(u))
  BY <1>2, <1>3, <1>5 DEF Claim, AuditStart, Gate, Mutate, Finish, Record
<1>7. ~(Undo(u) \/ SubmitUndo(u) \/ FinishUndo(u) \/ Mark(u) \/ RecordUndo(u))
  BY <1>2, <1>3, <1>5 DEF Undo, SubmitUndo, FinishUndo, Mark, RecordUndo
<1>8. RollbackLink(u)
  BY <1>1, <1>2, <1>4, <1>6, <1>7 DEF Proceed, Crash, Decide, Expire, Submit, Resolve, Supersede
<1>9. ~Goto(u, "undoing")
  BY <1>3, <1>5
<1>10. Goto(u, "superseding") /\ UNCHANGED rows /\ thread[u].pc = "linking"
  BY <1>8, <1>9 DEF RollbackLink, At
<1>11. thread'[u].undo = thread[u].undo
  BY <1>5, <1>10, GotoMoves DEF IInv
<1> QED BY <1>10, <1>11

LEMMA LosersStay ==
    ASSUME IInv, LInv, CInv, LosersUnlinked, [Next]_vars
    PROVE  LosersUnlinked'
<1> SUFFICES ASSUME NEW u \in Threads, thread'[u].pc = "superseding", NEW f \in Forward,
                    rows'[f].link = thread'[u].undo
             PROVE  FALSE
  BY DEF LosersUnlinked, Linked
<1> DEFINE q == thread[u].undo
<1>1. CASE thread'[u] = thread[u]
  <2>1. /\ q \in Reverse /\ q # None /\ ~Linked(q) /\ Holds(u, q)
    BY <1>1, RowsAssumption DEF IInv, Handlers, HandlerOK, Undoing, LosersUnlinked, Holds
  <2>2. PICK t \in Threads : thread[t].pc = "linking" /\ q = thread[t].undo
    BY <1>1, <2>1, NextMoves DEF LinksMade, LinkMade, Linked
  <2>3. Holds(t, q) /\ q \in Rows
    BY <2>1, <2>2 DEF Holds, Undoing, Rows
  <2> QED BY <1>1, <2>1, <2>2, <2>3 DEF IInv, Exclusive
<1>2. CASE thread'[u] # thread[u]
  BY <1>2, OwnSteps, LosesLink DEF CInv, LinkIsNew, Linked
<1> QED BY <1>1, <1>2

\* What unlinking q leaves.
LEMMA UnlinkedFrees ==
    ASSUME IInv, NEW q \in Reverse, NEW table \in [Rows -> Row], rows' = Unlinked(table, q)
    PROVE  /\ \A f \in Forward : ~(rows'[f].link = q /\ rows'[f].status = "completed")
           /\ \A r \in Rows : rows'[r].status = table[r].status
<1>1. ASSUME NEW r \in Rows
      PROVE  rows'[r].status = table[r].status /\ ~(rows'[r].link = q /\ rows'[r].status = "completed")
  <2>1. LET free == [table[r] EXCEPT !.link = None] IN free.status = table[r].status /\ free.link = None
    BY DEF Row
  <2>2. q # None
    BY RowsAssumption
  <2> QED BY <2>1, <2>2 DEF Unlinked
<1> QED BY <1>1 DEF Rows

\* Whoever is to release a failed rollback does so, or goes on being about to.
LEMMA ReleasersAct ==
    ASSUME IInv, LInv, [Next]_vars, faults' = 0, NEW q \in Reverse, rows[q].status = "failed", Releasing(q)
    PROVE  Releasing(q)' \/ \A f \in Forward : ~(rows'[f].link = q /\ rows'[f].status = "completed")
<1>1. ~Fault /\ rows \in [Rows -> Row]
  BY DEF Fault, IInv, TypeOK
<1>2. CASE q \in swept
  <2>1. CASE q \in swept'
    BY <2>1 DEF Releasing
  <2>2. CASE q \notin swept'
    <3>1. SweepRelease(q)
      <4>1. ASSUME NEW t \in Threads, Proceed(t) PROVE swept' = swept
        BY <4>1 DEF Proceed, Decide, Expire, Claim, AuditStart, Gate, Mutate, Submit, Finish, Record, Resolve,
           RollbackInsert, RollbackLink, Supersede, Undo, SubmitUndo, FinishUndo, Mark, RecordUndo
      <4>2. ASSUME NEW t \in Threads, Crash(t) \/ \E f \in Forward : Begin(t, f) PROVE swept' = swept
        BY <4>2 DEF Crash, Begin, ReviewRead, ExpiryRead, ExecuteRead, RollbackRead
      <4>3. ASSUME NEW f \in Forward, Propose(f) \/ CloseAnomaly(f) PROVE swept' = swept
        BY <4>3 DEF Propose, CloseAnomaly
      <4>4. ASSUME NEW r \in Rows, CompleteVerified(r) \/ FailTimedOut(r) PROVE swept' = swept
        BY <4>4 DEF CompleteVerified, FailTimedOut
      <4>5. ~Sweep /\ ~CrashSweep /\ ~UNCHANGED vars
        BY <1>1, <1>2, <2>2 DEF Sweep, SweepOf, CrashSweep, vars
      <4>6. PICK r \in Rows : SweepRelease(r)
        BY <1>2, <2>2, <4>1, <4>2, <4>3, <4>4, <4>5 DEF Next
      <4> QED BY <1>2, <2>2, <4>6 DEF SweepRelease
    <3> QED BY <1>1, <3>1, UnlinkedFrees DEF SweepRelease
  <2> QED BY <2>1, <2>2
<1>3. ASSUME NEW t \in Threads, thread[t].pc = "marking", thread[t].undo = q
      PROVE  Releasing(q)' \/ \A f \in Forward : ~(rows'[f].link = q /\ rows'[f].status = "completed")
  <2>1. CASE thread'[t] = thread[t]
    BY <1>3, <2>1 DEF Releasing
  <2>2. CASE thread'[t] # thread[t]
    <3>1. Mark(t)
      BY <1>1, <1>3, <2>2, OwnSteps DEF At, Proceed, Crash, Begin, ReviewRead, ExpiryRead, ExecuteRead, RollbackRead,
         Decide, Expire, Claim, AuditStart, Gate, Mutate, Submit, Finish, Record, Resolve, RollbackInsert,
         RollbackLink, Supersede, Undo, SubmitUndo, FinishUndo, RecordUndo
    <3>2. thread[t].out = "failed"
      BY <1>3 DEF LInv, Linking, LinkOK, UndoReporting
    <3>3. rows' = Unlinked(rows, q)
      BY <1>1, <1>3, <3>1, <3>2 DEF Mark
    <3> QED BY <1>1, <3>3, UnlinkedFrees
  <2> QED BY <2>1, <2>2
<1> QED BY <1>2, <1>3 DEF Releasing

\* A call writes its own row, or the rollback it holds.
LEMMA RowsOfCall ==
    ASSUME IInv, NEW t \in Threads, Proceed(t), NEW q \in Reverse, rows'[q].status # rows[q].status
    PROVE  RollbackInsert(t) \/ ((Supersede(t) \/ FinishUndo(t)) /\ q = thread[t].undo)
<1>1. thread[t].pc # "idle"
  BY DEF Proceed, At, Decide, Expire, Claim, AuditStart, Gate, Mutate, Submit, Finish, Record, Resolve,
         RollbackInsert, RollbackLink, Supersede, Undo, SubmitUndo, FinishUndo, Mark, RecordUndo
<1>2. /\ thread[t].row \in Forward /\ q # thread[t].row /\ rows \in [Rows -> Row] /\ q \in Rows
  BY <1>1, MoverFacts, RowsAssumption DEF TypeOK, Rows
<1>3. ~(Decide(t) \/ Expire(t) \/ Claim(t) \/ Gate(t) \/ Submit(t) \/ Finish(t) \/ RollbackLink(t))
  <2>1. ASSUME Decide(t) \/ Expire(t) \/ Claim(t) \/ Gate(t) \/ Submit(t) \/ Finish(t) \/ RollbackLink(t)
        PROVE  UNCHANGED rows \/ \E new : rows' = [rows EXCEPT ![thread[t].row] = new]
    BY <2>1 DEF Decide, Expire, Claim, Gate, Submit, Finish, RollbackLink, SetStatus
  <2> QED BY <1>2, <2>1
<1>4. ~(AuditStart(t) \/ Mutate(t) \/ Record(t) \/ Resolve(t) \/ Undo(t) \/ RecordUndo(t))
  BY DEF AuditStart, Mutate, Record, Resolve, Undo, RecordUndo
<1>5. ~Mark(t)
  <2>1. ~SetStatus(thread[t].row, "rolled_back")
    BY <1>2 DEF SetStatus
  <2>2. ~(rows' = Unlinked(rows, thread[t].undo))
    <3>1. [rows[q] EXCEPT !.link = None].status = rows[q].status
      BY <1>2 DEF Row
    <3> QED BY <1>2, <3>1 DEF Unlinked
  <2> QED BY <2>1, <2>2 DEF Mark
<1>6. ~SubmitUndo(t)
  <2>1. ASSUME SubmitUndo(t) PROVE rows'[q].status = rows[q].status
    <3>1. [rows[q] EXCEPT !.executed = TRUE].status = rows[q].status
      BY <1>2 DEF Row
    <3> QED BY <1>2, <2>1, <3>1 DEF SubmitUndo
  <2> QED BY <2>1
<1>7. ASSUME Supersede(t) \/ FinishUndo(t) PROVE q = thread[t].undo
  <2>1. \E new : rows' = [rows EXCEPT ![thread[t].undo] = new]
    BY <1>7 DEF Supersede, FinishUndo, SetStatus
  <2> QED BY <1>2, <2>1
<1> QED BY <1>3, <1>4, <1>5, <1>6, <1>7 DEF Proceed

\* Whoever fails a rollback is about to release its original, unless it has none.
LEMMA FailersRelease ==
    ASSUME IInv, LosersUnlinked, [Next]_vars,
           NEW q \in Reverse, rows[q].status # "failed", rows'[q].status = "failed"
    PROVE  Releasing(q)' \/ \A f \in Forward : ~(rows'[f].link = q /\ rows'[f].status = "completed")
<1>1. rows \in [Rows -> Row] /\ q \in Rows /\ q \notin Forward
  BY RowsAssumption DEF IInv, TypeOK, Rows
<1>2. ASSUME NEW t \in Threads, Proceed(t)
      PROVE  Releasing(q)' \/ \A f \in Forward : ~(rows'[f].link = q /\ rows'[f].status = "completed")
  <2>1. ~RollbackInsert(t)
    <3> DEFINE type == REVERSIBLE[rows[thread[t].row].type]
               dry == thread[t].out = "dry"
    <3>1. ASSUME NEW p \in Reverse,
                 rows' = [rows EXCEPT ![p] = [NoRow EXCEPT !.status = "executing", !.type = type, !.dry = dry]]
          PROVE  FALSE
      <4>1. [NoRow EXCEPT !.status = "executing", !.type = type, !.dry = dry].status = "executing"
        BY DEF NoRow
      <4> HIDE DEF type, dry
      <4> QED BY <1>1, <3>1, <4>1
    <3> QED BY <1>1, <3>1 DEF RollbackInsert
  <2>2. q = thread[t].undo /\ (Supersede(t) \/ FinishUndo(t))
    BY <1>2, <2>1, RowsOfCall
  <2>3. CASE Supersede(t)
    <3>1. ~Linked(q) /\ \E new : rows' = [rows EXCEPT ![q] = new]
      BY <2>2, <2>3 DEF LosersUnlinked, Supersede, At, SetStatus
    <3> QED BY <1>1, <3>1 DEF Linked, Rows
  <2>4. CASE FinishUndo(t)
    <3>1. thread'[t].pc = "marking" /\ thread'[t].undo = q
      BY <2>2, <2>4, GotoMoves, PcsFact DEF FinishUndo, UndoReporting, IInv
    <3> QED BY <3>1 DEF Releasing
  <2> QED BY <2>2, <2>3, <2>4
<1>3. CASE Sweep
  BY <1>1, <1>3 DEF Sweep, SweepOf, Releasing
<1>4. ASSUME NEW r \in Rows, FailTimedOut(r)
      PROVE  Releasing(q)' \/ \A f \in Forward : ~(rows'[f].link = q /\ rows'[f].status = "completed")
  <2> DEFINE new == [rows[r] EXCEPT !.status = "failed"]
             done == [rows EXCEPT ![r] = new]
  <2>1. done \in [Rows -> Row] /\ \A s \in Rows : s # r => done[s] = rows[s]
    BY <1>1 DEF Row, Statuses
  <2>2. rows' = Unlinked(done, r)
    BY <1>4 DEF FailTimedOut
  <2> HIDE DEF done
  <2>3. rows'[q].status = done[q].status
    <3>1. [done[q] EXCEPT !.link = None].status = done[q].status
      BY <1>1, <2>1 DEF Row
    <3> QED BY <1>1, <2>2, <3>1 DEF Unlinked
  <2>4. r = q
    BY <1>1, <2>1, <2>3
  <2> QED BY <2>1, <2>2, <2>4, UnlinkedFrees
<1>5. ASSUME NEW r \in Rows, SweepRelease(r) PROVE FALSE
  <2>1. rows' = Unlinked(rows, r)
    BY <1>5 DEF SweepRelease
  <2>2. [rows[q] EXCEPT !.link = None].status = rows[q].status
    BY <1>1 DEF Row
  <2> QED BY <1>1, <2>1, <2>2 DEF Unlinked
<1>6. ASSUME NEW r \in Rows, CompleteVerified(r) PROVE FALSE
  <2> DEFINE new == [rows[r] EXCEPT !.status = "completed"]
             done == [rows EXCEPT ![r] = new]
  <2>1. /\ new.status = "completed" /\ done[r] = new /\ \A s \in Rows : s # r => done[s] = rows[s]
    BY <1>1 DEF Row
  <2>2. rows' = done \/ rows' = RolledBack(done, r)
    BY <1>6 DEF CompleteVerified
  <2>3. done[q].status # "failed" /\ done \in [Rows -> Row]
    BY <1>1, <2>1 DEF Row, Statuses
  <2> HIDE DEF done
  <2>4. [done[q] EXCEPT !.status = "rolled_back"].status = "rolled_back"
    BY <1>1, <2>3 DEF Row
  <2> QED BY <1>1, <2>2, <2>3, <2>4 DEF RolledBack
<1>7. ASSUME NEW f \in Forward, Propose(f) PROVE FALSE
  <2>1. \E new : rows' = [rows EXCEPT ![f] = new]
    BY <1>7 DEF Propose
  <2> QED BY <1>1, <2>1
<1>8. ~UNCHANGED rows
  OBVIOUS
<1> QED BY <1>2, <1>3, <1>4, <1>5, <1>6, <1>7, <1>8
        DEF Next, CloseAnomaly, Crash, Begin, ReviewRead, ExpiryRead, ExecuteRead, RollbackRead, CrashSweep, vars

LEMMA ReleasesStay ==
    ASSUME IInv, IInv', LInv, LosersUnlinked, FailedAreReleased, [Next]_vars, faults' = 0
    PROVE  FailedAreReleased'
<1> SUFFICES ASSUME NEW q \in Reverse, NEW f \in Forward, rows'[q].status = "failed",
                    rows'[f].link = q, rows'[f].status = "completed"
             PROVE  Releasing(q)'
  BY DEF FailedAreReleased
<1>1. CASE rows[q].status # "failed"
  BY <1>1, FailersRelease
<1>2. CASE rows[q].status = "failed"
  <2>1. q # None /\ f \in Rows
    BY RowsAssumption DEF Rows
  <2>2. ASSUME NEW t \in Threads, thread[t].pc = "linking" PROVE thread[t].undo # q
    BY <1>2, <2>2 DEF IInv, Handlers, HandlerOK, Undoing
  <2>3. rows[f].link = q
    BY <2>1, <2>2, NextMoves DEF LinksMade, LinkMade
  <2>4. rows[f].status \in {"completed", "rolled_back"}
    BY <2>1, <2>3 DEF IInv, Table, ForwardOK
  <2>5. rows[f].status = "completed"
    BY <2>1, <2>4, NextKeeps DEF KeepsOutcome, Final
  <2>6. Releasing(q)
    BY <1>2, <2>3, <2>5 DEF FailedAreReleased
  <2> QED BY <1>2, <2>6, ReleasersAct
<1> QED BY <1>1, <1>2

\* What a step may write to the row of an action once it is proposed: its type stays, a completed one
\* stays a dry run or not, and two writes complete one.
FairWrite(f) ==
    /\ rows[f].status # "absent" /\ rows'[f].type = rows[f].type
    /\ rows[f].status = "completed" => rows'[f].dry = rows[f].dry
    /\ rows'[f].status = "completed" =>
         rows[f].status = "completed" \/ CompleteVerified(f) \/ \E t \in Threads : Finish(t) /\ thread[t].row = f

LEMMA UnlinkedFair ==
    ASSUME IInv, NEW r \in Rows, rows' = Unlinked(rows, r), NEW f \in Forward, rows'[f] # rows[f]
    PROVE  FairWrite(f)
<1>1. f \in Rows /\ rows[f] \in Row
  BY Still DEF TypeOK, Rows
<1>2. rows[f].status = "completed" /\ rows'[f] = [rows[f] EXCEPT !.link = None]
  BY <1>1 DEF Unlinked
<1> QED BY <1>1, <1>2 DEF FairWrite, Row

LEMMA CallsWriteFairly ==
    ASSUME IInv, NEW t \in Threads, Proceed(t), NEW f \in Forward, rows'[f] # rows[f]
    PROVE  FairWrite(f)
<1>1. thread[t].pc # "idle"
  BY DEF Proceed, At, Decide, Expire, Claim, AuditStart, Gate, Mutate, Submit, Finish, Record, Resolve,
         RollbackInsert, RollbackLink, Supersede, Undo, SubmitUndo, FinishUndo, Mark, RecordUndo
<1>2. /\ rows \in [Rows -> Row] /\ f \in Rows /\ rows[f] \in Row /\ HandlerOK(t) /\ f \notin Reverse
      /\ thread[t].row \in Forward
  BY <1>1, MoverFacts, RowsAssumption DEF TypeOK, Rows
<1>3. ~(AuditStart(t) \/ Mutate(t) \/ Record(t) \/ Resolve(t) \/ Undo(t) \/ RecordUndo(t))
  BY DEF AuditStart, Mutate, Record, Resolve, Undo, RecordUndo
<1>4. ~(RollbackInsert(t) \/ Supersede(t) \/ SubmitUndo(t) \/ FinishUndo(t))
  <2>1. ASSUME NEW q \in Reverse, NEW new, rows' = [rows EXCEPT ![q] = new] PROVE FALSE
    BY <1>2, <2>1
  <2>2. ~RollbackInsert(t)
    <3> DEFINE type == REVERSIBLE[rows[thread[t].row].type]
               dry == thread[t].out = "dry"
               new == [NoRow EXCEPT !.status = "executing", !.type = type, !.dry = dry]
    <3>1. RollbackInsert(t) => \E q \in Reverse : rows' = [rows EXCEPT ![q] = new]
      BY DEF RollbackInsert
    <3> HIDE DEF new
    <3> QED BY <2>1, <3>1
  <2>3. Supersede(t) \/ SubmitUndo(t) \/ FinishUndo(t) =>
          thread[t].undo \in Reverse /\ \E new : rows' = [rows EXCEPT ![thread[t].undo] = new]
    BY <1>2 DEF Supersede, SubmitUndo, FinishUndo, SetStatus, At, HandlerOK, Undoing
  <2> QED BY <2>1, <2>2, <2>3
<1>5. CASE Mark(t) /\ rows' = Unlinked(rows, thread[t].undo)
  <2>1. thread[t].undo \in Rows
    BY <1>2, <1>5 DEF Mark, At, HandlerOK, UndoReporting, Rows
  <2> QED BY <1>5, <2>1, UnlinkedFair
<1>6. CASE thread[t].row # f /\ ~(Mark(t) /\ rows' = Unlinked(rows, thread[t].undo))
  <2>1. \E new : rows' = [rows EXCEPT ![thread[t].row] = new]
    BY <1>3, <1>4, <1>6 DEF Proceed, Decide, Expire, Claim, Gate, Submit, Finish, RollbackLink, Mark, SetStatus
  <2> QED BY <1>2, <1>6, <2>1
<1>7. CASE thread[t].row = f /\ (Decide(t) \/ Expire(t) \/ Claim(t))
  <2>1. PICK status \in {"approved", "rejected", "failed", "executing"} : SetStatus(f, status)
    BY <1>2, <1>7 DEF Decide, Expire, Claim, At, HandlerOK
  <2>2. rows[f].status \in {"pending", "pending_approval", "approved"}
    BY <1>2, <1>7 DEF Decide, Expire, Claim, At, HandlerOK, Undecided
  <2>3. rows'[f] = [rows[f] EXCEPT !.status = status]
    BY <1>2, <2>1 DEF SetStatus
  <2> QED BY <1>2, <2>1, <2>2, <2>3 DEF FairWrite, Row
<1>8. CASE thread[t].row = f /\ (Gate(t) \/ Submit(t) \/ Finish(t))
  <2>1. rows[f].status = "executing"
    BY <1>2, <1>8 DEF Gate, Submit, Finish, At, HandlerOK, Working
  <2>2. CASE Gate(t)
    <3>1. rows'[f] = [rows[f] EXCEPT !.pre = TRUE, !.dry = FALSE]
      BY <1>2, <1>8, <2>2 DEF Gate
    <3> QED BY <1>2, <2>1, <3>1 DEF FairWrite, Row
  <2>3. CASE Submit(t)
    <3>1. rows'[f] = [rows[f] EXCEPT !.status = "executing", !.executed = TRUE]
      BY <1>2, <1>8, <2>3 DEF Submit
    <3> QED BY <1>2, <2>1, <3>1 DEF FairWrite, Row
  <2>4. CASE Finish(t)
    <3> DEFINE status == IF thread[t].out \in {"ok", "dry"} THEN "completed" ELSE "failed"
               dry == rows[f].dry \/ thread[t].out = "dry"
    <3>1. rows'[f] = [rows[f] EXCEPT !.status = status, !.executed = TRUE, !.dry = dry]
      BY <1>2, <1>8, <2>4 DEF Finish
    <3> HIDE DEF status, dry
    <3>2. rows'[f].type = rows[f].type
      BY <1>2, <3>1 DEF Row
    <3> QED BY <1>8, <2>1, <2>4, <3>2 DEF FairWrite
  <2> QED BY <1>8, <2>2, <2>3, <2>4
<1>9. CASE thread[t].row = f /\ RollbackLink(t)
  <2>1. rows[f].status \in {"completed", "rolled_back"}
    BY <1>2, <1>9 DEF RollbackLink, At, HandlerOK, Rolling, Undoing
  <2>2. rows'[f] = [rows[f] EXCEPT !.link = thread[t].undo]
    BY <1>2, <1>9 DEF RollbackLink
  <2> QED BY <1>2, <2>1, <2>2 DEF FairWrite, Row
<1>10. CASE thread[t].row = f /\ Mark(t) /\ SetStatus(f, "rolled_back")
  <2>1. rows[f].status \in {"completed", "rolled_back"}
    BY <1>2, <1>10 DEF Mark, At, HandlerOK, Rolling, UndoReporting
  <2>2. rows'[f] = [rows[f] EXCEPT !.status = "rolled_back"]
    BY <1>2, <1>10 DEF SetStatus
  <2> QED BY <1>2, <2>1, <2>2 DEF FairWrite, Row
<1> QED BY <1>3, <1>4, <1>5, <1>6, <1>7, <1>8, <1>9, <1>10 DEF Proceed, Mark

LEMMA StepsWriteFairly ==
    ASSUME IInv, [Next]_vars, NEW f \in Forward, rows'[f] # rows[f]
    PROVE  Propose(f) \/ FairWrite(f)
<1>1. /\ rows \in [Rows -> Row] /\ f \in Rows /\ rows[f] \in Row
  BY Still DEF TypeOK, Rows
<1>2. ASSUME NEW g \in Forward, Propose(g) PROVE g = f
  <2>1. \E new : rows' = [rows EXCEPT ![g] = new]
    BY <1>2 DEF Propose
  <2> QED BY <1>1, <2>1
<1>3. CASE Sweep
  <2>1. rows[f].status = "executing" /\ rows'[f] = [rows[f] EXCEPT !.status = "failed"]
    BY <1>1, <1>3 DEF Sweep, SweepOf, Unsubmitted
  <2> QED BY <1>1, <2>1 DEF FairWrite, Row
<1>4. ASSUME NEW r \in Rows, SweepRelease(r) PROVE FairWrite(f)
  BY <1>4, UnlinkedFair DEF SweepRelease
<1>5. ASSUME NEW r \in Rows, CompleteVerified(r) \/ FailTimedOut(r) PROVE FairWrite(f)
  <2> DEFINE done == [rows EXCEPT ![r] = [rows[r] EXCEPT !.status = "completed"]]
             gone == [rows EXCEPT ![r] = [rows[r] EXCEPT !.status = "failed"]]
  <2>1. /\ rows[r].status = "executing"
        /\ \/ CompleteVerified(r) /\ (rows' = done \/ rows' = RolledBack(done, r))
           \/ rows' = Unlinked(gone, r)
    BY <1>5 DEF CompleteVerified, FailTimedOut, Awaiting
  <2>2. CASE r = f
    <3>1. rows[f].link = None /\ r # None
      BY <2>1, <2>2, RowsAssumption DEF IInv, Table, ForwardOK, Rows
    <3>2. /\ done[f] = [rows[f] EXCEPT !.status = "completed"] /\ done[f].link = None /\ done[f].type = rows[f].type
          /\ gone[f] = [rows[f] EXCEPT !.status = "failed"] /\ gone[f].status = "failed" /\ gone[f].type = rows[f].type
      BY <1>1, <2>2, <3>1 DEF Row
    <3> HIDE DEF done, gone
    <3>3. (CompleteVerified(r) /\ rows'[f] = done[f]) \/ rows'[f] = gone[f]
      BY <1>1, <2>1, <3>1, <3>2 DEF RolledBack, Unlinked
    <3> QED BY <2>1, <2>2, <3>2, <3>3 DEF FairWrite
  <2>3. CASE r # f
    <3>1. done[f] = rows[f] /\ gone[f] = rows[f]
      BY <1>1, <2>3
    <3> HIDE DEF done, gone
    <3>2. /\ rows[f].link = r
          /\ \/ rows'[f] = [rows[f] EXCEPT !.status = "rolled_back"]
             \/ rows[f].status = "completed" /\ rows'[f] = [rows[f] EXCEPT !.link = None]
      BY <1>1, <2>1, <3>1 DEF RolledBack, Unlinked
    <3>3. rows[f].status \in {"completed", "rolled_back"}
      BY <3>2, RowsAssumption DEF IInv, Table, ForwardOK, Rows
    <3> QED BY <1>1, <3>2, <3>3 DEF FairWrite, Row
  <2> QED BY <2>2, <2>3
<1>6. ~UNCHANGED rows
  OBVIOUS
<1> QED BY <1>2, <1>3, <1>4, <1>5, <1>6, CallsWriteFairly
        DEF Next, CloseAnomaly, Crash, Begin, ReviewRead, ExpiryRead, ExecuteRead, RollbackRead, CrashSweep, vars

\* What a proposal looks like.
LEMMA Proposed ==
    ASSUME IInv, NEW f \in Forward, Propose(f)
    PROVE  rows'[f].type \in Proposable /\ rows'[f].status \in Undecided
<1>1. ASSUME NEW type \in Proposable, NEW approval \in BOOLEAN, NEW dry \in BOOLEAN
      PROVE  LET new == [NoRow EXCEPT !.status = IF approval THEN "pending_approval" ELSE "pending",
                                      !.type = type, !.approval = approval, !.dry = dry]
             IN  new.type = type /\ new.status \in Undecided
  BY DEF NoRow, Undecided
<1> QED BY <1>1, Still DEF Propose, TypeOK, Rows

LEMMA TypesStay == ASSUME IInv, TypesProposed, [Next]_vars PROVE TypesProposed'
<1> SUFFICES ASSUME NEW f \in Forward, rows'[f].status # "absent" PROVE rows'[f].type \in Proposable
  BY DEF TypesProposed
<1>1. CASE rows'[f] = rows[f]
  BY <1>1 DEF TypesProposed
<1>2. CASE rows'[f] # rows[f]
  BY <1>2, StepsWriteFairly, Proposed DEF FairWrite, TypesProposed
<1> QED BY <1>1, <1>2

\* A closed anomaly stays closed, and faults are counted.
LEMMA ClosedStays ==
    ASSUME IInv, [Next]_vars
    PROVE  /\ \A f \in Forward : ~anomaly[f] => ~anomaly'[f]
           /\ faults' = faults \/ Fault
<1> USE DEF IInv, TypeOK
<1>1. ASSUME NEW t \in Threads, Proceed(t)
      PROVE  /\ \A f \in Forward : ~anomaly[f] => ~anomaly'[f]
             /\ faults' = faults \/ Fault
  <2>1. CASE Resolve(t)
    BY <2>1 DEF Resolve
  <2>2. CASE Mark(t)
    BY <2>2 DEF Mark
  <2> QED BY <1>1, <2>1, <2>2 DEF Proceed, Decide, Expire, Claim, AuditStart, Gate, Mutate, Submit, Finish,
             Record, RollbackInsert, RollbackLink, Supersede, Undo, SubmitUndo, FinishUndo, RecordUndo
<1>2. ASSUME NEW t \in Threads, Crash(t) \/ \E f \in Forward : Begin(t, f)
      PROVE  anomaly' = anomaly /\ (faults' = faults \/ Fault)
  BY <1>2 DEF Crash, Begin, ReviewRead, ExpiryRead, ExecuteRead, RollbackRead
<1>3. ASSUME NEW f \in Forward, Propose(f) \/ CloseAnomaly(f)
      PROVE  /\ \A g \in Forward : ~anomaly[g] => ~anomaly'[g]
             /\ faults' = faults
  BY <1>3 DEF Propose, CloseAnomaly
<1>4. ASSUME NEW r \in Rows, SweepRelease(r) \/ CompleteVerified(r) \/ FailTimedOut(r)
      PROVE  /\ \A g \in Forward : ~anomaly[g] => ~anomaly'[g]
             /\ faults' = faults \/ Fault
  BY <1>4 DEF SweepRelease, CompleteVerified, FailTimedOut
<1>5. CASE Sweep \/ CrashSweep \/ UNCHANGED vars
  BY <1>5 DEF Sweep, SweepOf, CrashSweep, vars
<1> QED BY <1>1, <1>2, <1>3, <1>4, <1>5 DEF Next

\* The call that is to close an anomaly does so, or goes on being about to.
LEMMA ClosersAct ==
    ASSUME IInv, [Next]_vars, faults' = 0, NEW t \in Threads, NEW f \in Forward, thread[t].row = f, Closing(t),
           rows[f].type \notin NO_CLOUD_ACTIONS
    PROVE  ~anomaly'[f] \/ (thread'[t].row = f /\ Closing(t)')
<1>1. CASE thread'[t] = thread[t]
  BY <1>1 DEF Closing
<1>2. CASE thread'[t] # thread[t]
  <2>1. ~Fault
    BY DEF Fault, IInv, TypeOK
  <2>2. Record(t) \/ Resolve(t)
    BY <1>2, <2>1, OwnSteps DEF Closing, At, Proceed, Crash, Begin, ReviewRead, ExpiryRead, ExecuteRead,
       RollbackRead, Decide, Expire, Claim, AuditStart, Gate, Mutate, Submit, Finish, RollbackInsert,
       RollbackLink, Supersede, Undo, SubmitUndo, FinishUndo, Mark, RecordUndo
  <2>3. CASE Resolve(t)
    BY <2>3, Still DEF Resolve, TypeOK
  <2>4. CASE Record(t)
    <3>1. thread[t].out = "ok" /\ Goto(t, "resolving")
      BY <2>4 DEF Record, At, Closing
    <3> QED BY <3>1, GotoMoves, PcsFact DEF Closing, Reporting, IInv
  <2> QED BY <2>2, <2>3, <2>4
<1> QED BY <1>1, <1>2

LEMMA FixesStay ==
    ASSUME "start_ec2" \notin Proposable, IInv, TypesProposed, FixesClose, [Next]_vars, faults' = 0
    PROVE  FixesClose'
<1> SUFFICES ASSUME NEW f \in Forward, Fixed(f)', anomaly'[f]
             PROVE  \E t \in Threads : thread'[t].row = f /\ Closing(t)'
  BY DEF FixesClose
<1>1. CASE Fixed(f)
  <2>1. PICK t \in Threads : thread[t].row = f /\ Closing(t)
    BY <1>1, ClosedStays DEF FixesClose
  <2> QED BY <1>1, <2>1, ClosersAct DEF Fixed
<1>2. CASE ~Fixed(f)
  <2>1. rows'[f] # rows[f]
    BY <1>2 DEF Fixed
  <2>2. ~Propose(f)
    BY Proposed DEF Fixed, Undecided
  <2>3. FairWrite(f)
    BY <2>1, <2>2, StepsWriteFairly
  <2>4. rows[f].status # "completed"
    BY <1>2, <2>3 DEF FairWrite, Fixed
  <2>5. CASE CompleteVerified(f)
    <3>1. rows[f].type \in Verifiable \cap Proposable
      BY <2>3, <2>5 DEF CompleteVerified, FairWrite, TypesProposed
    <3>2. rows[f].type \in DOMAIN REVERSIBLE
      BY <3>1 DEF Verifiable, REVERSIBLE
    <3> QED BY <2>5, <3>2 DEF CompleteVerified
  <2>6. ASSUME NEW t \in Threads, Finish(t), thread[t].row = f
        PROVE  thread'[t].row = f /\ Closing(t)'
    <3>1. /\ f \in Rows /\ thread[t].pc = "finishing" /\ thread[t].out \in {"ok", "dry", "failed", "blocked"}
          /\ rows[f] \in Row
      BY <2>6, MoverFacts DEF Finish, At, HandlerOK
    <3> DEFINE status == IF thread[t].out \in {"ok", "dry"} THEN "completed" ELSE "failed"
               dry == rows[f].dry \/ thread[t].out = "dry"
               new == [rows[f] EXCEPT !.status = status, !.executed = TRUE, !.dry = dry]
    <3>2. rows'[f] = new
      BY <2>6, <3>1, Still DEF Finish, TypeOK
    <3>3. new.status = status /\ new.dry = dry
      <4> HIDE DEF status, dry
      <4> QED BY <3>1 DEF Row
    <3>4. status = "completed" /\ ~dry
      <4> HIDE DEF new, status, dry
      <4> QED BY <3>2, <3>3 DEF Fixed
    <3>5. thread[t].out = "ok"
      BY <3>1, <3>4
    <3>6. thread'[t].pc = "recording" /\ thread'[t].row = f /\ thread'[t].out = "ok"
      BY <2>6, <3>5, GotoMoves, PcsFact DEF Finish, Reporting, IInv
    <3> QED BY <3>6 DEF Closing
  <2> QED BY <2>3, <2>4, <2>5, <2>6 DEF FairWrite, Fixed
<1> QED BY <1>1, <1>2

LEMMA SpecReleases == Spec => [](IInv /\ LInv /\ CInv /\ LosersUnlinked /\ (faults = 0 => FailedAreReleased))
<1>1. Init => LosersUnlinked /\ FailedAreReleased
  <2> SUFFICES ASSUME Init PROVE LosersUnlinked /\ FailedAreReleased
    OBVIOUS
  <2>1. NoRow.status = "absent" /\ Idle.pc = "idle"
    BY DEF NoRow, Idle
  <2> QED BY <2>1 DEF Init, LosersUnlinked, FailedAreReleased, Rows
<1>2. ASSUME IInv, IInv', LInv, CInv, LosersUnlinked, faults = 0 => FailedAreReleased, [Next]_vars
      PROVE  LosersUnlinked' /\ (faults = 0 => FailedAreReleased)'
  <2>1. faults' = 0 => faults = 0
    BY <1>2, ClosedStays DEF Fault, IInv, TypeOK
  <2> QED BY <1>2, <2>1, LosersStay, ReleasesStay
<1> QED BY <1>1, <1>2, SpecContract, PTL DEF Spec

LEMMA SpecFixes ==
    ASSUME "start_ec2" \notin Proposable
    PROVE  Spec => [](IInv /\ TypesProposed /\ (faults = 0 => FixesClose))
<1>1. Init => TypesProposed /\ FixesClose
  <2> SUFFICES ASSUME Init PROVE TypesProposed /\ FixesClose
    OBVIOUS
  <2>1. NoRow.status = "absent"
    BY DEF NoRow
  <2> QED BY <2>1 DEF Init, TypesProposed, FixesClose, Fixed, Rows
<1>2. ASSUME IInv, TypesProposed, faults = 0 => FixesClose, [Next]_vars
      PROVE  TypesProposed' /\ (faults = 0 => FixesClose)'
  <2>1. faults' = 0 => faults = 0
    BY <1>2, ClosedStays DEF Fault, IInv, TypeOK
  <2> QED BY <1>2, <2>1, TypesStay, FixesStay
<1> QED BY <1>1, <1>2, SpecInvariant, PTL DEF Spec

\* "A failed rollback must not block a retry": unless a process crashed or a best-effort write failed,
\* a completed action keeps the link to a failed rollback only as long as the call or the sweep that
\* failed it is about to unlink it, whatever other calls, sweeps and verifications do in between.
THEOREM FailedRollbacksRelease == Spec => [](faults = 0 => NoStrandedLink)
<1>1. ASSUME IInv, FailedAreReleased PROVE NoStrandedLink
  <2> SUFFICES ASSUME NEW f \in Forward, rows[f].status = "completed", rows[f].link # None,
                      rows[rows[f].link].status = "failed"
               PROVE  Releasing(rows[f].link)
    BY DEF NoStrandedLink, Releasing
  <2>1. rows[f].link \in Reverse
    BY <1>1 DEF IInv, TypeOK, Row, Rows
  <2> QED BY <1>1, <2>1 DEF FailedAreReleased
<1>2. IInv /\ (faults = 0 => FailedAreReleased) => (faults = 0 => NoStrandedLink)
  BY <1>1
<1> QED BY <1>2, SpecReleases, PTL

\* And a real action that changed what its anomaly was about has closed it, or the call that completed
\* it is about to.  This needs that no policy proposes start_ec2 by itself, as the shipped ones do not:
\* verifying a start marks an original rolled back and leaves the anomaly open.
THEOREM CleanRunsAreSettled ==
    ASSUME "start_ec2" \notin Proposable
    PROVE  Spec => []CleanRunsSettle
<1>1. ASSUME FixesClose PROVE FixClosesAnomaly
  BY <1>1 DEF FixesClose, FixClosesAnomaly, Fixed, Closing, Reporting
<1>2. (faults = 0 => FixesClose) /\ (faults = 0 => NoStrandedLink) => CleanRunsSettle
  BY <1>1 DEF CleanRunsSettle
<1> QED BY <1>2, SpecFixes, FailedRollbacksRelease, PTL
====
