---- MODULE TwoPerson_proofs ----
(***************************************************************************)
(* Proofs about TwoPerson, for any operators, calls and number of faults.  *)
(***************************************************************************)
EXTENDS TwoPerson, TLAPS

\* What a call knows at each step: past the row read it is loosening, and a confirmation names its
\* request.
CallOK(c) ==
    /\ call[c].pc \in {"lookup", "auditRequest", "record", "clear"} => call[c].to
    /\ call[c].pc \in {"idle", "read", "lookup", "auditRequest", "record"} => call[c].by = None
    /\ call[c].pc # "idle" => call[c].who \in Operators
    /\ call[c].by # None => call[c].to

\* Since the switch was at rest: the operators of loosening calls are on record, and what a call is
\* about to write is backed.
CallBacked(c) ==
    /\ call[c].to => call[c].who \in hands
    /\ call[c].by # None => call[c].by \in hands
    /\ call[c].pc \in {"audit", "apply"} /\ call[c].to => Backed

RequestBacked ==
    /\ request.by # None => request.by \in hands
    /\ request.ripe => waited

SinceRest ==
    rested => /\ \A c \in Calls : CallBacked(c)
              /\ RequestBacked
              /\ TwoHandsFromRest

\* Idle calls and absent requests carry nothing, so nothing survives a rest.
Blank ==
    /\ \A c \in Calls : call[c].pc = "idle" => call[c].by = None /\ call[c].to = FALSE
    /\ request.by = None => request = NoRequest

IInv == TypeOK /\ (\A c \in Calls : CallOK(c)) /\ Blank /\ SinceRest

LEMMA IInvInit == Init => IInv
<1> SUFFICES ASSUME Init PROVE IInv
  OBVIOUS
<1>1. TypeOK
  <2>1. call \in [Calls -> Call]
    BY DEF Init, Call, Idle, Pcs
  <2>2. faults \in 0..MaxFaults
    BY FaultsAssumption DEF Init
  <2>3. request \in [by : Operators \cup {None}, ripe : BOOLEAN]
    BY DEF Init, NoRequest
  <2> QED
    BY <2>1, <2>2, <2>3 DEF Init, TypeOK
<1>2. (\A c \in Calls : CallOK(c)) /\ Blank
  BY DEF Init, CallOK, Blank, Idle, NoRequest
<1>3. SinceRest
  BY NoneAssumption DEF Init, SinceRest, CallBacked, RequestBacked, TwoHandsFromRest, Idle, NoRequest
<1> QED
  BY <1>1, <1>2, <1>3 DEF IInv

\* What each way of writing a call's local state leaves.
LEMMA GotoLeaves ==
  ASSUME TypeOK, NEW c \in Calls, NEW pc \in Pcs, Goto(c, pc)
  PROVE  /\ call' \in [Calls -> Call]
         /\ \A x \in Calls : x # c => call'[x] = call[x]
         /\ call'[c].pc = pc /\ call'[c].who = call[c].who
         /\ call'[c].to = call[c].to /\ call'[c].by = call[c].by
  BY DEF TypeOK, Call, Goto

LEMMA DoneLeaves ==
  ASSUME TypeOK, NEW c \in Calls, Done(c)
  PROVE  /\ call' \in [Calls -> Call]
         /\ \A x \in Calls : x # c => call'[x] = call[x]
         /\ call'[c] = Idle
  BY DEF TypeOK, Call, Done, Idle, Pcs

LEMMA ConfirmLeaves ==
  ASSUME TypeOK, NEW c \in Calls, call' = [call EXCEPT ![c].pc = "audit", ![c].by = request.by]
  PROVE  /\ call' \in [Calls -> Call]
         /\ \A x \in Calls : x # c => call'[x] = call[x]
         /\ call'[c].pc = "audit" /\ call'[c].who = call[c].who
         /\ call'[c].to = call[c].to /\ call'[c].by = request.by
  BY DEF TypeOK, Call, Pcs

LEMMA BeginLeaves ==
  ASSUME TypeOK, NEW c \in Calls, NEW o \in Operators, NEW to \in BOOLEAN, Begin(c, o, to)
  PROVE  /\ call' \in [Calls -> Call]
         /\ \A x \in Calls : x # c => call'[x] = call[x]
         /\ call'[c].pc = "read" /\ call'[c].who = o /\ call'[c].to = to /\ call'[c].by = None
  BY DEF TypeOK, Call, Pcs, Begin

LEMMA BeginKeeps ==
  ASSUME IInv, NEW c \in Calls, NEW o \in Operators, NEW to \in BOOLEAN, Begin(c, o, to)
  PROVE  IInv'
<1> USE NoneAssumption, FaultsAssumption DEF At, Idle, NoRequest
<1>1. TypeOK'
  BY BeginLeaves DEF IInv, TypeOK, CallOK, Pcs, Entry, Begin, AtRest
<1>2. \A x \in Calls : CallOK(x)'
  BY BeginLeaves DEF IInv, TypeOK, CallOK, Blank, Pcs, Begin, AtRest
<1>3. Blank'
  BY BeginLeaves DEF IInv, TypeOK, CallOK, Blank, Pcs, Begin, AtRest
<1>4. SinceRest'
  BY BeginLeaves DEF IInv, TypeOK, CallOK, Blank, Pcs, SinceRest, CallBacked, RequestBacked, TwoHandsFromRest, Backed, Begin, AtRest
<1> QED
  BY <1>1, <1>2, <1>3, <1>4 DEF IInv

LEMMA ReadKeeps ==
  ASSUME IInv, NEW c \in Calls, Read(c)
  PROVE  IInv'
<1> USE NoneAssumption, FaultsAssumption DEF At, Idle, NoRequest
<1>1. TypeOK'
  BY GotoLeaves, DoneLeaves DEF IInv, TypeOK, CallOK, Pcs, Entry, Read, Loosens, ghosts
<1>2. \A x \in Calls : CallOK(x)'
  BY GotoLeaves, DoneLeaves DEF IInv, TypeOK, CallOK, Blank, Pcs, Read, Loosens, ghosts
<1>3. Blank'
  BY GotoLeaves, DoneLeaves DEF IInv, TypeOK, CallOK, Blank, Pcs, Read, Loosens, ghosts
<1>4. SinceRest'
  BY GotoLeaves, DoneLeaves DEF IInv, TypeOK, CallOK, Blank, Pcs, SinceRest, CallBacked, RequestBacked, TwoHandsFromRest, Backed, Read, Loosens, ghosts
<1> QED
  BY <1>1, <1>2, <1>3, <1>4 DEF IInv

LEMMA LookupKeeps ==
  ASSUME IInv, NEW c \in Calls, Lookup(c)
  PROVE  IInv'
<1> USE NoneAssumption, FaultsAssumption DEF At, Idle, NoRequest
<1>1. TypeOK'
  BY GotoLeaves, DoneLeaves, ConfirmLeaves DEF IInv, TypeOK, CallOK, Pcs, Entry, Lookup, MayConfirm, ghosts
<1>2. \A x \in Calls : CallOK(x)'
  BY GotoLeaves, DoneLeaves, ConfirmLeaves DEF IInv, TypeOK, CallOK, Blank, Pcs, Lookup, MayConfirm, ghosts
<1>3. Blank'
  BY GotoLeaves, DoneLeaves, ConfirmLeaves DEF IInv, TypeOK, CallOK, Blank, Pcs, Lookup, MayConfirm, ghosts
<1>4. SinceRest'
  BY GotoLeaves, DoneLeaves, ConfirmLeaves DEF IInv, TypeOK, CallOK, Blank, Pcs, SinceRest, CallBacked, RequestBacked, TwoHandsFromRest, Backed, Lookup, MayConfirm, ghosts
<1> QED
  BY <1>1, <1>2, <1>3, <1>4 DEF IInv

LEMMA AuditRequestKeeps ==
  ASSUME IInv, NEW c \in Calls, AuditRequest(c)
  PROVE  IInv'
<1> USE NoneAssumption, FaultsAssumption DEF At, Idle, NoRequest
<1>1. TypeOK'
  BY GotoLeaves, DoneLeaves DEF IInv, TypeOK, CallOK, Pcs, Entry, AuditRequest, Audited, Fault, ghosts
<1>2. \A x \in Calls : CallOK(x)'
  BY GotoLeaves, DoneLeaves DEF IInv, TypeOK, CallOK, Blank, Pcs, AuditRequest, Audited, Fault, ghosts
<1>3. Blank'
  BY GotoLeaves, DoneLeaves DEF IInv, TypeOK, CallOK, Blank, Pcs, AuditRequest, Audited, Fault, ghosts
<1>4. SinceRest'
  BY GotoLeaves, DoneLeaves DEF IInv, TypeOK, CallOK, Blank, Pcs, SinceRest, CallBacked, RequestBacked, TwoHandsFromRest, Backed, AuditRequest, Audited, Fault, ghosts
<1> QED
  BY <1>1, <1>2, <1>3, <1>4 DEF IInv

LEMMA RecordKeeps ==
  ASSUME IInv, NEW c \in Calls, Record(c)
  PROVE  IInv'
<1> USE NoneAssumption, FaultsAssumption DEF At, Idle, NoRequest
<1>1. TypeOK'
  <2>1. faults' \in 0..MaxFaults
    BY DEF IInv, TypeOK, Record, Fault, ghosts
  <2>2. call' \in [Calls -> Call]
    BY DoneLeaves DEF IInv, Pcs, Record, Fault, ghosts
  <2>3. request' \in [by : Operators \cup {None}, ripe : BOOLEAN]
    <3>1. CASE request' = request
      BY <3>1 DEF IInv, TypeOK
    <3>2. CASE request' = [by |-> call[c].who, ripe |-> FALSE]
      <4>1. call[c].who \in Operators
        BY DEF IInv, CallOK, Record, Fault, ghosts
      <4> QED
        BY <3>2, <4>1 DEF NoRequest
    <3> QED
      BY <3>1, <3>2 DEF Record, Fault, ghosts
  <2>4. trail' \subseteq Entry
    BY DEF IInv, TypeOK, CallOK, Call, Entry, Record, Fault, ghosts
  <2>5. loose' \in BOOLEAN
    BY DEF IInv, TypeOK, CallOK, Call, Record, Fault, ghosts
  <2> QED
    BY <2>1, <2>2, <2>3, <2>4, <2>5 DEF IInv, TypeOK, Record, Fault, ghosts
<1>2. \A x \in Calls : CallOK(x)'
  BY DoneLeaves DEF IInv, TypeOK, CallOK, Blank, Pcs, Record, Fault, ghosts
<1>3. Blank'
  BY DoneLeaves DEF IInv, TypeOK, CallOK, Blank, Pcs, Record, Fault, ghosts
<1>4. SinceRest'
  BY DoneLeaves DEF IInv, TypeOK, CallOK, Blank, Pcs, SinceRest, CallBacked, RequestBacked, TwoHandsFromRest, Backed, Record, Fault, ghosts
<1> QED
  BY <1>1, <1>2, <1>3, <1>4 DEF IInv

LEMMA AuditKeeps ==
  ASSUME IInv, NEW c \in Calls, Audit(c)
  PROVE  IInv'
<1> USE NoneAssumption, FaultsAssumption DEF At, Idle, NoRequest
<1>1. TypeOK'
  <2>1. faults' \in 0..MaxFaults
    BY DEF IInv, TypeOK, Audit, Audited, Fault, ghosts
  <2>2. call' \in [Calls -> Call]
    BY GotoLeaves, DoneLeaves DEF IInv, Pcs, Audit, Audited, Fault, ghosts
  <2>3. request' \in [by : Operators \cup {None}, ripe : BOOLEAN]
    BY DEF IInv, TypeOK, Audit, Audited, Fault, ghosts
  <2>4. trail' \subseteq Entry
    BY DEF IInv, TypeOK, CallOK, Call, Entry, Audit, Audited, Fault, ghosts
  <2>5. loose' \in BOOLEAN
    BY DEF IInv, TypeOK, CallOK, Call, Audit, Audited, Fault, ghosts
  <2> QED
    BY <2>1, <2>2, <2>3, <2>4, <2>5 DEF IInv, TypeOK, Audit, Audited, Fault, ghosts
<1>2. \A x \in Calls : CallOK(x)'
  BY GotoLeaves, DoneLeaves DEF IInv, TypeOK, CallOK, Blank, Pcs, Audit, Audited, Fault, ghosts
<1>3. Blank'
  BY GotoLeaves, DoneLeaves DEF IInv, TypeOK, CallOK, Blank, Pcs, Audit, Audited, Fault, ghosts
<1>4. SinceRest'
  BY GotoLeaves, DoneLeaves DEF IInv, TypeOK, CallOK, Blank, Pcs, SinceRest, CallBacked, RequestBacked, TwoHandsFromRest, Backed, Audit, Audited, Fault, ghosts
<1> QED
  BY <1>1, <1>2, <1>3, <1>4 DEF IInv

LEMMA ApplyKeeps ==
  ASSUME IInv, NEW c \in Calls, Apply(c)
  PROVE  IInv'
<1> USE NoneAssumption, FaultsAssumption DEF At, Idle, NoRequest
<1>1. TypeOK'
  <2>1. faults' \in 0..MaxFaults
    BY DEF IInv, TypeOK, Apply, Fault, ghosts
  <2>2. call' \in [Calls -> Call]
    BY GotoLeaves, DoneLeaves DEF IInv, Pcs, Apply, Fault, ghosts
  <2>3. request' \in [by : Operators \cup {None}, ripe : BOOLEAN]
    BY DEF IInv, TypeOK, Apply, Fault, ghosts
  <2>4. trail' \subseteq Entry
    BY DEF IInv, TypeOK, CallOK, Call, Entry, Apply, Fault, ghosts
  <2>5. loose' \in BOOLEAN
    BY DEF IInv, TypeOK, CallOK, Call, Apply, Fault, ghosts
  <2> QED
    BY <2>1, <2>2, <2>3, <2>4, <2>5 DEF IInv, TypeOK, Apply, Fault, ghosts
<1>2. \A x \in Calls : CallOK(x)'
  BY GotoLeaves, DoneLeaves DEF IInv, TypeOK, CallOK, Blank, Pcs, Apply, Fault, ghosts
<1>3. Blank'
  BY GotoLeaves, DoneLeaves DEF IInv, TypeOK, CallOK, Blank, Pcs, Apply, Fault, ghosts
<1>4. SinceRest'
  BY GotoLeaves, DoneLeaves DEF IInv, TypeOK, CallOK, Blank, Pcs, SinceRest, CallBacked, RequestBacked, TwoHandsFromRest, Backed, Apply, Fault, ghosts
<1> QED
  BY <1>1, <1>2, <1>3, <1>4 DEF IInv

LEMMA ClearKeeps ==
  ASSUME IInv, NEW c \in Calls, Clear(c)
  PROVE  IInv'
<1> USE NoneAssumption, FaultsAssumption DEF At, Idle, NoRequest
<1>1. TypeOK'
  <2>1. faults' \in 0..MaxFaults
    BY DEF IInv, TypeOK, Clear, Fault, ghosts
  <2>2. call' \in [Calls -> Call]
    BY DoneLeaves DEF IInv, Pcs, Clear, Fault, ghosts
  <2>3. request' \in [by : Operators \cup {None}, ripe : BOOLEAN]
    <3>1. CASE request' = request
      BY <3>1 DEF IInv, TypeOK
    <3>2. CASE request' = NoRequest
      BY <3>2
    <3> QED
      BY <3>1, <3>2 DEF Clear, Fault, ghosts
  <2>4. trail' \subseteq Entry
    BY DEF IInv, TypeOK, CallOK, Call, Entry, Clear, Fault, ghosts
  <2>5. loose' \in BOOLEAN
    BY DEF IInv, TypeOK, CallOK, Call, Clear, Fault, ghosts
  <2> QED
    BY <2>1, <2>2, <2>3, <2>4, <2>5 DEF IInv, TypeOK, Clear, Fault, ghosts
<1>2. \A x \in Calls : CallOK(x)'
  BY DoneLeaves DEF IInv, TypeOK, CallOK, Blank, Pcs, Clear, Fault, ghosts
<1>3. Blank'
  BY DoneLeaves DEF IInv, TypeOK, CallOK, Blank, Pcs, Clear, Fault, ghosts
<1>4. SinceRest'
  BY DoneLeaves DEF IInv, TypeOK, CallOK, Blank, Pcs, SinceRest, CallBacked, RequestBacked, TwoHandsFromRest, Backed, Clear, Fault, ghosts
<1> QED
  BY <1>1, <1>2, <1>3, <1>4 DEF IInv

LEMMA CrashKeeps ==
  ASSUME IInv, NEW c \in Calls, Crash(c)
  PROVE  IInv'
<1> USE NoneAssumption, FaultsAssumption DEF At, Idle, NoRequest
<1>1. TypeOK'
  BY DoneLeaves DEF IInv, TypeOK, CallOK, Pcs, Entry, Crash, Fault, ghosts
<1>2. \A x \in Calls : CallOK(x)'
  BY DoneLeaves DEF IInv, TypeOK, CallOK, Blank, Pcs, Crash, Fault, ghosts
<1>3. Blank'
  BY DoneLeaves DEF IInv, TypeOK, CallOK, Blank, Pcs, Crash, Fault, ghosts
<1>4. SinceRest'
  BY DoneLeaves DEF IInv, TypeOK, CallOK, Blank, Pcs, SinceRest, CallBacked, RequestBacked, TwoHandsFromRest, Backed, Crash, Fault, ghosts
<1> QED
  BY <1>1, <1>2, <1>3, <1>4 DEF IInv

LEMMA RipenKeeps ==
  ASSUME IInv, Ripen
  PROVE  IInv'
<1> USE NoneAssumption, FaultsAssumption DEF At, Idle, NoRequest
<1>1. TypeOK'
  BY DEF IInv, TypeOK, CallOK, Pcs, Entry, Ripen
<1>2. \A x \in Calls : CallOK(x)'
  BY DEF IInv, TypeOK, CallOK, Blank, Pcs, Ripen
<1>3. Blank'
  BY DEF IInv, TypeOK, CallOK, Blank, Pcs, Ripen
<1>4. SinceRest'
  BY DEF IInv, TypeOK, CallOK, Blank, Pcs, SinceRest, CallBacked, RequestBacked, TwoHandsFromRest, Backed, Ripen
<1> QED
  BY <1>1, <1>2, <1>3, <1>4 DEF IInv

LEMMA WithdrawKeeps ==
  ASSUME IInv, Withdraw
  PROVE  IInv'
<1> USE NoneAssumption, FaultsAssumption DEF At, Idle, NoRequest
<1>1. TypeOK'
  BY DEF IInv, TypeOK, CallOK, Pcs, Entry, Withdraw, ghosts
<1>2. \A x \in Calls : CallOK(x)'
  BY DEF IInv, TypeOK, CallOK, Blank, Pcs, Withdraw, ghosts
<1>3. Blank'
  BY DEF IInv, TypeOK, CallOK, Blank, Pcs, Withdraw, ghosts
<1>4. SinceRest'
  BY DEF IInv, TypeOK, CallOK, Blank, Pcs, SinceRest, CallBacked, RequestBacked, TwoHandsFromRest, Backed, Withdraw, ghosts
<1> QED
  BY <1>1, <1>2, <1>3, <1>4 DEF IInv

LEMMA StutterKeeps ==
  ASSUME IInv, UNCHANGED vars
  PROVE  IInv'
<1> USE NoneAssumption, FaultsAssumption DEF At, Idle, NoRequest
<1>1. TypeOK'
  BY DEF IInv, TypeOK, CallOK, Pcs, Entry, vars
<1>2. \A x \in Calls : CallOK(x)'
  BY DEF IInv, TypeOK, CallOK, Blank, Pcs, vars
<1>3. Blank'
  BY DEF IInv, TypeOK, CallOK, Blank, Pcs, vars
<1>4. SinceRest'
  BY DEF IInv, TypeOK, CallOK, Blank, Pcs, SinceRest, CallBacked, RequestBacked, TwoHandsFromRest, Backed, vars
<1> QED
  BY <1>1, <1>2, <1>3, <1>4 DEF IInv

LEMMA IInvStep == IInv /\ [Next]_vars => IInv'
  BY BeginKeeps, ReadKeeps, LookupKeeps, AuditRequestKeeps, RecordKeeps, AuditKeeps, ApplyKeeps,
     ClearKeeps, CrashKeeps, RipenKeeps, WithdrawKeeps, StutterKeeps
  DEF Next, Proceed

LEMMA IInvAlways == Spec => []IInv
  BY IInvInit, IInvStep, PTL DEF Spec

\* Every reachable state is well typed.
THEOREM SwitchTypeCorrect == Spec => []TypeOK
<1>1. IInv => TypeOK
  BY DEF IInv
<1> QED
  BY IInvAlways, <1>1, PTL

\* No single operator loosens a switch from rest (update_policy, set_protection, check_confirmer).
THEOREM LooseNeedsTwo == Spec => []TwoHandsFromRest
<1>1. IInv => TwoHandsFromRest
  BY DEF IInv, SinceRest, TwoHandsFromRest
<1> QED
  BY IInvAlways, <1>1, PTL

\* Every confirmation on the audit trail names an operator whose request is on the trail too, although
\* requests are overwritten and deleted by key.
ConfirmationsTrace == \A e \in trail : e.by # None => Requested(e.by)

\* The trail has the request behind every live request and every confirmation.
TraceInv ==
    /\ request.by # None => Requested(request.by)
    /\ \A c \in Calls : /\ call[c].by # None => Requested(call[c].by)
                        /\ call[c].pc = "record" => Requested(call[c].who)
    /\ ConfirmationsTrace

LEMMA TraceStep ==
  ASSUME IInv, TraceInv, [Next]_vars
  PROVE  TraceInv'
<1> USE NoneAssumption DEF At, Idle, NoRequest
<1>0. TypeOK
  BY DEF IInv
<1>1. ASSUME NEW c \in Calls, NEW o \in Operators, NEW to \in BOOLEAN, Begin(c, o, to) PROVE TraceInv'
  BY <1>0, <1>1, BeginLeaves DEF IInv, CallOK, TraceInv, ConfirmationsTrace, Requested, Pcs, Begin, AtRest
<1>2. ASSUME NEW c \in Calls, Read(c) PROVE TraceInv'
  BY <1>0, <1>2, GotoLeaves, DoneLeaves DEF IInv, CallOK, TraceInv, ConfirmationsTrace, Requested, Pcs, Read, Loosens, ghosts
<1>3. ASSUME NEW c \in Calls, Lookup(c) PROVE TraceInv'
  BY <1>0, <1>3, GotoLeaves, DoneLeaves, ConfirmLeaves DEF IInv, CallOK, TraceInv, ConfirmationsTrace, Requested, Pcs, Lookup, MayConfirm, ghosts
<1>4. ASSUME NEW c \in Calls, AuditRequest(c) PROVE TraceInv'
  BY <1>0, <1>4, GotoLeaves, DoneLeaves DEF IInv, CallOK, TraceInv, ConfirmationsTrace, Requested, Pcs, AuditRequest, Audited, Fault, ghosts
<1>5. ASSUME NEW c \in Calls, Record(c) PROVE TraceInv'
  <2>1. call'[c] = Idle /\ \A x \in Calls : x # c => call'[x] = call[x]
    BY <1>0, <1>5, DoneLeaves DEF Record
  <2>2. Requested(call[c].who)
    BY <1>5 DEF TraceInv, Record, Requested
  <2>3. request'.by # None => Requested(request'.by)
    BY <1>5, <2>2 DEF TraceInv, Record, Requested
  <2> QED
    BY <1>5, <2>1, <2>3 DEF TraceInv, ConfirmationsTrace, Requested, Record
<1>6. ASSUME NEW c \in Calls, Audit(c) PROVE TraceInv'
  <2> DEFINE e == [event |-> "changed", who |-> call[c].who, by |-> call[c].by]
  <2>1. trail' \in {trail, trail \cup {e}} /\ request' = request
    BY <1>6 DEF Audit, Audited
  <2>2. \A x \in Calls : /\ call'[x].by \in {call[x].by, None}
                         /\ call'[x].pc = "record" => call'[x] = call[x]
    BY <1>0, <1>6, GotoLeaves, DoneLeaves DEF Audit, Audited, Pcs
  <2>3. trail \subseteq trail'
    BY <2>1
  <2>4. call[c].by # None => Requested(call[c].by)
    BY <1>6 DEF TraceInv, Requested
  <2>5. ConfirmationsTrace'
    BY <2>1, <2>4 DEF TraceInv, ConfirmationsTrace, Requested
  <2> QED
    BY <2>1, <2>2, <2>3, <2>5 DEF TraceInv, Requested
<1>7. ASSUME NEW c \in Calls, Apply(c) PROVE TraceInv'
  BY <1>0, <1>7, GotoLeaves, DoneLeaves DEF IInv, CallOK, TraceInv, ConfirmationsTrace, Requested, Pcs, Apply, Fault, ghosts
<1>8. ASSUME NEW c \in Calls, Clear(c) PROVE TraceInv'
  BY <1>0, <1>8, DoneLeaves DEF IInv, CallOK, TraceInv, ConfirmationsTrace, Requested, Pcs, Clear, Fault, ghosts
<1>9. ASSUME NEW c \in Calls, Crash(c) PROVE TraceInv'
  BY <1>0, <1>9, DoneLeaves DEF IInv, CallOK, TraceInv, ConfirmationsTrace, Requested, Pcs, Crash, Fault, ghosts
<1>10. ASSUME Ripen PROVE TraceInv'
  BY <1>0, <1>10 DEF IInv, CallOK, TraceInv, ConfirmationsTrace, Requested, Pcs, Ripen
<1>11. ASSUME Withdraw PROVE TraceInv'
  BY <1>0, <1>11 DEF IInv, CallOK, TraceInv, ConfirmationsTrace, Requested, Pcs, Withdraw, ghosts
<1>12. ASSUME UNCHANGED vars PROVE TraceInv'
  BY <1>0, <1>12 DEF IInv, CallOK, TraceInv, ConfirmationsTrace, Requested, Pcs, vars
<1> QED
  BY <1>1, <1>2, <1>3, <1>4, <1>5, <1>6, <1>7, <1>8, <1>9, <1>10, <1>11, <1>12 DEF Next, Proceed

\* Every confirmation on the trail has its request on the trail (audited first, two_person.py).
THEOREM ConfirmationsAreTraced == Spec => []ConfirmationsTrace
<1>1. Init => TraceInv
  BY DEF Init, TraceInv, ConfirmationsTrace, Idle, NoRequest
<1>2. IInv /\ TraceInv /\ [Next]_vars => TraceInv'
  BY TraceStep
<1>3. TraceInv => ConfirmationsTrace
  BY DEF TraceInv
<1> QED
  BY IInvAlways, <1>1, <1>2, <1>3, PTL DEF Spec

----
\* Since the switch was at rest: a loose switch and a call about to make it loose are on record, and a
\* call about to be audited is, or carries the two hands that the entry will name.
Recorded == \E e \in trail : BothHands(e)

TwoHanded(c) == call[c].by \in hands /\ (mode = "two_person" => call[c].who # call[c].by)

RecordInv ==
    rested /\ mode # "off" =>
        /\ loose => Recorded
        /\ \A c \in Calls : call[c].to =>
               /\ call[c].pc = "apply" => Recorded
               /\ call[c].pc = "audit" => Recorded \/ TwoHanded(c)

\* A record stays one while the trail and the hands only grow.
LEMMA RecordedStays ==
  ASSUME Recorded, trail \subseteq trail', hands \subseteq hands', mode' = mode
  PROVE  Recorded'
  BY DEF Recorded, BothHands

\* A step that leaves the switch, the trail and the ghosts alone keeps the invariant if every call that
\* is about to be audited or to write was so before, unchanged.
LEMMA QuietKeepsRecord ==
  ASSUME RecordInv, UNCHANGED <<mode, loose, trail, hands, rested>>,
         \A x \in Calls : call'[x].pc \in {"audit", "apply"} => call'[x] = call[x]
  PROVE  RecordInv'
<1>1. Recorded => Recorded'
  BY RecordedStays
<1> QED
  BY <1>1 DEF RecordInv, TwoHanded

LEMMA RecordStep ==
  ASSUME IInv, RecordInv, [Next]_vars
  PROVE  RecordInv'
<1> USE NoneAssumption DEF At
<1>0. TypeOK
  BY DEF IInv
<1>1. ASSUME NEW c \in Calls, NEW o \in Operators, NEW to \in BOOLEAN, Begin(c, o, to) PROVE RecordInv'
  <2>1. call'[c].pc = "read" /\ \A x \in Calls : x # c => call'[x] = call[x]
    BY <1>0, <1>1, BeginLeaves
  <2>2. CASE AtRest
    BY <1>1, <2>1, <2>2 DEF Begin, AtRest, RecordInv
  <2>3. CASE ~AtRest
    <3>1. hands \subseteq hands' /\ UNCHANGED <<mode, loose, trail>>
      BY <1>1, <2>3 DEF Begin
    <3>2. rested' => rested
      BY <1>1, <2>3 DEF Begin
    <3>3. Recorded => Recorded'
      BY <3>1, RecordedStays
    <3> QED
      BY <2>1, <3>1, <3>2, <3>3 DEF RecordInv, TwoHanded
  <2> QED
    BY <2>2, <2>3
<1>2. ASSUME NEW c \in Calls, Read(c) PROVE RecordInv'
  <2>1. UNCHANGED <<mode, loose, trail, hands, rested>>
    BY <1>2 DEF Read, ghosts
  <2>2. \A x \in Calls : x # c => call'[x] = call[x]
    BY <1>0, <1>2, GotoLeaves DEF Read, Pcs
  <2>3. call'[c].pc \in {"lookup", "audit"} /\ call'[c].to = call[c].to
    BY <1>0, <1>2, GotoLeaves DEF Read, Pcs
  <2>4. mode # "off" /\ call'[c].pc = "audit" /\ call[c].to => loose
    BY <1>0, <1>2, GotoLeaves DEF Read, Loosens, Pcs
  <2>5. Recorded => Recorded'
    BY <2>1, RecordedStays
  <2> QED
    BY <2>1, <2>2, <2>3, <2>4, <2>5 DEF RecordInv, TwoHanded
<1>3. ASSUME NEW c \in Calls, Lookup(c) PROVE RecordInv'
  <2>1. UNCHANGED <<mode, loose, trail, hands, rested, request>>
    BY <1>3 DEF Lookup, ghosts
  <2>2. CASE call' = [call EXCEPT ![c].pc = "audit", ![c].by = request.by] /\ request # NoRequest /\ MayConfirm(call[c].who)
    <3>1. /\ \A x \in Calls : x # c => call'[x] = call[x]
          /\ call'[c].pc = "audit" /\ call'[c].by = request.by /\ call'[c].who = call[c].who
      BY <1>0, <2>2, ConfirmLeaves
    <3>2. rested => request.by \in hands
      BY <2>2 DEF IInv, Blank, SinceRest, RequestBacked
    <3>3. mode = "two_person" => call[c].who # request.by
      BY <2>2 DEF MayConfirm
    <3>4. rested => TwoHanded(c)'
      BY <2>1, <3>1, <3>2, <3>3 DEF TwoHanded
    <3>5. Recorded => Recorded'
      BY <2>1, RecordedStays
    <3> QED
      BY <2>1, <3>1, <3>4, <3>5 DEF RecordInv, TwoHanded
  <2>3. CASE Goto(c, "auditRequest") \/ Done(c)
    <3>1. \A x \in Calls : call'[x].pc \in {"audit", "apply"} => call'[x] = call[x]
      BY <1>0, <2>3, GotoLeaves, DoneLeaves DEF Pcs, Idle
    <3> QED
      BY <2>1, <3>1, QuietKeepsRecord
  <2> QED
    BY <1>3, <2>2, <2>3 DEF Lookup
<1>4. ASSUME NEW c \in Calls, AuditRequest(c) PROVE RecordInv'
  <2>1. trail \subseteq trail' /\ UNCHANGED <<mode, loose, hands, rested>>
    BY <1>4 DEF AuditRequest, Audited, ghosts
  <2>2. \A x \in Calls : call'[x].pc \in {"audit", "apply"} => call'[x] = call[x]
    BY <1>0, <1>4, GotoLeaves, DoneLeaves DEF AuditRequest, Audited, Pcs, Idle
  <2>3. Recorded => Recorded'
    BY <2>1, RecordedStays
  <2> QED
    BY <2>1, <2>2, <2>3 DEF RecordInv, TwoHanded
<1>5. ASSUME NEW c \in Calls, Record(c) \/ Clear(c) \/ Crash(c) PROVE RecordInv'
  <2>1. UNCHANGED <<mode, loose, trail, hands, rested>> /\ Done(c)
    BY <1>5 DEF Record, Clear, Crash, ghosts
  <2>2. \A x \in Calls : call'[x].pc \in {"audit", "apply"} => call'[x] = call[x]
    BY <1>0, <2>1, DoneLeaves DEF Idle
  <2> QED
    BY <2>1, <2>2, QuietKeepsRecord
<1>6. ASSUME NEW c \in Calls, Audit(c) PROVE RecordInv'
  <2> DEFINE e == [event |-> "changed", who |-> call[c].who, by |-> call[c].by]
  <2>1. trail \subseteq trail' /\ UNCHANGED <<mode, loose, hands, rested>>
    BY <1>6 DEF Audit, Audited, ghosts
  <2>2. Recorded => Recorded'
    BY <2>1, RecordedStays
  <2>3. \A x \in Calls : x # c => call'[x] = call[x]
    BY <1>0, <1>6, GotoLeaves, DoneLeaves DEF Audit, Audited, Pcs
  <2>4. call'[c].to => /\ call'[c].pc = "apply" /\ call[c].pc = "audit" /\ call[c].to
                       /\ e \in trail'
    BY <1>0, <1>6, GotoLeaves, DoneLeaves DEF Audit, Audited, Pcs, Idle
  <2>5. rested /\ call[c].to => call[c].who \in hands
    BY DEF IInv, SinceRest, CallBacked
  <2>6. rested /\ call'[c].to /\ TwoHanded(c) => Recorded'
    BY <2>1, <2>4, <2>5 DEF Recorded, BothHands, TwoHanded
  <2> QED
    BY <2>1, <2>2, <2>3, <2>4, <2>6 DEF RecordInv, TwoHanded
<1>7. ASSUME NEW c \in Calls, Apply(c) PROVE RecordInv'
  <2>1. UNCHANGED <<mode, trail, hands, rested>>
    BY <1>7 DEF Apply, ghosts
  <2>2. \A x \in Calls : call'[x].pc \in {"audit", "apply"} => call'[x] = call[x]
    BY <1>0, <1>7, GotoLeaves, DoneLeaves DEF Apply, Pcs, Idle
  <2>3. loose' => loose \/ (call[c].to /\ call[c].pc = "apply")
    BY <1>7 DEF Apply
  <2>4. Recorded => Recorded'
    BY <2>1, RecordedStays
  <2> QED
    BY <2>1, <2>2, <2>3, <2>4 DEF RecordInv, TwoHanded
<1>8. ASSUME Ripen \/ Withdraw \/ UNCHANGED vars PROVE RecordInv'
  <2>1. UNCHANGED <<mode, loose, trail, hands, rested, call>>
    BY <1>8 DEF Ripen, Withdraw, vars, ghosts
  <2> QED
    BY <2>1, QuietKeepsRecord
<1> QED
  BY <1>1, <1>2, <1>3, <1>4, <1>5, <1>6, <1>7, <1>8 DEF Next, Proceed

\* From rest, no switch is loose without an entry of the audit trail that names both hands, and one
\* of the request it confirms (audit before write, in update_policy and set_protection).
THEOREM LooseOnRecord == Spec => []LooseIsOnRecord
<1>1. Init => RecordInv
  <2> SUFFICES ASSUME Init PROVE RecordInv
    OBVIOUS
  <2>1. rested => ~loose
    BY DEF Init
  <2>2. \A c \in Calls : call[c].to = FALSE
    BY DEF Init, Idle
  <2> QED
    BY <2>1, <2>2 DEF RecordInv
<1>2. IInv /\ RecordInv /\ [Next]_vars => RecordInv'
  BY RecordStep
<1>3. IInv /\ RecordInv /\ ConfirmationsTrace => LooseIsOnRecord
  <2> SUFFICES ASSUME IInv, RecordInv, ConfirmationsTrace, rested /\ loose /\ mode # "off"
               PROVE  \E e \in trail : BothHands(e) /\ Requested(e.by)
    BY DEF LooseIsOnRecord
  <2>1. PICK e \in trail : BothHands(e)
    BY DEF RecordInv, Recorded
  <2>2. e.by # None
    BY <2>1, NoneAssumption DEF IInv, TypeOK, BothHands
  <2> QED
    BY <2>1, <2>2 DEF ConfirmationsTrace
<1> QED
  BY IInvAlways, ConfirmationsAreTraced, <1>1, <1>2, <1>3, PTL DEF Spec
====
