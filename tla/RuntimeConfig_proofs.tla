---- MODULE RuntimeConfig_proofs ----
(***************************************************************************)
(* Proofs about RuntimeConfig: type correctness, and that since a flag was *)
(* last settled no level is in force that two operators did not agree on   *)
(* and no process started from, for any number of replicas, operators,     *)
(* concurrent calls, levels, restarts and faults, and any environment.     *)
(*                                                                         *)
(* InForceIsSanctioned is not inductive: a call in flight carries a level  *)
(* it read or was asked for earlier, and writes it later.  The inductive   *)
(* invariant adds that every level about to be written without a second    *)
(* operator is sanctioned as well (CarriedIsSanctioned), and that a stored *)
(* request names its operator (RequestsAreSigned), without which a         *)
(* confirmation could not be told from a direct write.  A call that begins *)
(* while the flag is settled makes a new start: only the row's level is    *)
(* sanctioned then, and no call in flight can carry another (BeginSettled).*)
(***************************************************************************)
EXTENDS RuntimeConfig, TLAPS

\* Levels a call writes without anyone else's word for them.
CarriedIsSanctioned ==
    \A c \in Calls :
        \/ call[c].pc \in {"cacheIt", "overlay"}
        \/ call[c].pc = "persist" /\ call[c].by \in {None, call[c].who}
        => Sanctioned(call[c].value)

RequestsAreSigned ==
    /\ pending # NoRequest => pending.by # None
    /\ \A c \in Calls : call[c].pc \in {"readPending", "upsert"} => call[c].who # None

IInv == TypeOK /\ InForceIsSanctioned /\ CarriedIsSanctioned /\ RequestsAreSigned

----
\* How the three ways of changing the local state of a call, and a write to a copy, keep their types.

LEMMA IdleType == Idle \in Call
  BY LevelsAssumption DEF Idle, Call, Pcs, Levels

LEMMA GotoType ==
  ASSUME TypeOK, NEW c \in Calls, NEW pc \in Pcs, call[c].pc # "idle", Goto(c, pc)
  PROVE  call' \in [Calls -> Call]
<1>1. call[c] \in Call /\ [call[c] EXCEPT !.pc = pc] \in Call
  BY DEF TypeOK, Call
<1>2. call' = [call EXCEPT ![c] = [call[c] EXCEPT !.pc = pc]]
  BY DEF Goto
<1>3. [call[c] EXCEPT !.pc = pc].at = call[c].at
  BY <1>1 DEF Call
<1> QED BY <1>1, <1>2, <1>3 DEF TypeOK

LEMMA DoneType ==
  ASSUME TypeOK, NEW c \in Calls, Done(c)
  PROVE  call' \in [Calls -> Call]
<1>1. Idle \in Call /\ Idle.pc = "idle"
  BY IdleType DEF Idle
<1> QED BY <1>1 DEF Done, TypeOK

LEMMA SetCacheType ==
  ASSUME TypeOK, NEW p, NEW level \in Levels, SetCache(p, level)
  PROVE  cache' \in [Replicas -> Levels]
  BY DEF SetCache, TypeOK

----
\* Type correctness.

LEMMA InitTypeOK == Init => TypeOK
<1> SUFFICES ASSUME Init PROVE TypeOK
  OBVIOUS
<1>1. call \in [Calls -> Call]
  BY IdleType DEF Init, Idle
<1>2. pending \in [by : Operators \cup {None}, value : Levels]
  BY LevelsAssumption DEF Init, NoRequest, Levels
<1>3. faults \in 0..MaxFaults
  BY LevelsAssumption DEF Init
<1>4. cache \in [Replicas -> Levels] /\ approved \subseteq Levels
  <2>1. {db, EnvLevel} \subseteq Levels /\ cache \in [Replicas -> {db, EnvLevel}]
    BY EnvAssumption DEF Init
  <2>2. \A p \in Replicas : cache[p] \in Levels
    BY <2>1
  <2> QED BY <2>1, <2>2 DEF Init
<1> QED BY <1>1, <1>2, <1>3, <1>4 DEF Init, TypeOK

LEMMA FaultType == ASSUME TypeOK, Fault PROVE faults' \in 0..MaxFaults
  BY LevelsAssumption DEF Fault, TypeOK

LEMMA ProceedTypeOK ==
  ASSUME TypeOK, NEW c \in Calls, Proceed(c)
  PROVE  TypeOK'
<1>0. call[c] \in Call /\ 0 \in Levels /\ NoRequest \in [by : Operators \cup {None}, value : Levels]
  BY LevelsAssumption DEF TypeOK, Levels, NoRequest
<1>a. call[c].value \in Levels /\ call[c].who \in Operators \cup {None} /\ call[c].at \in Replicas \cup {None}
  BY <1>0 DEF Call
<1>b. {"upsert", "persist", "cacheIt", "clear", "stopWritten", "stopClear", "stopCache"} \subseteq Pcs
  BY DEF Pcs
<1>1. CASE ReadPending(c)
  <2>1. call[c].pc # "idle" /\ UNCHANGED <<db, cache, pending, approved, faults>>
    BY <1>1 DEF ReadPending, At
  <2>2. CASE Goto(c, "upsert") BY <2>1, <2>2, <1>b, GotoType DEF TypeOK
  <2>3. CASE Done(c) BY <2>1, <2>3, DoneType DEF TypeOK
  <2>4. CASE call' = [call EXCEPT ![c].pc = "persist", ![c].by = pending.by]
    <3>1. [call[c] EXCEPT !.pc = "persist", !.by = pending.by] \in Call
      BY <1>0, <1>b DEF Call, TypeOK
    <3>2. call' = [call EXCEPT ![c] = [call[c] EXCEPT !.pc = "persist", !.by = pending.by]]
      BY <2>4
    <3>3. [call[c] EXCEPT !.pc = "persist", !.by = pending.by].at = call[c].at
      BY <1>0 DEF Call
    <3> QED BY <2>1, <3>1, <3>2, <3>3 DEF TypeOK
  <2> QED BY <1>1, <2>2, <2>3, <2>4 DEF ReadPending
<1>2. CASE Upsert(c)
  <2>1. pending' \in [by : Operators \cup {None}, value : Levels]
    BY <1>2, <1>a DEF Upsert
  <2> QED BY <1>2, <2>1, DoneType DEF Upsert, TypeOK
<1>3. CASE Persist(c)
  <2>1. cache' \in [Replicas -> Levels]
    BY <1>3, <1>0, SetCacheType DEF Persist, TypeOK
  <2>2. call[c].pc # "idle" /\ UNCHANGED pending
    BY <1>3 DEF Persist, At
  <2>3. CASE /\ db' = call[c].value
             /\ Goto(c, "cacheIt")
             /\ approved' \in {approved, approved \cup {call[c].value}}
             /\ UNCHANGED faults
    BY <2>1, <2>2, <2>3, <1>a, <1>b, GotoType DEF TypeOK
  <2>4. CASE Fault /\ Done(c) /\ UNCHANGED <<db, approved>>
    BY <2>1, <2>2, <2>4, FaultType, DoneType DEF TypeOK
  <2> QED BY <1>3, <2>3, <2>4 DEF Persist
<1>4. CASE CacheIt(c)
  <2>1. cache' \in [Replicas -> Levels] /\ call[c].pc # "idle"
    BY <1>4, <1>a, SetCacheType DEF CacheIt, At
  <2>2. CASE Goto(c, "clear") BY <1>4, <2>1, <2>2, <1>b, GotoType DEF CacheIt, TypeOK
  <2>3. CASE Done(c) BY <1>4, <2>1, <2>3, DoneType DEF CacheIt, TypeOK
  <2> QED BY <1>4, <2>2, <2>3 DEF CacheIt
<1>5. CASE Clear(c)
  BY <1>5, <1>0, DoneType, FaultType DEF Clear, TypeOK
<1>6. CASE StopPersist(c)
  <2>1. call[c].pc # "idle"
    BY <1>6 DEF StopPersist, At
  <2> QED BY <1>6, <2>1, <1>0, <1>b, GotoType, FaultType DEF StopPersist, TypeOK
<1>7. CASE StopWritten(c)
  <2>1. call[c].pc # "idle"
    BY <1>7 DEF StopWritten, At
  <2> QED BY <1>7, <2>1, <1>0, <1>b, GotoType, SetCacheType DEF StopWritten, TypeOK
<1>8. CASE StopClear(c)
  <2>1. call[c].pc # "idle"
    BY <1>8 DEF StopClear, At
  <2> QED BY <1>8, <2>1, <1>0, <1>b, GotoType, FaultType DEF StopClear, TypeOK
<1>9. CASE StopCache(c)
  <2> QED BY <1>9, <1>0, DoneType, SetCacheType DEF StopCache, TypeOK
<1>10. CASE Overlay(c)
  BY <1>10, <1>a, DoneType, SetCacheType DEF Overlay, TypeOK
<1> QED BY <1>1, <1>2, <1>3, <1>4, <1>5, <1>6, <1>7, <1>8, <1>9, <1>10 DEF Proceed

LEMMA RestartTypeOK ==
  ASSUME TypeOK, NEW p \in Replicas, Restart(p)
  PROVE  TypeOK'
<1>1. call' \in [Calls -> Call] /\ faults' \in 0..MaxFaults
  BY IdleType, FaultType DEF Restart, TypeOK
<1>2. cache' \in [Replicas -> Levels]
  BY SetCacheType, EnvAssumption DEF Restart, TypeOK
<1>3. approved' \subseteq Levels
  BY EnvAssumption DEF Restart, TypeOK
<1> QED BY <1>1, <1>2, <1>3 DEF Restart, TypeOK

\* Every step keeps every variable in its type: no level outside the flag's range is ever stored,
\* in the row, a copy, a request or a call.
LEMMA NextTypeOK == TypeOK /\ [Next]_vars => TypeOK'
<1> SUFFICES ASSUME TypeOK, [Next]_vars PROVE TypeOK'
  OBVIOUS
<1>1. CASE UNCHANGED vars
  BY <1>1 DEF vars, TypeOK
<1>2. ASSUME NEW c \in Calls, Proceed(c) PROVE TypeOK'
  BY <1>2, ProceedTypeOK
<1>3. ASSUME NEW c \in Calls, Abort(c) PROVE TypeOK'
  BY <1>3, DoneType, FaultType DEF Abort, TypeOK
<1>6. ASSUME NEW p \in Replicas, Restart(p) PROVE TypeOK'
  BY <1>6, RestartTypeOK
<1>4. ASSUME NEW c \in Calls, NEW p \in Replicas, Begin(c, p) PROVE TypeOK'
  <2>0. 0 \in Levels /\ db \in Levels
    BY LevelsAssumption DEF TypeOK, Levels
  <2>1. PICK new \in Call : new.at = p /\ call' = [call EXCEPT ![c] = new]
    <3>1. ASSUME NEW o \in Operators, NEW level \in Levels, Request(c, p, o, level)
          PROVE  \E new \in Call : new.at = p /\ call' = [call EXCEPT ![c] = new]
      <4> DEFINE new == [pc |-> IF level > cache[p] THEN "readPending" ELSE "persist",
                         at |-> p, who |-> o, value |-> level, by |-> None]
      <4>1. new \in Call /\ new.at = p
        BY DEF Call, Pcs
      <4>2. call' = [call EXCEPT ![c] = new]
        BY <3>1 DEF Request
      <4> QED BY <4>1, <4>2
    <3>2. CASE Stop(c, p) BY <3>2, <2>0 DEF Stop, Idle, Call, Pcs
    <3>3. CASE RefreshRead(c, p) BY <3>3, <2>0 DEF RefreshRead, Idle, Call, Pcs
    <3> QED BY <1>4, <3>1, <3>2, <3>3 DEF Begin
  <2>2. call' \in [Calls -> Call]
    BY <2>1 DEF TypeOK
  <2>3. cache' \in [Replicas -> Levels]
    BY <1>4, <2>0, SetCacheType DEF Begin, Request, Stop, RefreshRead, TypeOK
  <2>4. Mark /\ UNCHANGED <<db, pending, faults>>
    BY <1>4 DEF Begin, Request, Stop, RefreshRead
  <2>5. approved' \subseteq Levels
    BY <2>0, <2>4 DEF Mark, TypeOK
  <2> QED BY <2>2, <2>3, <2>4, <2>5 DEF TypeOK
<1>5. CASE Withdraw
  BY <1>5, LevelsAssumption DEF Withdraw, NoRequest, TypeOK, Levels
<1> QED BY <1>1, <1>2, <1>3, <1>4, <1>5, <1>6 DEF Next

\* No value outside a flag's range is ever stored, whatever requests, stops, refreshes, crashes and
\* restarts interleave.
THEOREM TypeCorrect == Spec => []TypeOK
<1>1. Spec => [](TypeOK)
  BY InitTypeOK, NextTypeOK, PTL DEF Spec
<1> QED BY <1>1, PTL

----
\* Two operators.

Safe == InForceIsSanctioned /\ CarriedIsSanctioned /\ RequestsAreSigned

\* What one call may do to the local state `new` it leaves behind, the row, the copies and the
\* request without bringing an unsanctioned level in force, now or later.
LEMMA StepIsSafe ==
  ASSUME TypeOK, Safe, NEW c \in Calls, NEW new,
         call' = [call EXCEPT ![c] = new],
         approved \subseteq approved',
         Sanctioned(db)',
         \A p \in Replicas : cache'[p] = cache[p] \/ \E a \in approved' : cache'[p] <= a,
         \/ new.pc \in {"cacheIt", "overlay"}
         \/ new.pc = "persist" /\ new.by \in {None, new.who}
         => \E a \in approved' : new.value <= a,
         new.pc \in {"readPending", "upsert"} => new.who # None,
         pending' # NoRequest => pending' = pending \/ pending'.by # None
  PROVE  Safe'
<1>1. InForceIsSanctioned'
  BY DEF Safe, InForceIsSanctioned, Sanctioned
<1>2. \A d \in Calls : call'[d] = IF d = c THEN new ELSE call[d]
  BY DEF TypeOK
<1>3. CarriedIsSanctioned'
  BY <1>2 DEF Safe, CarriedIsSanctioned, Sanctioned
<1>4. RequestsAreSigned'
  BY <1>2 DEF Safe, RequestsAreSigned
<1> QED BY <1>1, <1>3, <1>4 DEF Safe

\* The lowest level is always sanctioned, so a stop needs nobody.
LEMMA ZeroIsSanctioned == ASSUME TypeOK, Safe PROVE Sanctioned(0)
<1>1. PICK a \in approved : db <= a
  BY DEF Safe, InForceIsSanctioned, Sanctioned
<1>2. a \in Nat
  BY <1>1, LevelsAssumption DEF TypeOK, Levels
<1> QED BY <1>1, <1>2 DEF Sanctioned

LEMMA InitSafe == Init => Safe
<1> SUFFICES ASSUME Init PROVE Safe
  OBVIOUS
<1>0. \A level \in Levels : level <= level
  BY LevelsAssumption DEF Levels
<1>1. Sanctioned(db)
  BY <1>0 DEF Init, Sanctioned
<1>2. \A p \in Replicas : Sanctioned(cache[p])
  BY <1>0, InitTypeOK DEF TypeOK, Init, Sanctioned
<1> QED BY <1>1, <1>2 DEF Init, Safe, InForceIsSanctioned, CarriedIsSanctioned, RequestsAreSigned, Idle,
                   Sanctioned

LEMMA ProceedSafe ==
  ASSUME TypeOK, Safe, NEW c \in Calls, Proceed(c)
  PROVE  Safe'
<1>0. /\ call[c] \in Call
      /\ Idle.pc = "idle"
      /\ Sanctioned(db) /\ Sanctioned(0)
      /\ \A p \in Replicas : Sanctioned(cache[p])
  BY ZeroIsSanctioned DEF TypeOK, Safe, InForceIsSanctioned, Idle
<1>g. ASSUME NEW pc \in Pcs, Goto(c, pc)
      PROVE  \E new \in Call : /\ call' = [call EXCEPT ![c] = new]
                               /\ new.pc = pc /\ new.at = call[c].at /\ new.who = call[c].who
                               /\ new.value = call[c].value /\ new.by = call[c].by
  <2> DEFINE new == [call[c] EXCEPT !.pc = pc]
  <2>1. new \in Call /\ new.pc = pc /\ new.at = call[c].at /\ new.who = call[c].who
            /\ new.value = call[c].value /\ new.by = call[c].by
    BY <1>0 DEF Call
  <2>2. call' = [call EXCEPT ![c] = new]
    BY <1>g DEF Goto
  <2> HIDE DEF new
  <2> QED BY <2>1, <2>2
<1>b. {"upsert", "persist", "cacheIt", "clear", "stopWritten", "stopClear", "stopCache"} \subseteq Pcs
  BY DEF Pcs
<1>c. ASSUME NEW p, NEW level, SetCache(p, level)
      PROVE  \A q \in Replicas : cache'[q] = cache[q] \/ cache'[q] = level
  BY <1>c DEF SetCache, TypeOK
<1>1. CASE ReadPending(c)
  <2>1. UNCHANGED <<db, cache, pending, approved>> /\ call[c].who # None
    BY <1>1 DEF ReadPending, At, Safe, RequestsAreSigned
  <2>2. CASE Goto(c, "upsert")
    <3>1. PICK new \in Call : call' = [call EXCEPT ![c] = new] /\ new.pc = "upsert" /\ new.who = call[c].who
      BY <2>2, <1>b, <1>g
    <3> QED BY <2>1, <3>1, <1>0, StepIsSafe DEF Sanctioned
  <2>3. CASE Done(c)
    BY <2>1, <2>3, <1>0, StepIsSafe DEF Done, Sanctioned
  <2>4. CASE /\ pending # NoRequest /\ pending.by # call[c].who
             /\ call' = [call EXCEPT ![c].pc = "persist", ![c].by = pending.by]
    <3> DEFINE new == [call[c] EXCEPT !.pc = "persist", !.by = pending.by]
    <3>1. new.pc = "persist" /\ new.by = pending.by /\ new.who = call[c].who
      BY <1>0 DEF Call
    <3>2. call' = [call EXCEPT ![c] = new]
      BY <2>4
    <3>3. pending.by # None
      BY <2>4 DEF Safe, RequestsAreSigned
    <3> HIDE DEF new
    <3> QED BY <2>1, <2>4, <3>1, <3>2, <3>3, <1>0, StepIsSafe DEF Sanctioned
  <2> QED BY <1>1, <2>2, <2>3, <2>4 DEF ReadPending
<1>2. CASE Upsert(c)
  <2>1. call[c].who # None
    BY <1>2 DEF Upsert, At, Safe, RequestsAreSigned
  <2> QED BY <1>2, <2>1, <1>0, StepIsSafe DEF Upsert, Done, Sanctioned
<1>3. CASE Persist(c)
  <2>1. \A q \in Replicas : cache'[q] = cache[q] \/ cache'[q] = 0
    BY <1>3, <1>c DEF Persist
  <2>2. UNCHANGED pending
    BY <1>3 DEF Persist
  <2>3. CASE Fault /\ Done(c) /\ UNCHANGED <<db, approved>>
    BY <2>1, <2>2, <2>3, <1>0, StepIsSafe DEF Done, Sanctioned
  <2>4. CASE /\ db' = call[c].value /\ Goto(c, "cacheIt")
             /\ IF call[c].by \notin {None, call[c].who}
                THEN approved' = approved \cup {call[c].value} ELSE UNCHANGED approved
    <3>1. PICK new \in Call : call' = [call EXCEPT ![c] = new] /\ new.pc = "cacheIt"
                                 /\ new.value = call[c].value
      BY <2>4, <1>b, <1>g
    <3>2. call[c].value \in Nat
      BY <1>0, LevelsAssumption DEF Call, Levels
    <3>3. \E a \in approved' : call[c].value <= a
      <4>1. CASE call[c].by \in {None, call[c].who}
        BY <1>3, <2>4, <4>1 DEF Persist, At, Safe, CarriedIsSanctioned, Sanctioned
      <4>2. CASE call[c].by \notin {None, call[c].who}
        BY <2>4, <3>2, <4>2
      <4> QED BY <4>1, <4>2
    <3>4. approved \subseteq approved'
      BY <2>4
    <3>5. Sanctioned(db)'
      BY <2>4, <3>3 DEF Sanctioned
    <3> QED BY <2>1, <2>2, <3>1, <3>3, <3>4, <3>5, <1>0, StepIsSafe DEF Sanctioned
  <2> QED BY <1>3, <2>3, <2>4 DEF Persist
<1>4. CASE CacheIt(c)
  <2>1. Sanctioned(call[c].value) /\ UNCHANGED <<db, pending, approved>>
    BY <1>4 DEF CacheIt, At, Safe, CarriedIsSanctioned
  <2>2. \A q \in Replicas : cache'[q] = cache[q] \/ cache'[q] = call[c].value
    BY <1>4, <1>c DEF CacheIt
  <2>3. CASE Goto(c, "clear")
    <3>1. PICK new \in Call : call' = [call EXCEPT ![c] = new] /\ new.pc = "clear"
      BY <2>3, <1>b, <1>g
    <3> QED BY <2>1, <2>2, <3>1, <1>0, StepIsSafe DEF Sanctioned
  <2>4. CASE Done(c)
    BY <2>1, <2>2, <2>4, <1>0, StepIsSafe DEF Done, Sanctioned
  <2> QED BY <1>4, <2>3, <2>4 DEF CacheIt
<1>5. CASE Clear(c)
  BY <1>5, <1>0, StepIsSafe DEF Clear, Done, Sanctioned
<1>6. CASE StopPersist(c)
  <2>1. PICK new \in Call : call' = [call EXCEPT ![c] = new] /\ new.pc \in {"stopWritten", "stopClear"}
    BY <1>6, <1>b, <1>g DEF StopPersist
  <2>2. db' \in {0, db} /\ UNCHANGED <<cache, pending, approved>>
    BY <1>6 DEF StopPersist
  <2> QED BY <2>1, <2>2, <1>0, StepIsSafe DEF Sanctioned
<1>7. CASE StopWritten(c)
  <2>1. PICK new \in Call : call' = [call EXCEPT ![c] = new] /\ new.pc = "stopClear"
    BY <1>7, <1>b, <1>g DEF StopWritten
  <2>2. UNCHANGED <<db, pending, approved>> /\ \A q \in Replicas : cache'[q] = cache[q] \/ cache'[q] = 0
    BY <1>7, <1>c DEF StopWritten
  <2> QED BY <2>1, <2>2, <1>0, StepIsSafe DEF Sanctioned
<1>8. CASE StopClear(c)
  <2>1. PICK new \in Call : call' = [call EXCEPT ![c] = new] /\ new.pc = "stopCache"
    BY <1>8, <1>b, <1>g DEF StopClear
  <2>2. pending' \in {NoRequest, pending} /\ UNCHANGED <<db, cache, approved>>
    BY <1>8 DEF StopClear
  <2> QED BY <2>1, <2>2, <1>0, StepIsSafe DEF Sanctioned
<1>9. CASE StopCache(c)
  <2>1. UNCHANGED <<db, pending, approved>> /\ \A q \in Replicas : cache'[q] = cache[q] \/ cache'[q] = 0
    BY <1>9, <1>c DEF StopCache
  <2> QED BY <1>9, <2>1, <1>0, StepIsSafe DEF StopCache, Done, Sanctioned
<1>10. CASE Overlay(c)
  <2>1. Sanctioned(call[c].value) /\ UNCHANGED <<db, pending, approved>>
    BY <1>10 DEF Overlay, At, Safe, CarriedIsSanctioned
  <2>2. \A q \in Replicas : cache'[q] = cache[q] \/ cache'[q] = call[c].value
    BY <1>10, <1>c DEF Overlay
  <2> QED BY <1>10, <2>1, <2>2, <1>0, StepIsSafe DEF Overlay, Done, Sanctioned
<1> QED BY <1>1, <1>2, <1>3, <1>4, <1>5, <1>6, <1>7, <1>8, <1>9, <1>10 DEF Proceed

\* The local state a call begins with: the level it may write without a second operator is the
\* row's, or at most the one of its replica's copy.
Begun(new, p) ==
    /\ new.pc \in {"readPending", "persist", "overlay", "stopPersist"}
    /\ new.value \in Levels
    /\ new.pc \in {"persist", "overlay"} => new.value <= cache[p] \/ new.value = db
    /\ new.pc = "readPending" => new.who # None

LEMMA BeginShape ==
  ASSUME TypeOK, NEW c \in Calls, NEW p \in Replicas, Begin(c, p)
  PROVE  /\ Mark
         /\ UNCHANGED <<db, pending>>
         /\ \A q \in Replicas : cache'[q] = cache[q] \/ cache'[q] = 0
         /\ \E new : call' = [call EXCEPT ![c] = new] /\ Begun(new, p)
<1>0. 0 \in Levels /\ db \in Levels
  BY LevelsAssumption DEF Levels, TypeOK
<1>1. ASSUME NEW o \in Operators, NEW level \in Levels, Request(c, p, o, level)
      PROVE  \E new : call' = [call EXCEPT ![c] = new] /\ Begun(new, p)
  <2> DEFINE new == [pc |-> IF level > cache[p] THEN "readPending" ELSE "persist",
                     at |-> p, who |-> o, value |-> level, by |-> None]
  <2>1. call' = [call EXCEPT ![c] = new]
    BY <1>1 DEF Request
  <2>2. level \in Nat /\ cache[p] \in Nat
    BY LevelsAssumption DEF TypeOK, Levels
  <2>3. Begun(new, p)
    BY <2>2, NoneAssumption DEF Begun
  <2> HIDE DEF new
  <2> QED BY <2>1, <2>3
<1>2. CASE Stop(c, p)
  <2> DEFINE new == [Idle EXCEPT !.pc = "stopPersist", !.at = p]
  <2>1. call' = [call EXCEPT ![c] = new]
    BY <1>2 DEF Stop
  <2>2. Begun(new, p)
    BY <1>0 DEF Begun, Idle
  <2> HIDE DEF new
  <2>3. \E n : call' = [call EXCEPT ![c] = n] /\ Begun(n, p)
    BY <2>1, <2>2
  <2> QED BY <1>2, <2>3 DEF Stop, SetCache, TypeOK
<1>3. CASE RefreshRead(c, p)
  <2> DEFINE new == [Idle EXCEPT !.pc = "overlay", !.at = p, !.value = db]
  <2>1. call' = [call EXCEPT ![c] = new]
    BY <1>3 DEF RefreshRead
  <2>2. Begun(new, p)
    BY <1>0 DEF Begun, Idle
  <2> HIDE DEF new
  <2>3. \E n : call' = [call EXCEPT ![c] = n] /\ Begun(n, p)
    BY <2>1, <2>2
  <2> QED BY <1>3, <2>3 DEF RefreshRead
<1>4. ASSUME NEW o \in Operators, NEW level \in Levels, Request(c, p, o, level)
      PROVE  Mark /\ UNCHANGED <<db, cache, pending>>
  BY <1>4 DEF Request
<1> QED BY <1>1, <1>2, <1>3, <1>4 DEF Begin

\* The first call after the flag settled: the row's level is the only one sanctioned, and everything
\* in force or under way is at most that.
LEMMA BeginSettled ==
  ASSUME TypeOK, Settled, NEW c \in Calls, NEW p \in Replicas, Begin(c, p)
  PROVE  Safe'
<1>1. /\ Mark /\ UNCHANGED <<db, pending>>
      /\ \A q \in Replicas : cache'[q] = cache[q] \/ cache'[q] = 0
  BY BeginShape
<1>2. PICK new : call' = [call EXCEPT ![c] = new] /\ Begun(new, p)
  BY BeginShape
<1>3. db \in Nat /\ approved' = {db}
  BY <1>1, LevelsAssumption DEF Mark, TypeOK, Levels
<1>4. \A q \in Replicas : cache[q] = db
  BY DEF Settled
<1>5. InForceIsSanctioned'
  BY <1>1, <1>3, <1>4 DEF InForceIsSanctioned, Sanctioned
<1>6. \A d \in Calls : call'[d] = (IF d = c THEN new ELSE call[d]) /\ call[d].pc = "idle"
  BY <1>2 DEF TypeOK, Settled, At
<1>7. CarriedIsSanctioned'
  <2>1. new.pc \in {"persist", "overlay"} => new.value <= db
    BY <1>2, <1>3, <1>4 DEF Begun
  <2> QED BY <1>2, <1>3, <1>6, <2>1 DEF Begun, CarriedIsSanctioned, Sanctioned
<1>8. RequestsAreSigned'
  BY <1>1, <1>2, <1>6 DEF Begun, RequestsAreSigned, Settled
<1> QED BY <1>5, <1>7, <1>8 DEF Safe

LEMMA BeginSafe ==
  ASSUME TypeOK, Safe, NEW c \in Calls, NEW p \in Replicas, Begin(c, p)
  PROVE  Safe'
<1>1. CASE Settled
  BY <1>1, BeginSettled
<1>2. CASE ~Settled
  <2>1. /\ Sanctioned(db) /\ Sanctioned(0)
        /\ \A q \in Replicas : Sanctioned(cache[q])
    BY ZeroIsSanctioned DEF Safe, InForceIsSanctioned
  <2>2. /\ UNCHANGED <<db, pending, approved>>
        /\ \A q \in Replicas : cache'[q] = cache[q] \/ cache'[q] = 0
    BY <1>2, BeginShape DEF Mark
  <2>3. PICK new : call' = [call EXCEPT ![c] = new] /\ Begun(new, p)
    BY BeginShape
  <2>4. new.pc \in {"persist", "overlay"} => \E a \in approved : new.value <= a
    <3>1. PICK a \in approved, b \in approved : db <= a /\ cache[p] <= b
      BY <2>1 DEF Sanctioned
    <3>2. {a, b, db, cache[p], new.value} \subseteq Nat
      BY <2>3, LevelsAssumption DEF Begun, TypeOK, Levels
    <3> QED BY <2>3, <3>1, <3>2 DEF Begun
  <2> QED BY <2>1, <2>2, <2>3, <2>4, StepIsSafe DEF Begun, Sanctioned
<1> QED BY <1>1, <1>2

\* A process that starts again writes nothing but its copy: the row's level, or the environment's,
\* which is sanctioned from then on.  What the other processes have under way was sanctioned before,
\* or there is nothing under way.
LEMMA RestartSafe ==
  ASSUME TypeOK, Safe, NEW p \in Replicas, Restart(p)
  PROVE  Safe'
<1>1. /\ \A c \in Calls : call'[c] = call[c] \/ call'[c] = Idle
      /\ Idle.pc = "idle"
      /\ UNCHANGED <<db, pending>>
      /\ Sanctioned(db) /\ \A q \in Replicas : Sanctioned(cache[q])
  BY DEF Restart, Idle, Safe, InForceIsSanctioned
<1>2. \A level \in Levels : level <= level
  BY LevelsAssumption DEF Levels
<1>3. RequestsAreSigned'
  BY <1>1 DEF Safe, RequestsAreSigned
<1>4. CASE SetCache(p, db) /\ UNCHANGED approved
  <2>1. InForceIsSanctioned'
    BY <1>1, <1>4 DEF SetCache, TypeOK, InForceIsSanctioned, Sanctioned
  <2>2. CarriedIsSanctioned'
    BY <1>1, <1>4 DEF Safe, CarriedIsSanctioned, Sanctioned
  <2> QED BY <1>3, <2>1, <2>2 DEF Safe
<1>5. CASE /\ SetCache(p, EnvLevel)
           /\ approved' = (IF Settled THEN {db} ELSE approved) \cup {EnvLevel}
  <2>0. \A q \in Replicas : cache'[q] = cache[q] \/ cache'[q] = EnvLevel
    BY <1>5 DEF SetCache, TypeOK
  <2>1. \E a \in approved' : EnvLevel <= a
    BY <1>2, <1>5, EnvAssumption
  <2>2. CASE Settled
    <3>1. \E a \in approved' : db <= a
      BY <1>2, <1>5, <2>2 DEF TypeOK
    <3>2. \A q \in Replicas : cache[q] = db
      BY <2>2 DEF Settled
    <3>3. InForceIsSanctioned'
      BY <1>1, <2>0, <2>1, <3>1, <3>2 DEF InForceIsSanctioned, Sanctioned
    <3>4. \A c \in Calls : call'[c].pc = "idle"
      BY <1>1, <2>2 DEF Settled, At
    <3>5. CarriedIsSanctioned'
      BY <3>4 DEF CarriedIsSanctioned
    <3> QED BY <1>3, <3>3, <3>5 DEF Safe
  <2>3. CASE ~Settled
    <3>1. approved \subseteq approved'
      BY <1>5, <2>3
    <3>2. InForceIsSanctioned'
      BY <1>1, <2>0, <2>1, <3>1 DEF InForceIsSanctioned, Sanctioned
    <3>3. CarriedIsSanctioned'
      BY <1>1, <3>1 DEF Safe, CarriedIsSanctioned, Sanctioned
    <3> QED BY <1>3, <3>2, <3>3 DEF Safe
  <2> QED BY <2>2, <2>3
<1> QED BY <1>4, <1>5 DEF Restart

LEMMA NextSafe == TypeOK /\ Safe /\ [Next]_vars => Safe'
<1> SUFFICES ASSUME TypeOK, Safe, [Next]_vars PROVE Safe'
  OBVIOUS
<1>1. CASE UNCHANGED vars
  BY <1>1 DEF vars, Safe, InForceIsSanctioned, CarriedIsSanctioned, RequestsAreSigned, Sanctioned
<1>2. ASSUME NEW c \in Calls, Proceed(c) PROVE Safe'
  BY <1>2, ProceedSafe
<1>3. ASSUME NEW c \in Calls, Abort(c) PROVE Safe'
  <2>1. Idle.pc = "idle" /\ Sanctioned(db) /\ \A p \in Replicas : Sanctioned(cache[p])
    BY DEF Idle, Safe, InForceIsSanctioned
  <2> QED BY <1>3, <2>1, StepIsSafe DEF Abort, Done, Sanctioned
<1>4. ASSUME NEW c \in Calls, NEW p \in Replicas, Begin(c, p) PROVE Safe'
  BY <1>4, BeginSafe
<1>5. CASE Withdraw
  BY <1>5 DEF Withdraw, Safe, InForceIsSanctioned, CarriedIsSanctioned, RequestsAreSigned, Sanctioned
<1>6. ASSUME NEW p \in Replicas, Restart(p) PROVE Safe'
  BY <1>6, RestartSafe
<1> QED BY <1>1, <1>2, <1>3, <1>4, <1>5, <1>6 DEF Next

LEMMA SpecInvariant == Spec => []IInv
<1>1. Init => TypeOK /\ Safe
  BY InitTypeOK, InitSafe
<1>2. (TypeOK /\ Safe) /\ [Next]_vars => (TypeOK /\ Safe)'
  BY NextTypeOK, NextSafe
<1>3. TypeOK /\ Safe => IInv
  BY DEF IInv, Safe
<1> QED BY <1>1, <1>2, <1>3, PTL DEF Spec

\* Stale copies, lost writes, withdrawn requests, stops, restarts and concurrent confirmations never
\* bring a level in force, in the row or in a copy, above all of: the one at which the flag last
\* settled, those two different operators agreed on since, and the environment's if a process
\* started since without reading the row.
THEOREM NothingRisesAlone == Spec => []InForceIsSanctioned
<1>1. IInv => InForceIsSanctioned
  BY DEF IInv
<1> QED BY <1>1, SpecInvariant, PTL
====
