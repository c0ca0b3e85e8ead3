---- MODULE RuntimeConfig ----
(***************************************************************************)
(* One safety flag in every replica: its copy in memory, its row in        *)
(* system_config, the two-person request that may raise it, the emergency  *)
(* stop and the refreshes that overlay the row on the copies.  Translated  *)
(* from backend/app/services/runtime_config.py and api/system.py.          *)
(*                                                                         *)
(* A flag is a level: the higher, the more the agent may do.  A Boolean    *)
(* flag has levels 0 and 1 (automation enabled, dry-run off); a cap has    *)
(* more.  _is_unsafe or the same-value shortcut of request_change then     *)
(* both read: a request needs a second operator exactly if it is higher    *)
(* than this replica's copy.  REQUIRE_TWO_PERSON_CONFIG is on and          *)
(* TWO_PERSON_MODE is the default.                                         *)
(*                                                                         *)
(* A call is one request, stop or refresh in one replica; each of its      *)
(* database accesses and writes to the copy is a step.  A process starts   *)
(* from the environment's level and goes on with it if it cannot read the  *)
(* row.                                                                    *)
(***************************************************************************)
EXTENDS Naturals

CONSTANTS
    Replicas, Operators,
    Calls,        \* concurrent calls, over all replicas
    MaxLevel,     \* 1 for a Boolean flag
    EnvLevel,     \* the level in the environment of every replica
    MaxFaults,    \* bound on crashes, restarts and failed database writes
    None

ASSUME LevelsAssumption == MaxLevel \in Nat \ {0} /\ MaxFaults \in Nat
ASSUME NoneAssumption == None \notin Operators \cup Replicas

Levels == 0..MaxLevel
ASSUME EnvAssumption == EnvLevel \in Levels
Pcs == {"idle", "readPending", "upsert", "persist", "cacheIt", "clear",
        "stopPersist", "stopWritten", "stopClear", "stopCache", "overlay"}

Idle == [pc |-> "idle", at |-> None, who |-> None, value |-> 0, by |-> None]
NoRequest == [by |-> None, value |-> 0]

VARIABLES
    db,         \* the flag's row in system_config
    cache,      \* cache[p]: replica p's copy
    pending,    \* the PENDING: row
    call,       \* local state of each call
    approved,   \* since the flag was last settled: the level it had, those two operators agreed on,
                \* and EnvLevel once a process started without the row
    faults

vars == <<db, cache, pending, call, approved, faults>>

Call == [pc : Pcs, at : Replicas \cup {None}, who : Operators \cup {None}, value : Levels,
         by : Operators \cup {None}]

TypeOK ==
    /\ db \in Levels
    /\ cache \in [Replicas -> Levels]
    /\ pending \in [by : Operators \cup {None}, value : Levels]
    /\ call \in [Calls -> Call]
    /\ approved \subseteq Levels
    /\ faults \in 0..MaxFaults

\* Each process has read the row, or could not.
Init ==
    /\ db \in Levels
    /\ cache \in [Replicas -> {db, EnvLevel}]
    /\ pending = NoRequest
    /\ call = [c \in Calls |-> Idle]
    /\ approved = {db} \cup {cache[p] : p \in Replicas}
    /\ faults = 0

----
At(c, pc) == call[c].pc = pc
Goto(c, pc) == call' = [call EXCEPT ![c].pc = pc]
Done(c) == call' = [call EXCEPT ![c] = Idle]
Fault == faults < MaxFaults /\ faults' = faults + 1
SetCache(p, level) == cache' = [cache EXCEPT ![p] = level]

\* Nothing says that the level may change: all copies have the row's, no request, no call under way.
Settled ==
    /\ \A p \in Replicas : cache[p] = db
    /\ pending = NoRequest /\ \A c \in Calls : At(c, "idle")

Mark == approved' = IF Settled THEN {db} ELSE approved

\* request_change.  A level that is not above this replica's copy is applied at once.
Request(c, p, o, level) ==
    /\ At(c, "idle")
    /\ call' = [call EXCEPT ![c] = [pc |-> IF level > cache[p] THEN "readPending" ELSE "persist",
                                    at |-> p, who |-> o, value |-> level, by |-> None]]
    /\ Mark /\ UNCHANGED <<db, cache, pending, faults>>

\* Seeded fault: the requester's own repetition counts as the second operator's.
ReadPendingSelf(c) ==
    /\ At(c, "readPending")
    /\ IF pending = NoRequest \/ pending.value # call[c].value THEN Goto(c, "upsert")
       ELSE call' = [call EXCEPT ![c].pc = "persist", ![c].by = pending.by]
    /\ UNCHANGED <<db, cache, pending, approved, faults>>

\* _pending_request and check_confirmer: a live request for the same level by another operator
\* is confirmed; the requester is refused; otherwise this becomes the request.
ReadPending(c) ==
    /\ At(c, "readPending")
    /\ IF pending = NoRequest \/ pending.value # call[c].value THEN Goto(c, "upsert")
       ELSE IF pending.by = call[c].who THEN Done(c)
       ELSE call' = [call EXCEPT ![c].pc = "persist", ![c].by = pending.by]
    /\ UNCHANGED <<db, cache, pending, approved, faults>>

Upsert(c) ==
    /\ At(c, "upsert")
    /\ pending' = [by |-> call[c].who, value |-> call[c].value]
    /\ Done(c)
    /\ UNCHANGED <<db, cache, approved, faults>>

\* set_flag: a Boolean turned the safe way takes effect here even if the write fails.
Persist(c) ==
    LET level == call[c].value IN
    /\ At(c, "persist")
    /\ IF MaxLevel = 1 /\ level = 0 THEN SetCache(call[c].at, 0) ELSE UNCHANGED cache
    /\ \/ /\ db' = level
          /\ Goto(c, "cacheIt")
          /\ IF call[c].by \notin {None, call[c].who}
             THEN approved' = approved \cup {level} ELSE UNCHANGED approved
          /\ UNCHANGED faults
       \/ Fault /\ Done(c) /\ UNCHANGED <<db, approved>>
    /\ UNCHANGED pending

CacheIt(c) ==
    /\ At(c, "cacheIt")
    /\ SetCache(call[c].at, call[c].value)
    /\ IF call[c].by # None THEN Goto(c, "clear") ELSE Done(c)
    /\ UNCHANGED <<db, pending, approved, faults>>

\* _clear_pending, which deletes whatever request is there by now.
Clear(c) ==
    /\ At(c, "clear")
    /\ \/ pending' = NoRequest /\ UNCHANGED faults
       \/ Fault /\ UNCHANGED pending
    /\ Done(c)
    /\ UNCHANGED <<db, cache, approved>>

\* cancel_pending, or PENDING_TTL has passed.
Withdraw ==
    /\ pending # NoRequest /\ pending' = NoRequest
    /\ UNCHANGED <<db, cache, call, approved, faults>>

----
\* emergency_stop (of GLOBAL_AUTOMATION_ENABLED, a Boolean).

Stop(c, p) ==
    /\ MaxLevel = 1 /\ At(c, "idle")
    /\ SetCache(p, 0)
    /\ call' = [call EXCEPT ![c] = [Idle EXCEPT !.pc = "stopPersist", !.at = p]]
    /\ Mark /\ UNCHANGED <<db, pending, faults>>

\* A failed write leaves the copy as it is by now; a write that went through sets it again.
StopPersist(c) ==
    /\ At(c, "stopPersist")
    /\ \/ db' = 0 /\ Goto(c, "stopWritten") /\ UNCHANGED faults
       \/ Fault /\ Goto(c, "stopClear") /\ UNCHANGED db
    /\ UNCHANGED <<cache, pending, approved>>

StopWritten(c) ==
    /\ At(c, "stopWritten")
    /\ SetCache(call[c].at, 0) /\ Goto(c, "stopClear")
    /\ UNCHANGED <<db, pending, approved, faults>>

StopClear(c) ==
    /\ At(c, "stopClear")
    /\ \/ pending' = NoRequest /\ UNCHANGED faults
       \/ Fault /\ UNCHANGED pending
    /\ Goto(c, "stopCache")
    /\ UNCHANGED <<db, cache, approved>>

StopCache(c) ==
    /\ At(c, "stopCache")
    /\ SetCache(call[c].at, 0)
    /\ Done(c)
    /\ UNCHANGED <<db, pending, approved, faults>>

----
\* refresh_from_db: by the minute job, a configuration page or an execution's gate.

\* Seeded fault: a row that cannot be parsed is passed on as it is.
RefreshReadRaw(c, p) ==
    /\ At(c, "idle")
    /\ \E level \in {db, None} :
        call' = [call EXCEPT ![c] = [Idle EXCEPT !.pc = "overlay", !.at = p, !.value = level]]
    /\ Mark /\ UNCHANGED <<db, cache, pending, faults>>

RefreshRead(c, p) ==
    /\ At(c, "idle")
    /\ call' = [call EXCEPT ![c] = [Idle EXCEPT !.pc = "overlay", !.at = p, !.value = db]]
    /\ Mark /\ UNCHANGED <<db, cache, pending, faults>>

\* Seeded fault: a refresh only ever lowers the copy.
OverlayLower(c) ==
    /\ At(c, "overlay")
    /\ IF call[c].value < cache[call[c].at] THEN SetCache(call[c].at, call[c].value) ELSE UNCHANGED cache
    /\ Done(c)
    /\ UNCHANGED <<db, pending, approved, faults>>

Overlay(c) ==
    /\ At(c, "overlay")
    /\ SetCache(call[c].at, call[c].value)
    /\ Done(c)
    /\ UNCHANGED <<db, pending, approved, faults>>

\* A database access raises: the call ends there.
Abort(c) ==
    /\ ~At(c, "idle") /\ Fault /\ Done(c)
    /\ UNCHANGED <<db, cache, pending, approved>>

\* The process of p dies with all it had under way and starts again: load_from_env, then
\* refresh_from_db before it serves anything.  A refresh that fails is ignored.
Restart(p) ==
    /\ Fault
    /\ call' = [c \in Calls |-> IF call[c].at = p THEN Idle ELSE call[c]]
    /\ \/ SetCache(p, db) /\ UNCHANGED approved
       \/ /\ SetCache(p, EnvLevel)
          /\ approved' = (IF Settled THEN {db} ELSE approved) \cup {EnvLevel}
    /\ UNCHANGED <<db, pending>>

Proceed(c) ==
    \/ ReadPending(c) \/ Upsert(c) \/ Persist(c) \/ CacheIt(c) \/ Clear(c)
    \/ StopPersist(c) \/ StopWritten(c) \/ StopClear(c) \/ StopCache(c) \/ Overlay(c)

Begin(c, p) ==
    \/ \E o \in Operators, level \in Levels : Request(c, p, o, level)
    \/ Stop(c, p) \/ RefreshRead(c, p)

Next ==
    \/ \E c \in Calls : Proceed(c) \/ Abort(c) \/ \E p \in Replicas : Begin(c, p)
    \/ \E p \in Replicas : Restart(p)
    \/ Withdraw

Spec == Init /\ [][Next]_vars

\* A call that has begun goes on unless it or its process dies; each replica's refresh job runs every minute.
Fairness ==
    /\ \A c \in Calls : WF_vars(Proceed(c))
    /\ \A p \in Replicas : SF_vars(\E c \in Calls : RefreshRead(c, p))

FairSpec == Spec /\ Fairness

----
\* Properties.

\* Since the flag was last settled (all copies at the row's level, no request, no call under way) no
\* level is in force anywhere, in the row or in a replica's copy, above all of: the one it had then,
\* those that two different operators agreed on since, and the environment's if a process started
\* since without reading the row.  Stale copies, lost writes, withdrawn requests, restarts and
\* concurrent confirmations can bring back a level from since the flag settled, never one from before
\* that.  So automation that was stopped everywhere, and is off in the environment, stays off until
\* two operators enable it.
Sanctioned(level) == \E a \in approved : level <= a

InForceIsSanctioned == Sanctioned(db) /\ \A p \in Replicas : Sanctioned(cache[p])

\* Every replica ends up with the level in the database once that stays put, whatever stale reads,
\* stops, crashes and restarts came before.
CopiesConverge ==
    \A level \in Levels : <>[](db = level) => <>[](\A p \in Replicas : cache[p] = level)
====
