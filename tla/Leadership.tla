---- MODULE Leadership ----
(***************************************************************************)
(* Which replica runs the scheduled jobs: a session-level advisory lock of *)
(* Postgres, held on a connection of its own, and the flag that resumes or *)
(* pauses the jobs.  Translated from backend/app/db/leader.py, scheduler.py*)
(* (job_leadership, start, shutdown) and the lifespan of main.py.          *)
(*                                                                         *)
(* The lock belongs to the server.  A replica learns that it lost its      *)
(* connection only when its next leadership job asks, and the server may   *)
(* learn it earlier or later than that, so a replica can lead without the  *)
(* lock and the lock can be held by nobody alive.                          *)
(***************************************************************************)
EXTENDS Naturals, FiniteSets

CONSTANTS
    Replicas,
    MaxFaults,     \* bound on lost connections, crashes, shutdowns and errors
    None,
    Orphan         \* the holder of a lock whose client has given the connection up

ASSUME ReplicasAssumption == None \notin Replicas /\ Orphan \notin Replicas /\ None # Orphan
ASSUME FaultsAssumption == MaxFaults \in Nat

VARIABLES
    proc,       \* the process of each replica
    session,    \* _conn: none, open, or open for the client only
    lock,       \* whose session holds LOCK_KEY on the server
    led,        \* _state["leader"]: the jobs of LEADER_ONLY_JOBS are resumed
    faults

leaderVars == <<proc, session, lock, led, faults>>

LeaderTypeOK ==
    /\ proc \in [Replicas -> {"down", "up", "stopping"}]
    /\ session \in [Replicas -> {"none", "open", "dead"}]
    /\ lock \in Replicas \cup {None, Orphan}
    /\ led \in [Replicas -> BOOLEAN]
    /\ faults \in 0..MaxFaults

LeaderInit ==
    /\ proc = [r \in Replicas |-> "down"]
    /\ session = [r \in Replicas |-> "none"]
    /\ lock = None
    /\ led = [r \in Replicas |-> FALSE]
    /\ faults = 0

Fault == faults < MaxFaults /\ faults' = faults + 1

\* What becomes of the lock when r gives up its connection: closing an open one releases it, a dead
\* one stays with the server until that notices.
Released(r) == IF lock # r THEN lock ELSE IF session[r] = "open" THEN None ELSE Orphan

----
\* The jobs of a new process start paused, whatever the process before it did.
StartUp(r) ==
    /\ proc[r] = "down"
    /\ proc' = [proc EXCEPT ![r] = "up"]
    /\ led' = [led EXCEPT ![r] = FALSE]
    /\ UNCHANGED <<session, lock, faults>>

\* job_leadership without a connection, or with one it knows to be closed: connect and try the lock.
\* If it is held, everything stays as it is, or is as after Confirm.
Acquire(r) ==
    /\ proc[r] = "up" /\ session[r] # "open" /\ lock = None
    /\ session' = [session EXCEPT ![r] = "open"]
    /\ lock' = r
    /\ led' = [led EXCEPT ![r] = TRUE]
    /\ UNCHANGED <<proc, faults>>

\* The lock was granted, but the connection broke before the answer came.
AcquireUnheard(r) ==
    /\ proc[r] = "up" /\ session[r] # "open" /\ lock = None /\ Fault
    /\ session' = [session EXCEPT ![r] = "none"]
    /\ lock' = Orphan
    /\ led' = [led EXCEPT ![r] = FALSE]
    /\ UNCHANGED proc

\* job_leadership with a dead connection: SELECT 1 fails, the connection is given up and the work
\* jobs are paused.  On a live connection it confirms and changes nothing.
Confirm(r) ==
    /\ proc[r] = "up" /\ session[r] = "dead"
    /\ session' = [session EXCEPT ![r] = "none"]
    /\ lock' = Released(r)
    /\ led' = [led EXCEPT ![r] = FALSE]
    /\ UNCHANGED <<proc, faults>>

\* Seeded fault: the lock is released and the scheduler runs on.
ShutdownUnpaused(r) ==
    /\ proc[r] = "up" /\ Fault
    /\ session' = [session EXCEPT ![r] = "none"]
    /\ lock' = Released(r)
    /\ UNCHANGED <<proc, led>>

\* shutdown: the scheduler stops without waiting for the jobs that run, then the lock is released.
Shutdown(r) ==
    /\ proc[r] = "up" /\ Fault
    /\ proc' = [proc EXCEPT ![r] = "stopping"]
    /\ session' = [session EXCEPT ![r] = "none"]
    /\ lock' = Released(r)
    /\ UNCHANGED led

Exit(r) ==
    /\ proc[r] = "stopping"
    /\ proc' = [proc EXCEPT ![r] = "down"]
    /\ UNCHANGED <<session, lock, led, faults>>

Kill(r) ==
    /\ proc[r] # "down" /\ Fault
    /\ proc' = [proc EXCEPT ![r] = "down"]
    /\ session' = [session EXCEPT ![r] = "none"]
    /\ lock' = IF lock = r THEN Orphan ELSE lock
    /\ UNCHANGED led

\* The connection is lost; the client does not know.
Cut(r) ==
    /\ session[r] = "open" /\ Fault
    /\ session' = [session EXCEPT ![r] = "dead"]
    /\ UNCHANGED <<proc, lock, led>>

\* The server ends a session whose client is gone, and with it the lock.
ServerDrop ==
    /\ lock = Orphan \/ \E r \in Replicas : lock = r /\ session[r] = "dead"
    /\ lock' = None
    /\ UNCHANGED <<proc, session, led, faults>>

----
\* Properties.

\* "Only the holder of a Postgres advisory lock runs the jobs" (README.md), as far as the code can
\* know: a replica whose jobs are resumed holds the lock, or has lost its connection and not yet
\* asked.  So of two replicas that run jobs, one has lost its connection.
LeaderHoldsLock ==
    \A r \in Replicas : proc[r] = "up" /\ led[r] => lock = r \/ session[r] = "dead"
====
