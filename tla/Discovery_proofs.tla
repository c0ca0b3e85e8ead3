---- MODULE Discovery_proofs ----
(***************************************************************************)
(* Proofs about Leadership and the two modules on top of it, Discovery and *)
(* JobReports, for any number of replicas, regions, resources, discoveries *)
(* and faults: types, that jobs run only where the lock is or was held,    *)
(* that a row is marked deleted only if its resource was missing at some   *)
(* moment of the discovery that marks it, and that an inventory which      *)
(* agrees with the cloud goes wrong only through a change in the cloud.    *)
(*                                                                         *)
(* That of deletions is about what a discovery decided earlier, from a     *)
(* listing made earlier still.  The inductive invariant therefore says, of *)
(* every stage of a discovery, that what the listing has passed over so    *)
(* far was missing (RunOK).                                                *)
(***************************************************************************)
EXTENDS Discovery, TLAPS

\* What a step of leadership or of the server may be.
LeaderStep(r) ==
    StartUp(r) \/ Acquire(r) \/ AcquireUnheard(r) \/ Confirm(r) \/ Shutdown(r) \/ Exit(r) \/ Kill(r) \/ Cut(r)

\* A session that is open holds the lock; jobs that are resumed have, or had, a session.
Sessions ==
    /\ \A r \in Replicas : session[r] = "open" => lock = r
    /\ \A r \in Replicas : proc[r] = "up" /\ led[r] => session[r] # "none"

\* What a listing has passed over was not there.
Covered(j, n) == Own(n) \in run[j].found \/ n \in run[j].missing

\* A discovery under way knows what does not exist, has covered what it passed over, and is about to
\* mark nothing deleted that was there all the time.
RunOK(j) ==
    /\ ~At(j, "idle") => Resources \ cloud \subseteq run[j].missing
    /\ At(j, "list") /\ kind = "regional" => \A n \in Resources : Home[n] \notin run[j].left => Covered(j, n)
    /\ At(j, "list") /\ kind = "bucket" => run[j].left = {Default}
    /\ At(j, "read") => \A n \in Resources : Covered(j, n)
    /\ \A n \in Resources : Own(n) \in run[j].gone => n \in run[j].missing

RunsOK == \A j \in Runs : RunOK(j)

IInv == TypeOK /\ Sessions /\ RunsOK

USE ReplicasAssumption, FaultsAssumption, RegionsAssumption, KindsAssumption

----
\* Leadership.

LEMMA LeaderTypes ==
    ASSUME LeaderTypeOK, (\E r \in Replicas : LeaderStep(r)) \/ ServerDrop
    PROVE  LeaderTypeOK'
<1>1. ASSUME NEW r \in Replicas, LeaderStep(r) PROVE LeaderTypeOK'
  <2>1. CASE StartUp(r) BY <2>1 DEF LeaderTypeOK, StartUp
  <2>2. CASE Acquire(r) BY <2>2 DEF LeaderTypeOK, Acquire
  <2>3. CASE AcquireUnheard(r) BY <2>3 DEF LeaderTypeOK, AcquireUnheard, Fault
  <2>4. CASE Confirm(r) BY <2>4 DEF LeaderTypeOK, Confirm, Released
  <2>5. CASE Shutdown(r) BY <2>5 DEF LeaderTypeOK, Shutdown, Released, Fault
  <2>6. CASE Exit(r) BY <2>6 DEF LeaderTypeOK, Exit
  <2>7. CASE Kill(r) BY <2>7 DEF LeaderTypeOK, Kill, Fault
  <2>8. CASE Cut(r) BY <2>8 DEF LeaderTypeOK, Cut, Fault
  <2> QED BY <1>1, <2>1, <2>2, <2>3, <2>4, <2>5, <2>6, <2>7, <2>8 DEF LeaderStep
<1>2. CASE ServerDrop BY <1>2 DEF LeaderTypeOK, ServerDrop
<1> QED BY <1>1, <1>2

LEMMA SessionsStep ==
    ASSUME LeaderTypeOK, Sessions, (\E r \in Replicas : LeaderStep(r)) \/ ServerDrop
    PROVE  Sessions'
<1>1. ASSUME NEW r \in Replicas, LeaderStep(r) PROVE Sessions'
  <2>1. CASE StartUp(r) BY <2>1 DEF LeaderTypeOK, Sessions, StartUp
  <2>2. CASE Acquire(r) BY <2>2 DEF LeaderTypeOK, Sessions, Acquire
  <2>3. CASE AcquireUnheard(r) BY <2>3 DEF LeaderTypeOK, Sessions, AcquireUnheard
  <2>4. CASE Confirm(r) BY <2>4 DEF LeaderTypeOK, Sessions, Confirm, Released
  <2>5. CASE Shutdown(r) BY <2>5 DEF LeaderTypeOK, Sessions, Shutdown, Released
  <2>6. CASE Exit(r) BY <2>6 DEF LeaderTypeOK, Sessions, Exit
  <2>7. CASE Kill(r) BY <2>7 DEF LeaderTypeOK, Sessions, Kill
  <2>8. CASE Cut(r) BY <2>8 DEF LeaderTypeOK, Sessions, Cut
  <2> QED BY <1>1, <2>1, <2>2, <2>3, <2>4, <2>5, <2>6, <2>7, <2>8 DEF LeaderStep
<1>2. CASE ServerDrop BY <1>2 DEF LeaderTypeOK, Sessions, ServerDrop
<1> QED BY <1>1, <1>2

----
\* Type correctness of the inventory and of the discoveries.

LEMMA IdleType == Idle \in RunStates
  BY DEF Idle, RunStates

LEMMA OwnType == ASSUME NEW n \in Resources PROVE Own(n) \in Keys
  BY DEF Own, Keys

LEMMA RunType ==
    ASSUME TypeOK, NEW j \in Runs
    PROVE  /\ run[j] \in RunStates
           /\ run[j].pc \in {"idle", "list", "read", "write"} /\ run[j].left \subseteq Regions
           /\ run[j].found \subseteq Keys /\ run[j].inserts \subseteq Keys /\ run[j].updates \subseteq Keys
           /\ run[j].gone \subseteq Keys /\ run[j].missing \subseteq Resources
  BY DEF TypeOK, RunStates

LEMMA FaultType == ASSUME LeaderTypeOK, Fault PROVE faults' \in 0..MaxFaults
  BY DEF LeaderTypeOK, Fault

LEMMA ListedType ==
    ASSUME TypeOK, NEW j \in Runs, NEW region \in Regions, NEW keys \in SUBSET Keys,
           NEW misplaced \in SUBSET Resources, Listed(j, region, keys, misplaced)
    PROVE  run' \in [Runs -> RunStates]
<1>1. [run[j] EXCEPT !.found = @ \cup keys, !.missing = @ \cup misplaced, !.left = @ \ {region},
                     !.pc = IF run[j].left = {region} THEN "read" ELSE "list"] \in RunStates
  BY RunType DEF RunStates
<1>2. run' = [run EXCEPT ![j] = [run[j] EXCEPT !.found = @ \cup keys, !.missing = @ \cup misplaced,
                     !.left = @ \ {region}, !.pc = IF run[j].left = {region} THEN "read" ELSE "list"]]
  BY DEF Listed
<1> QED BY <1>1, <1>2 DEF TypeOK

LEMMA ListRegionType == ASSUME TypeOK, NEW j \in Runs, ListRegion(j) PROVE TypeOK'
<1>1. PICK region \in run[j].left :
         Listed(j, region, {Own(n) : n \in {m \in cloud : Home[m] = region}}, {})
  BY DEF ListRegion
<1>2. region \in Regions /\ {Own(n) : n \in {m \in cloud : Home[m] = region}} \in SUBSET Keys
  BY RunType, OwnType DEF TypeOK
<1>3. run' \in [Runs -> RunStates]
  BY <1>1, <1>2, ListedType
<1> QED BY <1>3 DEF TypeOK, ListRegion, leaderVars, LeaderTypeOK

LEMMA ListBucketsType == ASSUME TypeOK, NEW j \in Runs, ListBuckets(j) PROVE TypeOK'
<1>1. PICK unread \in SUBSET cloud :
         /\ IF unread = {} THEN UNCHANGED faults ELSE Fault
         /\ Listed(j, Default, {Own(n) : n \in cloud \ unread} \cup {<<Default, n>> : n \in unread},
                   {n \in unread : Home[n] # Default})
  BY DEF ListBuckets
<1>2. /\ {Own(n) : n \in cloud \ unread} \cup {<<Default, n>> : n \in unread} \in SUBSET Keys
      /\ {n \in unread : Home[n] # Default} \in SUBSET Resources
  BY OwnType DEF TypeOK, Keys
<1>3. run' \in [Runs -> RunStates]
  BY <1>1, <1>2, ListedType
<1>4. faults' \in 0..MaxFaults
  BY <1>1, FaultType DEF TypeOK, LeaderTypeOK
<1> QED BY <1>3, <1>4 DEF TypeOK, ListBuckets, LeaderTypeOK

LEMMA ReadType == ASSUME TypeOK, NEW j \in Runs, Read(j) PROVE TypeOK'
<1> DEFINE existing == {k \in Keys : rows[k] # "none"}
<1> DEFINE next == [Idle EXCEPT !.pc = "write", !.missing = run[j].missing,
                      !.inserts = run[j].found \ existing, !.updates = run[j].found \cap existing,
                      !.gone = {k \in existing \ run[j].found : rows[k] # "deleted"}]
<1>1. next \in RunStates
  BY RunType DEF Idle, RunStates
<1>2. run' = [run EXCEPT ![j] = next]
  BY DEF Read
<1>3. run' \in [Runs -> RunStates]
  BY <1>1, <1>2 DEF TypeOK
<1> QED BY <1>3 DEF TypeOK, Read, leaderVars, LeaderTypeOK

LEMMA WriteType ==
    ASSUME TypeOK, NEW j \in Runs, Insert(j) \/ Update(j) \/ MarkGone(j) \/ Finish(j)
    PROVE  TypeOK'
<1>1. CASE Insert(j)
  <2>1. [run[j] EXCEPT !.inserts = {}] \in RunStates BY RunType DEF RunStates
  <2> QED BY <1>1, <2>1 DEF Insert, Upsert, TypeOK, leaderVars, LeaderTypeOK
<1>2. CASE Update(j)
  <2>1. [run[j] EXCEPT !.updates = {}] \in RunStates BY RunType DEF RunStates
  <2> QED BY <1>2, <2>1 DEF Update, Upsert, TypeOK, leaderVars, LeaderTypeOK
<1>3. CASE MarkGone(j)
  <2>1. PICK k \in run[j].gone : /\ rows' = [rows EXCEPT ![k] = "deleted"]
                                 /\ run' = [run EXCEPT ![j].gone = @ \ {k}]
    BY <1>3 DEF MarkGone
  <2>2. [run[j] EXCEPT !.gone = @ \ {k}] \in RunStates BY RunType DEF RunStates
  <2>3. run' = [run EXCEPT ![j] = [run[j] EXCEPT !.gone = @ \ {k}]] BY <2>1
  <2>4. run' \in [Runs -> RunStates] BY <2>2, <2>3 DEF TypeOK
  <2>5. rows' \in [Keys -> {"none", "live", "deleted"}] BY <2>1 DEF TypeOK
  <2> QED BY <1>3, <2>4, <2>5 DEF MarkGone, TypeOK, leaderVars, LeaderTypeOK
<1>4. CASE Finish(j)
  BY <1>4, IdleType DEF Finish, Done, TypeOK, leaderVars, LeaderTypeOK
<1> QED BY <1>1, <1>2, <1>3, <1>4

LEMMA BeginType == ASSUME TypeOK, NEW j \in Runs, Begin(j) PROVE TypeOK'
<1> DEFINE next == [Idle EXCEPT !.pc = "list", !.missing = Resources \ cloud,
                                !.left = IF kind = "bucket" THEN {Default} ELSE Regions]
<1>1. next \in RunStates
  BY DEF Idle, RunStates
<1>2. run' = [run EXCEPT ![j] = next]
  BY DEF Begin
<1> QED BY <1>1, <1>2 DEF Begin, TypeOK, leaderVars, LeaderTypeOK

LEMMA ChangeType == ASSUME TypeOK, NEW n \in Resources, Change(n) PROVE TypeOK'
<1>1. ASSUME NEW j \in Runs PROVE [run[j] EXCEPT !.missing = @ \cup {n}] \in RunStates
  BY RunType DEF RunStates
<1>2. run' \in [Runs -> RunStates]
  BY <1>1 DEF Change, TypeOK
<1>3. changes' \in 0..MaxChanges
  BY BoundsAssumption DEF Change, TypeOK
<1> QED BY <1>2, <1>3 DEF Change, TypeOK, leaderVars, LeaderTypeOK

LEMMA LeadersType ==
    ASSUME TypeOK, (\E r \in Replicas : Lead(r) \/ Leave(r) \/ Crash(r)) \/ Drop
    PROVE  TypeOK'
<1>1. (\E r \in Replicas : LeaderStep(r)) \/ ServerDrop
  BY DEF Lead, Leave, Crash, Drop, LeaderStep
<1>2. LeaderTypeOK'
  BY <1>1, LeaderTypes DEF TypeOK
<1>3. run' \in [Runs -> RunStates] /\ UNCHANGED <<kind, cloud, rows, changes>>
  BY IdleType DEF Lead, Leave, Crash, Drop, TypeOK
<1> QED BY <1>2, <1>3 DEF TypeOK

LEMMA FailType == ASSUME TypeOK, NEW j \in Runs, Fail(j) PROVE TypeOK'
<1>1. faults' \in 0..MaxFaults
  BY FaultType DEF Fail, TypeOK
<1> QED BY <1>1, IdleType DEF Fail, Done, TypeOK, LeaderTypeOK

LEMMA TypeStep == ASSUME TypeOK, [Next]_vars PROVE TypeOK'
<1>1. CASE (\E r \in Replicas : Lead(r) \/ Leave(r) \/ Crash(r)) \/ Drop
  BY <1>1, LeadersType
<1>2. ASSUME NEW j \in Runs, Begin(j) \/ Proceed(j) \/ Fail(j) PROVE TypeOK'
  BY <1>2, BeginType, ListRegionType, ListBucketsType, ReadType, WriteType, FailType DEF Proceed
<1>3. ASSUME NEW n \in Resources, Change(n) PROVE TypeOK'
  BY <1>3, ChangeType
<1>4. CASE UNCHANGED vars
  BY <1>4 DEF vars, TypeOK, LeaderTypeOK
<1> QED BY <1>1, <1>2, <1>3, <1>4 DEF Next

----
\* The sessions.

LEMMA SessionsKept ==
    ASSUME TypeOK, Sessions, [Next]_vars
    PROVE  Sessions'
<1>1. CASE (\E r \in Replicas : Lead(r) \/ Leave(r) \/ Crash(r)) \/ Drop
  <2>1. (\E r \in Replicas : LeaderStep(r)) \/ ServerDrop
    BY <1>1 DEF Lead, Leave, Crash, Drop, LeaderStep
  <2> QED BY <2>1, SessionsStep DEF TypeOK
<1>2. CASE UNCHANGED <<proc, session, lock, led>>
  BY <1>2 DEF Sessions
<1>3. ASSUME NEW j \in Runs, Begin(j) \/ Proceed(j) \/ Fail(j) PROVE UNCHANGED <<proc, session, lock, led>>
  BY <1>3 DEF Begin, Proceed, Fail, ListRegion, ListBuckets, Read, Insert, Update, MarkGone, Finish, leaderVars
<1>4. ASSUME NEW n \in Resources, Change(n) PROVE UNCHANGED <<proc, session, lock, led>>
  BY <1>4 DEF Change, leaderVars
<1>5. CASE UNCHANGED vars
  BY <1>5, <1>2 DEF vars
<1> QED BY <1>1, <1>2, <1>3, <1>4, <1>5 DEF Next

----
\* The discoveries.

LEMMA OneMoves ==
    ASSUME RunsOK, NEW j \in Runs, UNCHANGED <<kind, cloud>>,
           \A i \in Runs \ {j} : run'[i] = run[i], RunOK(j)'
    PROVE  RunsOK'
<1> SUFFICES ASSUME NEW i \in Runs, i # j PROVE RunOK(i)'
  BY DEF RunsOK
<1>1. RunOK(i) /\ run'[i] = run[i] BY DEF RunsOK
<1> QED BY <1>1 DEF RunOK, At, Covered, Own

LEMMA IdleIsOK ==
    ASSUME NEW j \in Runs, run'[j] = Idle
    PROVE  RunOK(j)'
  BY DEF RunOK, At, Idle

LEMMA BeginOK == ASSUME TypeOK, RunsOK, NEW j \in Runs, Begin(j) PROVE RunsOK'
<1>1. /\ run'[j].pc = "list" /\ run'[j].missing = Resources \ cloud /\ run'[j].gone = {}
      /\ run'[j].left = IF kind = "bucket" THEN {Default} ELSE Regions
      /\ \A i \in Runs \ {j} : run'[i] = run[i]
      /\ UNCHANGED <<kind, cloud>>
  BY DEF Begin, TypeOK, Idle
<1>2. \A n \in Resources : Home[n] \in Regions
  BY RegionsAssumption
<1>3. RunOK(j)'
  BY <1>1, <1>2 DEF RunOK, At
<1> QED BY <1>1, <1>3, OneMoves

LEMMA ListedStep ==
    ASSUME TypeOK, NEW j \in Runs, NEW region, NEW keys, NEW misplaced, Listed(j, region, keys, misplaced)
    PROVE  /\ run'[j].found = run[j].found \cup keys /\ run'[j].missing = run[j].missing \cup misplaced
           /\ run'[j].left = run[j].left \ {region} /\ run'[j].gone = run[j].gone
           /\ run'[j].pc = IF run[j].left = {region} THEN "read" ELSE "list"
           /\ \A i \in Runs \ {j} : run'[i] = run[i]
  BY RunType DEF Listed, TypeOK, RunStates

LEMMA ListRegionOK == ASSUME TypeOK, RunsOK, NEW j \in Runs, ListRegion(j) PROVE RunsOK'
<1> DEFINE keys(region) == {Own(n) : n \in {m \in cloud : Home[m] = region}}
<1>1. PICK region \in run[j].left : Listed(j, region, keys(region), {})
  BY DEF ListRegion
<1>a. /\ run'[j].found = run[j].found \cup keys(region) /\ run'[j].missing = run[j].missing \cup {}
      /\ run'[j].left = run[j].left \ {region} /\ run'[j].gone = run[j].gone
      /\ run'[j].pc = IF run[j].left = {region} THEN "read" ELSE "list"
      /\ \A i \in Runs \ {j} : run'[i] = run[i]
  <2> HIDE DEF keys
  <2> QED BY <1>1, ListedStep
<1>2. /\ run'[j].found = run[j].found \cup keys(region) /\ run'[j].missing = run[j].missing
      /\ run'[j].left = run[j].left \ {region} /\ run'[j].gone = run[j].gone
      /\ run'[j].pc = IF run[j].left = {region} THEN "read" ELSE "list"
      /\ \A i \in Runs \ {j} : run'[i] = run[i]
  BY <1>a
<1>3. At(j, "list") /\ kind = "regional" /\ UNCHANGED <<kind, cloud>> /\ RunOK(j)
  BY DEF ListRegion, RunsOK
<1>4. \A n \in Resources : Home[n] \notin run'[j].left => Covered(j, n)'
  <2> SUFFICES ASSUME NEW n \in Resources, Home[n] \notin run'[j].left PROVE Covered(j, n)'
    OBVIOUS
  <2>1. CASE Home[n] = region /\ n \in cloud
    <3>1. Own(n) \in keys(region) BY <2>1
    <3> QED BY <3>1, <1>2 DEF Covered, Own
  <2>2. CASE n \notin cloud
    BY <2>2, <1>2, <1>3 DEF Covered, RunOK, At
  <2>3. CASE Home[n] # region
    BY <2>3, <1>2, <1>3 DEF Covered, RunOK, At, Own
  <2> QED BY <2>1, <2>2, <2>3
<1>5. At(j, "read")' => run'[j].left = {}
  BY <1>2 DEF At
<1>6. RunOK(j)'
  BY <1>2, <1>3, <1>4, <1>5 DEF RunOK, At, Own
<1> QED BY <1>2, <1>3, <1>6, OneMoves

LEMMA ListBucketsOK == ASSUME TypeOK, RunsOK, NEW j \in Runs, ListBuckets(j) PROVE RunsOK'
<1> DEFINE keys(unread) == {Own(n) : n \in cloud \ unread} \cup {<<Default, n>> : n \in unread}
<1>1. PICK unread \in SUBSET cloud : Listed(j, Default, keys(unread), {n \in unread : Home[n] # Default})
  BY DEF ListBuckets
<1>2. /\ run'[j].found = run[j].found \cup keys(unread)
      /\ run'[j].missing = run[j].missing \cup {n \in unread : Home[n] # Default}
      /\ run'[j].gone = run[j].gone
      /\ run'[j].pc = IF run[j].left = {Default} THEN "read" ELSE "list"
      /\ \A i \in Runs \ {j} : run'[i] = run[i]
  BY <1>1, ListedStep
<1>3. At(j, "list") /\ kind = "bucket" /\ UNCHANGED <<kind, cloud>> /\ RunOK(j)
  BY DEF ListBuckets, RunsOK
<1>4. run'[j].pc = "read"
  BY <1>2, <1>3 DEF RunOK
<1>5. ASSUME NEW n \in Resources PROVE Covered(j, n)'
  <2>1. CASE n \in cloud \ unread
    <3>1. Own(n) \in keys(unread) BY <2>1
    <3> QED BY <3>1, <1>2 DEF Covered, Own
  <2>2. CASE n \in unread /\ Home[n] = Default
    <3>1. Own(n) \in keys(unread) BY <2>2 DEF Own
    <3> QED BY <3>1, <1>2 DEF Covered, Own
  <2>3. CASE n \in unread /\ Home[n] # Default
    BY <2>3, <1>2 DEF Covered
  <2>4. CASE n \notin cloud
    BY <2>4, <1>2, <1>3 DEF Covered, RunOK, At
  <2> QED BY <2>1, <2>2, <2>3, <2>4
<1>6. RunOK(j)'
  BY <1>2, <1>3, <1>4, <1>5 DEF RunOK, At, Own
<1> QED BY <1>2, <1>3, <1>6, OneMoves

LEMMA ReadOK == ASSUME TypeOK, RunsOK, NEW j \in Runs, Read(j) PROVE RunsOK'
<1>1. /\ run'[j].pc = "write" /\ run'[j].missing = run[j].missing
      /\ run'[j].gone \cap run[j].found = {}
      /\ \A i \in Runs \ {j} : run'[i] = run[i]
  BY DEF Read, TypeOK, Idle
<1>2. At(j, "read") /\ UNCHANGED <<kind, cloud>> /\ RunOK(j)
  BY DEF Read, RunsOK
<1>3. RunOK(j)'
  BY <1>1, <1>2 DEF RunOK, At, Covered, Own
<1> QED BY <1>1, <1>2, <1>3, OneMoves

LEMMA WriteOK ==
    ASSUME TypeOK, RunsOK, NEW j \in Runs, Insert(j) \/ Update(j) \/ MarkGone(j)
    PROVE  RunsOK'
<1>1. /\ run'[j].pc = "write" /\ run'[j].missing = run[j].missing
      /\ run'[j].gone \subseteq run[j].gone
      /\ \A i \in Runs \ {j} : run'[i] = run[i]
      /\ UNCHANGED <<kind, cloud>>
  BY RunType DEF Insert, Update, MarkGone, At, TypeOK, RunStates
<1>2. At(j, "write") /\ RunOK(j)
  BY DEF Insert, Update, MarkGone, RunsOK
<1>3. RunOK(j)'
  BY <1>1, <1>2 DEF RunOK, At, Own
<1> QED BY <1>1, <1>3, OneMoves

LEMMA EndOK == ASSUME TypeOK, RunsOK, NEW j \in Runs, Finish(j) \/ Fail(j) PROVE RunsOK'
<1>1. /\ run'[j] = Idle /\ \A i \in Runs \ {j} : run'[i] = run[i]
      /\ UNCHANGED <<kind, cloud>>
  BY DEF Finish, Fail, Done, TypeOK
<1> QED BY <1>1, IdleIsOK, OneMoves

LEMMA LeadersOK ==
    ASSUME TypeOK, RunsOK, (\E r \in Replicas : Lead(r) \/ Leave(r) \/ Crash(r)) \/ Drop
    PROVE  RunsOK'
<1>1. (\A i \in Runs : run'[i] = run[i] \/ run'[i] = Idle) /\ UNCHANGED <<kind, cloud>>
  BY DEF Lead, Leave, Crash, Drop
<1> SUFFICES ASSUME NEW i \in Runs, run'[i] = run[i] PROVE RunOK(i)'
  BY <1>1, IdleIsOK DEF RunsOK
<1>2. RunOK(i) BY DEF RunsOK
<1> QED BY <1>1, <1>2 DEF RunOK, At, Covered, Own

LEMMA ChangeOK == ASSUME TypeOK, RunsOK, NEW n \in Resources, Change(n) PROVE RunsOK'
<1> SUFFICES ASSUME NEW i \in Runs PROVE RunOK(i)'
  BY DEF RunsOK
<1>1. RunOK(i) /\ kind' = kind BY DEF RunsOK, Change
<1>2. /\ run'[i].pc = run[i].pc /\ run'[i].left = run[i].left /\ run'[i].found = run[i].found
      /\ run'[i].gone = run[i].gone /\ run[i].missing \subseteq run'[i].missing
      /\ (n \in cloud /\ run[i].pc # "idle" => n \in run'[i].missing)
  BY RunType DEF Change, At, RunStates
<1>3. cloud' = IF n \in cloud THEN cloud \ {n} ELSE cloud \cup {n}
  BY DEF Change
<1>4. run[i].pc # "idle" => (Resources \ cloud') \subseteq run'[i].missing
  BY <1>1, <1>2, <1>3 DEF RunOK, At
<1> QED BY <1>1, <1>2, <1>4 DEF RunOK, At, Covered, Own

LEMMA RunsKept == ASSUME TypeOK, RunsOK, [Next]_vars PROVE RunsOK'
<1>1. CASE (\E r \in Replicas : Lead(r) \/ Leave(r) \/ Crash(r)) \/ Drop
  BY <1>1, LeadersOK
<1>2. ASSUME NEW j \in Runs, Begin(j) \/ Proceed(j) \/ Fail(j) PROVE RunsOK'
  BY <1>2, BeginOK, ListRegionOK, ListBucketsOK, ReadOK, WriteOK, EndOK DEF Proceed
<1>3. ASSUME NEW n \in Resources, Change(n) PROVE RunsOK'
  BY <1>3, ChangeOK
<1>4. CASE UNCHANGED vars
  BY <1>4 DEF vars, RunsOK, RunOK, At, Covered, Own
<1> QED BY <1>1, <1>2, <1>3, <1>4 DEF Next

----
\* The invariant, and what follows from it.

LEMMA InitIInv == Init => IInv
<1> SUFFICES ASSUME Init PROVE IInv
  OBVIOUS
<1>1. TypeOK
  BY IdleType, BoundsAssumption DEF Init, LeaderInit, TypeOK, LeaderTypeOK
<1>2. Sessions
  BY DEF Init, LeaderInit, Sessions
<1>3. RunsOK
  BY DEF Init, RunsOK, RunOK, At, Idle
<1> QED BY <1>1, <1>2, <1>3 DEF IInv

LEMMA NextIInv == IInv /\ [Next]_vars => IInv'
  BY TypeStep, SessionsKept, RunsKept DEF IInv

LEMMA Invariant == Spec => []IInv
<1> QED BY InitIInv, NextIInv, PTL DEF Spec

\* The state of leadership and of the inventory keeps its types: scheduler.py, leader.py, discovery.py.
THEOREM InventoryTypeCorrect == Spec => []TypeOK
<1>1. IInv => TypeOK BY DEF IInv
<1> QED BY <1>1, Invariant, PTL

\* A replica whose jobs are resumed holds the advisory lock of leader.py, or has lost its connection
\* and not yet asked.
THEOREM LeadersHoldTheLock == Spec => []LeaderHoldsLock
<1>1. IInv => LeaderHoldsLock
  BY DEF IInv, TypeOK, LeaderTypeOK, Sessions, LeaderHoldsLock
<1> QED BY <1>1, Invariant, PTL

LEMMA OnlyMarkGoneMarks ==
    ASSUME IInv, Next, NEW k \in Keys, rows[k] # "deleted", rows'[k] = "deleted"
    PROVE  \E j \in Runs : k \in run[j].gone
<1>1. UNCHANGED rows => FALSE
  OBVIOUS
<1>2. rows' # [x \in Keys |-> IF x \in {} THEN "live" ELSE rows[x]]
  OBVIOUS
<1>3. ASSUME NEW keys, Upsert(keys) PROVE FALSE
  BY <1>3 DEF Upsert
<1>4. PICK j \in Runs : MarkGone(j)
  BY <1>1, <1>3 DEF Next, Lead, Leave, Crash, Drop, Begin, Proceed, ListRegion, ListBuckets, Read, Insert,
       Update, Finish, Fail, Change
<1>5. PICK x \in run[j].gone : rows' = [rows EXCEPT ![x] = "deleted"]
  BY <1>4 DEF MarkGone
<1>6. x = k
  BY <1>5 DEF IInv, TypeOK
<1> QED BY <1>5, <1>6

\* A row is marked deleted only by a discovery during which its resource did not exist at some
\* moment, or whose listing put it elsewhere (_sync_resources of discovery.py), for any number of
\* overlapping discoveries, replicas and regions.
THEOREM GoneWasGone == Spec => GoneDidNotExist
<1>1. ASSUME IInv, [Next]_vars, NEW k \in Keys, rows[k] # "deleted", rows'[k] = "deleted", k = Own(k[2])
      PROVE  \E j \in Runs : k \in run[j].gone /\ k[2] \in run[j].missing
  <2>1. Next
    BY <1>1 DEF vars
  <2>2. PICK j \in Runs : k \in run[j].gone
    BY <2>1, <1>1, OnlyMarkGoneMarks
  <2>3. k[2] \in Resources
    BY <1>1 DEF Keys
  <2>4. RunOK(j)
    BY <1>1 DEF IInv, RunsOK
  <2>5. k[2] \in run[j].missing
    BY <1>1, <2>2, <2>3, <2>4 DEF RunOK
  <2> QED BY <2>2, <2>5
<1>2. IInv /\ [Next]_vars =>
        [\A k \in Keys : rows[k] # "deleted" /\ rows'[k] = "deleted" /\ k = Own(k[2]) =>
            \E j \in Runs : k \in run[j].gone /\ k[2] \in run[j].missing]_vars
  BY <1>1
<1> QED BY <1>2, Invariant, PTL DEF Spec, GoneDidNotExist

----
\* The agreement of the table with the cloud.

LEMMA IdleIsUpToDate == ASSUME NEW j \in Runs, run'[j] = Idle PROVE UpToDate(j)'
  BY DEF UpToDate, At, Idle

LEMMA OneAgrees ==
    ASSUME Agreement, NEW j \in Runs, UNCHANGED <<kind, cloud>>,
           \A i \in Runs \ {j} : run'[i] = run[i], UpToDate(j)', TableAgrees'
    PROVE  Agreement'
<1> SUFFICES ASSUME NEW i \in Runs, i # j PROVE UpToDate(i)'
  BY DEF Agreement
<1>1. UpToDate(i) /\ run'[i] = run[i] BY DEF Agreement
<1> QED BY <1>1 DEF UpToDate, At, Existing, Own

LEMMA SameTable == ASSUME Agreement, UNCHANGED <<rows, cloud>> PROVE TableAgrees'
  BY DEF Agreement, TableAgrees, Existing

LEMMA BeginAgrees == ASSUME TypeOK, Agreement, NEW j \in Runs, Begin(j) PROVE Agreement'
<1>1. /\ run'[j].pc = "list" /\ run'[j].found = {}
      /\ run'[j].left = IF kind = "bucket" THEN {Default} ELSE Regions
      /\ \A i \in Runs \ {j} : run'[i] = run[i]
      /\ UNCHANGED <<kind, cloud, rows>>
  BY DEF Begin, TypeOK, Idle
<1>2. {k \in Existing' : kind' = "regional" /\ k[1] \notin run'[j].left} = {}
  BY <1>1 DEF Existing, Own, TypeOK
<1>3. UpToDate(j)'
  BY <1>1, <1>2 DEF UpToDate, At
<1> QED BY <1>1, <1>3, OneAgrees, SameTable

LEMMA ListRegionAgrees == ASSUME TypeOK, Agreement, NEW j \in Runs, ListRegion(j) PROVE Agreement'
<1> DEFINE keys(region) == {Own(n) : n \in {m \in cloud : Home[m] = region}}
<1>1. PICK region \in run[j].left : Listed(j, region, keys(region), {})
  BY DEF ListRegion
<1>2. /\ run'[j].found = run[j].found \cup keys(region)
      /\ run'[j].left = run[j].left \ {region}
      /\ run'[j].pc = IF run[j].left = {region} THEN "read" ELSE "list"
      /\ \A i \in Runs \ {j} : run'[i] = run[i]
  <2> HIDE DEF keys
  <2> QED BY <1>1, ListedStep
<1>3. At(j, "list") /\ kind = "regional" /\ UNCHANGED <<kind, cloud, rows>> /\ UpToDate(j)
  BY DEF ListRegion, Agreement
<1>4. keys(region) = {k \in Existing : k[1] = region}
  BY DEF Existing, Own
<1>5. run'[j].found = {k \in Existing : k[1] \notin run[j].left \ {region}}
  <2>1. run[j].found = {k \in Existing : k[1] \notin run[j].left}
    BY <1>3 DEF UpToDate
  <2> HIDE DEF keys
  <2> QED BY <1>1, <1>2, <1>4, <2>1
<1>6. CASE run[j].left = {region}
  <2>1. run'[j].found = Existing'
    BY <1>3, <1>5, <1>6 DEF Existing, Own
  <2>2. UpToDate(j)'
    BY <1>2, <1>6, <2>1 DEF UpToDate, At
  <2> QED BY <1>2, <1>3, <2>2, OneAgrees, SameTable
<1>7. CASE run[j].left # {region}
  <2>1. run'[j].found = {k \in Existing : k[1] \notin run'[j].left}
    BY <1>2, <1>5
  <2>2. Existing' = Existing
    BY <1>3 DEF Existing, Own
  <2>3. UpToDate(j)'
    BY <1>2, <1>3, <1>7, <2>1, <2>2 DEF UpToDate, At
  <2> QED BY <1>2, <1>3, <2>3, OneAgrees, SameTable
<1> QED BY <1>6, <1>7

LEMMA ListBucketsAgrees ==
    ASSUME TypeOK, RunsOK, Agreement, NEW j \in Runs, ListBuckets(j), faults' = faults
    PROVE  Agreement'
<1> DEFINE keys(unread) == {Own(n) : n \in cloud \ unread} \cup {<<Default, n>> : n \in unread}
<1>1. PICK unread \in SUBSET cloud :
        /\ IF unread = {} THEN UNCHANGED faults ELSE Fault
        /\ Listed(j, Default, keys(unread), {n \in unread : Home[n] # Default})
  BY DEF ListBuckets
<1>2. unread = {}
  BY <1>1 DEF Fault, TypeOK, LeaderTypeOK
<1>3. keys(unread) = Existing
  BY <1>2 DEF Existing
<1>4. /\ run'[j].found = run[j].found \cup Existing
      /\ run'[j].pc = IF run[j].left = {Default} THEN "read" ELSE "list"
      /\ \A i \in Runs \ {j} : run'[i] = run[i]
  <2> HIDE DEF keys
  <2> QED BY <1>1, <1>3, ListedStep
<1>5. /\ At(j, "list") /\ kind = "bucket" /\ UNCHANGED <<kind, cloud, rows>>
      /\ UpToDate(j) /\ run[j].left = {Default}
  BY DEF ListBuckets, Agreement, RunsOK, RunOK
<1>6. run[j].found = {}
  BY <1>5 DEF UpToDate
<1>7. Existing' = Existing
  BY <1>5 DEF Existing, Own
<1>8. UpToDate(j)'
  BY <1>4, <1>5, <1>6, <1>7 DEF UpToDate, At
<1> QED BY <1>4, <1>5, <1>8, OneAgrees, SameTable

LEMMA ReadAgrees == ASSUME TypeOK, Agreement, NEW j \in Runs, Read(j) PROVE Agreement'
<1> DEFINE existing == {k \in Keys : rows[k] # "none"}
<1>1. /\ run'[j].pc = "write"
      /\ run'[j].inserts \subseteq run[j].found /\ run'[j].updates \subseteq run[j].found
      /\ run'[j].gone \cap run[j].found = {}
      /\ \A i \in Runs \ {j} : run'[i] = run[i]
  BY DEF Read, TypeOK, Idle
<1>2. At(j, "read") /\ UNCHANGED <<kind, cloud, rows>> /\ run[j].found = Existing
  BY DEF Read, Agreement, UpToDate
<1>3. Existing' = Existing
  BY <1>2 DEF Existing, Own
<1>4. UpToDate(j)'
  BY <1>1, <1>2, <1>3 DEF UpToDate, At
<1> QED BY <1>1, <1>2, <1>4, OneAgrees, SameTable

LEMMA WriteAgrees ==
    ASSUME TypeOK, Agreement, NEW j \in Runs, Insert(j) \/ Update(j) \/ MarkGone(j)
    PROVE  Agreement'
<1>1. /\ run'[j].pc = "write" /\ run'[j].gone \subseteq run[j].gone
      /\ run'[j].inserts \subseteq run[j].inserts /\ run'[j].updates \subseteq run[j].updates
      /\ \A i \in Runs \ {j} : run'[i] = run[i]
      /\ UNCHANGED <<kind, cloud>>
  BY RunType DEF Insert, Update, MarkGone, At, TypeOK, RunStates
<1>2. /\ run[j].inserts \subseteq Existing /\ run[j].updates \subseteq Existing
      /\ run[j].gone \cap Existing = {}
  BY DEF Insert, Update, MarkGone, Agreement, UpToDate
<1>3. Existing' = Existing
  BY <1>1 DEF Existing, Own
<1>4. UpToDate(j)'
  BY <1>1, <1>2, <1>3 DEF UpToDate, At
<1>5. TableAgrees'
  <2>1. ASSUME NEW keys \in SUBSET Existing, Upsert(keys) PROVE TableAgrees'
    BY <1>3, <2>1 DEF Upsert, Agreement, TableAgrees
  <2>2. CASE MarkGone(j)
    <3>1. PICK k \in run[j].gone : rows' = [rows EXCEPT ![k] = "deleted"]
      BY <2>2 DEF MarkGone
    <3>2. k \notin Existing
      BY <1>2, <3>1
    <3> QED BY <1>3, <3>1, <3>2 DEF Agreement, TableAgrees, TypeOK
  <2> QED BY <1>2, <2>1, <2>2 DEF Insert, Update
<1> QED BY <1>1, <1>4, <1>5, OneAgrees

LEMMA EndAgrees == ASSUME TypeOK, Agreement, NEW j \in Runs, Finish(j) \/ Fail(j) PROVE Agreement'
<1>1. /\ run'[j] = Idle /\ \A i \in Runs \ {j} : run'[i] = run[i]
      /\ UNCHANGED <<kind, cloud, rows>>
  BY DEF Finish, Fail, Done, TypeOK
<1> QED BY <1>1, IdleIsUpToDate, OneAgrees, SameTable

LEMMA LeadersAgree ==
    ASSUME TypeOK, Agreement, (\E r \in Replicas : Lead(r) \/ Leave(r) \/ Crash(r)) \/ Drop
    PROVE  Agreement'
<1>1. (\A i \in Runs : run'[i] = run[i] \/ run'[i] = Idle) /\ UNCHANGED <<kind, cloud, rows>>
  BY DEF Lead, Leave, Crash, Drop
<1>2. ASSUME NEW i \in Runs, run'[i] = run[i] PROVE UpToDate(i)'
  <2>1. UpToDate(i) BY DEF Agreement
  <2> QED BY <1>1, <1>2, <2>1 DEF UpToDate, At, Existing, Own
<1> QED BY <1>1, <1>2, IdleIsUpToDate, SameTable DEF Agreement

\* An inventory that agrees with the cloud, with no discovery under way that is out of date, goes
\* wrong only through a change in the cloud or a bucket that is reported elsewhere: no overlap,
\* failure, crash or change of leadership disturbs it (_sync_resources, discover_all).
THEOREM AgreementIsStable == Spec => AgreementStays
<1>1. ASSUME IInv, [Next]_vars, Agreement, cloud' = cloud, kind = "regional" \/ faults' = faults
      PROVE  Agreement'
  <2>1. CASE (\E r \in Replicas : Lead(r) \/ Leave(r) \/ Crash(r)) \/ Drop
    BY <1>1, <2>1, LeadersAgree DEF IInv
  <2>2. ASSUME NEW j \in Runs, Begin(j) \/ Proceed(j) \/ Fail(j) PROVE Agreement'
    <3>1. CASE ListBuckets(j)
      <4>1. faults' = faults
        BY <1>1, <3>1 DEF ListBuckets
      <4> QED BY <1>1, <3>1, <4>1, ListBucketsAgrees DEF IInv
    <3> QED
      BY <1>1, <2>2, <3>1, BeginAgrees, ListRegionAgrees, ReadAgrees, WriteAgrees, EndAgrees DEF Proceed, IInv
  <2>3. ASSUME NEW n \in Resources, Change(n) PROVE Agreement'
    BY <1>1, <2>3 DEF Change
  <2>4. CASE UNCHANGED vars
    BY <1>1, <2>4 DEF vars, Agreement, TableAgrees, UpToDate, At, Existing, Own
  <2> QED BY <1>1, <2>1, <2>2, <2>3, <2>4 DEF Next
<1>2. IInv /\ [Next]_vars =>
        [Agreement /\ cloud' = cloud /\ (kind = "regional" \/ faults' = faults) => Agreement']_vars
  BY <1>1
<1> QED BY <1>2, Invariant, PTL DEF Spec, AgreementStays

----
\* The other module on top of Leadership: the reports of a job's outcomes.

CONSTANT Threshold
VARIABLES broken, memory, row, job, throttled, told
Reports == INSTANCE JobReports

\* Its leadership is the same.
LEMMA ReportsLead ==
    /\ Reports!LeaderTypeOK <=> LeaderTypeOK
    /\ \A r \in Replicas : Reports!Lead(r) \/ Reports!Forget(r) => LeaderStep(r)
    /\ Reports!Drop => ServerDrop
<1>1. \A r : /\ Reports!StartUp(r) <=> StartUp(r)
             /\ Reports!Acquire(r) <=> Acquire(r)
             /\ Reports!AcquireUnheard(r) <=> AcquireUnheard(r)
             /\ Reports!Confirm(r) <=> Confirm(r)
             /\ Reports!Shutdown(r) <=> Shutdown(r)
             /\ Reports!Exit(r) <=> Exit(r)
             /\ Reports!Kill(r) <=> Kill(r)
             /\ Reports!Cut(r) <=> Cut(r)
  BY DEF Reports!StartUp, StartUp, Reports!Acquire, Acquire, Reports!AcquireUnheard, AcquireUnheard,
         Reports!Confirm, Confirm, Reports!Shutdown, Shutdown, Reports!Exit, Exit, Reports!Kill, Kill,
         Reports!Cut, Cut, Reports!Fault, Fault, Reports!Released, Released
<1>2. Reports!LeaderTypeOK <=> LeaderTypeOK
  BY DEF Reports!LeaderTypeOK, LeaderTypeOK
<1>3. Reports!ServerDrop <=> ServerDrop
  BY DEF Reports!ServerDrop, ServerDrop
<1> QED BY <1>1, <1>2, <1>3 DEF Reports!Lead, Reports!Forget, Reports!Drop, LeaderStep

\* Under the bounds of JobReports (job_status.py): the counter stays within its range.
LEMMA CountedType ==
    ASSUME Threshold \in Nat \ {0}, None \notin 0..Threshold, NEW n \in Reports!Entry
    PROVE  Reports!Counted(n) \in Reports!Entry \ {None}
<1>1. 0 \in 0..Threshold /\ 1 \in 0..Threshold
  OBVIOUS
<1>2. ASSUME NEW k \in 0..Threshold, k < Threshold PROVE k + 1 \in 0..Threshold
  BY <1>2
<1> QED BY <1>1, <1>2 DEF Reports!Counted, Reports!Entry

LEMMA WorkType ==
    ASSUME Threshold \in Nat \ {0}, None \notin 0..Threshold,
           Reports!TypeOK, NEW r \in Replicas, Reports!Work(r)
    PROVE  Reports!TypeOK'
<1> USE DEF Reports!TypeOK, Reports!At, Reports!To, Reports!leaderVars
<1>1. CASE Reports!Start(r)
  BY <1>1 DEF Reports!Start, Reports!LeaderTypeOK
<1>2. CASE Reports!Record(r)
  <2>1. memory[r] \in Reports!Entry
    OBVIOUS
  <2>2. PICK n \in Reports!Entry \ {None} : memory' = [memory EXCEPT ![r] = n]
    <3>1. 0 \in Reports!Entry \ {None}
      BY DEF Reports!Entry
    <3> QED BY <1>2, <2>1, <3>1, CountedType DEF Reports!Record
  <2>3. memory' \in [Replicas -> Reports!Entry] /\ memory'[r] # None /\ \A q \in Replicas : q # r => memory'[q] = memory[q]
    BY <2>2
  <2>4. job' \in [Replicas -> {"idle", "running", "persist", "alert"}] /\ \A q \in Replicas : q # r => job'[q] = job[q]
    BY <1>2 DEF Reports!Record
  <2> QED BY <1>2, <2>3, <2>4 DEF Reports!Record, Reports!LeaderTypeOK
<1>3. CASE Reports!Persist(r)
  <2>1. faults' \in 0..MaxFaults
    BY <1>3, ReportsLead DEF Reports!Persist, Reports!Fault, LeaderTypeOK
  <2> QED BY <1>3, <2>1 DEF Reports!Persist, Reports!LeaderTypeOK
<1>4. CASE Reports!Alert(r)
  <2>1. faults' \in 0..MaxFaults
    BY <1>4, ReportsLead DEF Reports!Alert, Reports!Fault, LeaderTypeOK
  <2> QED BY <1>4, <2>1 DEF Reports!Alert, Reports!LeaderTypeOK
<1> QED BY <1>1, <1>2, <1>3, <1>4 DEF Reports!Work

LEMMA ReportsStep ==
    ASSUME Threshold \in Nat \ {0}, None \notin 0..Threshold,
           Reports!TypeOK, [Reports!Next]_Reports!vars
    PROVE  Reports!TypeOK'
<1>1. ASSUME (\E r \in Replicas : LeaderStep(r)) \/ ServerDrop PROVE Reports!LeaderTypeOK'
  <2>1. LeaderTypeOK'
    BY <1>1, ReportsLead, LeaderTypes DEF Reports!TypeOK
  <2> QED BY <2>1 DEF Reports!LeaderTypeOK, LeaderTypeOK
<1>2. ASSUME NEW r \in Replicas, Reports!Lead(r) PROVE Reports!TypeOK'
  <2>1. Reports!LeaderTypeOK'
    BY <1>1, <1>2, ReportsLead
  <2> QED BY <1>2, <2>1 DEF Reports!TypeOK, Reports!Lead
<1>3. ASSUME NEW r \in Replicas, Reports!Forget(r) PROVE Reports!TypeOK'
  <2>1. Reports!LeaderTypeOK'
    BY <1>1, <1>3, ReportsLead
  <2> QED BY <1>3, <2>1 DEF Reports!TypeOK, Reports!Forget, Reports!To, Reports!Entry
<1>4. CASE Reports!Drop
  <2>1. Reports!LeaderTypeOK'
    BY <1>1, <1>4, ReportsLead
  <2> QED BY <1>4, <2>1 DEF Reports!TypeOK, Reports!Drop
<1>5. CASE Reports!Change
  <2>1. changes' \in 0..MaxChanges
    BY <1>5, BoundsAssumption DEF Reports!TypeOK, Reports!Change
  <2>2. broken' \in BOOLEAN /\ told' \in BOOLEAN
    BY <1>5 DEF Reports!Change
  <2> QED BY <1>5, <2>1, <2>2 DEF Reports!TypeOK, Reports!Change, Reports!leaderVars, Reports!LeaderTypeOK
<1>6. ASSUME NEW r \in Replicas, Reports!Elapse(r) PROVE Reports!TypeOK'
  BY <1>6 DEF Reports!TypeOK, Reports!Elapse, Reports!leaderVars, Reports!LeaderTypeOK
<1>7. CASE UNCHANGED Reports!vars
  BY <1>7 DEF Reports!TypeOK, Reports!vars, Reports!leaderVars, Reports!LeaderTypeOK
<1> QED BY <1>2, <1>3, <1>4, <1>5, <1>6, <1>7, WorkType DEF Reports!Next

\* The reports of a job keep their types, whatever becomes of the processes that run it
\* (job_status.py, alerts.py): a process on its way to an alert has a count.
THEOREM ReportsTypeCorrect ==
    ASSUME Threshold \in Nat \ {0}, None \notin 0..Threshold
    PROVE  Reports!Spec => []Reports!TypeOK
<1>1. Reports!Init => Reports!TypeOK
  <2> SUFFICES ASSUME Reports!Init PROVE Reports!TypeOK
    OBVIOUS
  <2>1. Reports!LeaderTypeOK
    BY DEF Reports!Init, Reports!LeaderInit, Reports!LeaderTypeOK
  <2>2. changes \in 0..MaxChanges
    BY BoundsAssumption DEF Reports!Init
  <2>3. memory \in [Replicas -> Reports!Entry] /\ row \in Reports!Entry
    BY DEF Reports!Init, Reports!Entry
  <2> QED BY <2>1, <2>2, <2>3 DEF Reports!Init, Reports!TypeOK
<1>2. Reports!TypeOK /\ [Reports!Next]_Reports!vars => Reports!TypeOK'
  BY ReportsStep
<1> QED BY <1>1, <1>2, PTL DEF Reports!Spec
====
