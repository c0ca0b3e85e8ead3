---- MODULE Discovery ----
(***************************************************************************)
(* The inventory: what the table of resources says against what exists.    *)
(* Discoveries run from the scheduler of a leading replica and, one at a   *)
(* time per process, from the API of any replica; nothing else keeps two   *)
(* of them apart.  Translated from backend/app/services/discovery.py, the  *)
(* manual discovery of api/resources.py, scheduler.py and the listings of  *)
(* adapters/aws.py, on top of Leadership.                                  *)
(*                                                                         *)
(* One resource type: run() treats the five one after the other and keeps  *)
(* them apart.  What a row says of a resource is reduced to whether it     *)
(* lives; a listed resource that is terminated counts as gone.  The audit  *)
(* rows of state changes, inserted at the end, are left out.               *)
(***************************************************************************)
EXTENDS Leadership

CONSTANTS
    Resources,
    Regions,
    Default,       \* AWS_DEFAULT_REGION, listed first
    Home,          \* the region of each resource
    Kinds,         \* "regional" listings, or the global one of "bucket"s
    MaxChanges,    \* bound on the creations and deletions in the cloud
    MaxRunning     \* bound on the discoveries that run at a time

ASSUME RegionsAssumption == Default \in Regions /\ Home \in [Resources -> Regions]
ASSUME KindsAssumption == Kinds \subseteq {"regional", "bucket"}
ASSUME BoundsAssumption == MaxChanges \in Nat

Keys == Regions \X Resources          \* a row's identity: (region, provider_id)
Own(n) == <<Home[n], n>>
Runs == Replicas \X {"scheduled", "manual"}
Idle == [pc |-> "idle", left |-> {}, found |-> {}, inserts |-> {}, updates |-> {}, gone |-> {},
         missing |-> {}]

VARIABLES
    kind,
    cloud,      \* the resources that exist
    rows,       \* the table of resources
    run,        \* local state of each discovery; `missing` (not in the code) holds what did not
                \* exist at some moment since it began, or was listed in a region not its own
    changes

vars == <<proc, session, lock, led, faults, kind, cloud, rows, run, changes>>

RunStates ==
    [pc : {"idle", "list", "read", "write"}, left : SUBSET Regions, found : SUBSET Keys,
     inserts : SUBSET Keys, updates : SUBSET Keys, gone : SUBSET Keys, missing : SUBSET Resources]

TypeOK ==
    /\ LeaderTypeOK
    /\ kind \in Kinds
    /\ cloud \subseteq Resources
    /\ rows \in [Keys -> {"none", "live", "deleted"}]
    /\ run \in [Runs -> RunStates]
    /\ changes \in 0..MaxChanges

Init ==
    /\ LeaderInit
    /\ kind \in Kinds
    /\ cloud \in SUBSET Resources
    /\ rows = [k \in Keys |-> "none"]
    /\ run = [j \in Runs |-> Idle]
    /\ changes = 0

----
At(j, pc) == run[j].pc = pc
Done(j) == run' = [run EXCEPT ![j] = Idle]
Running == {j \in Runs : ~At(j, "idle")}

\* _adapters: buckets are listed once, everything else once per region.
Begin(j) ==
    /\ At(j, "idle") /\ proc[j[1]] = "up" /\ Cardinality(Running) < MaxRunning
    /\ j[2] = "scheduled" => led[j[1]]
    /\ run' = [run EXCEPT ![j] = [Idle EXCEPT
          !.pc = "list", !.missing = Resources \ cloud,
          !.left = IF kind = "bucket" THEN {Default} ELSE Regions]]
    /\ UNCHANGED <<leaderVars, kind, cloud, rows, changes>>

Listed(j, region, keys, misplaced) ==
    run' = [run EXCEPT ![j].found = @ \cup keys, ![j].missing = @ \cup misplaced,
                       ![j].left = @ \ {region},
                       ![j].pc = IF run[j].left = {region} THEN "read" ELSE "list"]

\* discover_instances and its like, in one region after the other.
ListRegion(j) ==
    /\ At(j, "list") /\ kind = "regional"
    /\ \E region \in run[j].left :
          /\ Default \in run[j].left => region = Default
          /\ Listed(j, region, {Own(n) : n \in {m \in cloud : Home[m] = region}}, {})
    /\ UNCHANGED <<leaderVars, kind, cloud, rows, changes>>

\* discover_buckets: a bucket whose location cannot be read is reported in the adapter's own region.
ListBuckets(j) ==
    /\ At(j, "list") /\ kind = "bucket"
    /\ \E unread \in SUBSET cloud :
          /\ IF unread = {} THEN UNCHANGED faults ELSE Fault
          /\ Listed(j, Default, {Own(n) : n \in cloud \ unread} \cup {<<Default, n>> : n \in unread},
                    {n \in unread : Home[n] # Default})
    /\ UNCHANGED <<proc, session, lock, led, kind, cloud, rows, changes>>

\* The rows of the type are read, and everything to be written is decided by them.
Read(j) ==
    /\ At(j, "read")
    /\ LET existing == {k \in Keys : rows[k] # "none"}
           found == run[j].found IN
       run' = [run EXCEPT ![j] = [Idle EXCEPT
          !.pc = "write", !.missing = run[j].missing,
          !.inserts = found \ existing, !.updates = found \cap existing,
          !.gone = {k \in existing \ found : rows[k] # "deleted"}]]
    /\ UNCHANGED <<leaderVars, kind, cloud, rows, changes>>

\* Both upserts write a row whether or not it is there by now.
Upsert(keys) == rows' = [k \in Keys |-> IF k \in keys THEN "live" ELSE rows[k]]

Insert(j) ==
    /\ At(j, "write") /\ run[j].inserts # {}
    /\ Upsert(run[j].inserts)
    /\ run' = [run EXCEPT ![j].inserts = {}]
    /\ UNCHANGED <<leaderVars, kind, cloud, changes>>

\* Seeded fault: an update leaves the state of the row alone.
UpdateStateless(j) ==
    /\ At(j, "write") /\ run[j].inserts = {} /\ run[j].updates # {}
    /\ run' = [run EXCEPT ![j].updates = {}]
    /\ UNCHANGED <<leaderVars, kind, cloud, rows, changes>>

Update(j) ==
    /\ At(j, "write") /\ run[j].inserts = {} /\ run[j].updates # {}
    /\ Upsert(run[j].updates)
    /\ run' = [run EXCEPT ![j].updates = {}]
    /\ UNCHANGED <<leaderVars, kind, cloud, changes>>

\* Seeded fault: the state is not one of the vocabulary.
MarkGoneRaw(j) ==
    /\ At(j, "write") /\ run[j].inserts \cup run[j].updates = {}
    /\ \E k \in run[j].gone :
          /\ rows' = [rows EXCEPT ![k] = "gone"]
          /\ run' = [run EXCEPT ![j].gone = @ \ {k}]
    /\ UNCHANGED <<leaderVars, kind, cloud, changes>>

\* Rows of what was not listed are marked one by one, by id.
MarkGone(j) ==
    /\ At(j, "write") /\ run[j].inserts \cup run[j].updates = {}
    /\ \E k \in run[j].gone :
          /\ rows' = [rows EXCEPT ![k] = "deleted"]
          /\ run' = [run EXCEPT ![j].gone = @ \ {k}]
    /\ UNCHANGED <<leaderVars, kind, cloud, changes>>

Finish(j) ==
    /\ At(j, "write") /\ run[j].inserts \cup run[j].updates \cup run[j].gone = {}
    /\ Done(j)
    /\ UNCHANGED <<leaderVars, kind, cloud, rows, changes>>

\* Seeded fault: what the other regions returned is synchronised all the same.
FailPartial(j) ==
    /\ ~At(j, "idle") /\ Fault
    /\ IF At(j, "list") THEN run' = [run EXCEPT ![j].left = {}, ![j].pc = "read"] ELSE Done(j)
    /\ UNCHANGED <<proc, session, lock, led, kind, cloud, rows, changes>>

\* A provider or database error: nothing more of this type is written.
Fail(j) ==
    /\ ~At(j, "idle") /\ Fault
    /\ Done(j)
    /\ UNCHANGED <<proc, session, lock, led, kind, cloud, rows, changes>>

----
Proceed(j) == \/ ListRegion(j) \/ ListBuckets(j) \/ Read(j)
              \/ Insert(j) \/ Update(j) \/ MarkGone(j) \/ Finish(j)

\* A process that was told to stop lives on until its jobs are done; one that dies takes them along.
Leave(r) ==
    /\ Exit(r) /\ \A j \in Running : j[1] # r
    /\ UNCHANGED <<kind, cloud, rows, run, changes>>

Crash(r) ==
    /\ Kill(r)
    /\ run' = [j \in Runs |-> IF j[1] = r THEN Idle ELSE run[j]]
    /\ UNCHANGED <<kind, cloud, rows, changes>>

Lead(r) ==
    /\ StartUp(r) \/ Acquire(r) \/ AcquireUnheard(r) \/ Confirm(r) \/ Shutdown(r) \/ Cut(r)
    /\ UNCHANGED <<kind, cloud, rows, run, changes>>

Drop == ServerDrop /\ UNCHANGED <<kind, cloud, rows, run, changes>>

\* A resource is created, or deleted.
Change(n) ==
    /\ changes < MaxChanges /\ changes' = changes + 1
    /\ cloud' = IF n \in cloud THEN cloud \ {n} ELSE cloud \cup {n}
    /\ run' = IF n \in cloud
              THEN [j \in Runs |-> IF At(j, "idle") THEN run[j]
                                   ELSE [run[j] EXCEPT !.missing = @ \cup {n}]]
              ELSE run
    /\ UNCHANGED <<leaderVars, kind, rows>>

Next ==
    \/ \E r \in Replicas : Lead(r) \/ Leave(r) \/ Crash(r)
    \/ Drop
    \/ \E j \in Runs : Begin(j) \/ Proceed(j) \/ Fail(j)
    \/ \E n \in Resources : Change(n)

Spec == Init /\ [][Next]_vars

\* The platform restarts what ended and the server drops dead sessions; the leadership job runs
\* every 30 s and the discovery job every few minutes.
Fairness ==
    /\ \A r \in Replicas :
          /\ WF_vars(UNCHANGED faults /\ Lead(r))
          /\ WF_vars(Leave(r))
          /\ SF_vars(Begin(<<r, "scheduled">>))
    /\ WF_vars(Drop)
    /\ \A j \in Runs : WF_vars(Proceed(j))

FairSpec == Spec /\ Fairness

----
\* Properties.

\* "Resources that disappeared from a *successful* listing no longer exist" (discovery.py): a row is
\* marked deleted only if its resource did not exist at some moment of the discovery that marks it,
\* whatever failed or ran beside it, or is a bucket that this discovery was told is elsewhere.
GoneDidNotExist ==
    [][\A k \in Keys : rows[k] # "deleted" /\ rows'[k] = "deleted" /\ k = Own(k[2]) =>
          \E j \in Runs : k \in run[j].gone /\ k[2] \in run[j].missing]_vars

Existing == {Own(n) : n \in cloud}
TableAgrees == \A k \in Keys : rows[k] = "live" <=> k \in Existing

\* Once the cloud and the replicas stay as they are, the table comes to say what exists, although
\* an old listing can be written after a newer one and a row can be marked deleted that lives.
InventorySettles == <>[]TableAgrees

\* What a discovery has in hand is what exists now: nothing of it is older than the last change.
UpToDate(j) ==
    /\ At(j, "list") => run[j].found = {k \in Existing : kind = "regional" /\ k[1] \notin run[j].left}
    /\ At(j, "read") => run[j].found = Existing
    /\ At(j, "write") => /\ run[j].inserts \cup run[j].updates \subseteq Existing
                         /\ run[j].gone \cap Existing = {}

Agreement == TableAgrees /\ \A j \in Runs : UpToDate(j)

\* Once the table agrees with the cloud and every discovery under way is up to date, nothing but a
\* change in the cloud (or a bucket reported elsewhere) makes it wrong again: not the order in which
\* overlapping discoveries write, not a replica that lost its lock, no failed listing and no crash.
AgreementStays ==
    [][Agreement /\ cloud' = cloud /\ (kind = "regional" \/ faults' = faults) => Agreement']_vars
====
