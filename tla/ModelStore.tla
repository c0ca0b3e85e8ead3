---- MODULE ModelStore ----
(***************************************************************************)
(* The trained model of one resource type: two files that the nightly      *)
(* retraining replaces one after the other, and the inference engine that  *)
(* reads both while it does.  Translated from ml/trainer.py,               *)
(* ml/inference.py and backend/app/services/ml_retrainer.py.               *)
(*                                                                         *)
(* One process owns the directory (render.yaml pins the service to one     *)
(* instance); its jobs run in threads, so training and prediction overlap. *)
(* A model is the number of the training that made it.  What a model       *)
(* computes is left out.                                                   *)
(***************************************************************************)
EXTENDS Naturals, FiniteSets

CONSTANTS
    MaxTrainings,  \* bound on trainings
    Libraries,     \* versions of scikit-learn
    MaxUpgrades,   \* bound on restarts with another of them
    MaxFaults,     \* bound on crashes and failed writes and loads
    Keep,          \* the dated copies _retain_versions leaves
    None

ASSUME BoundsAssumption == {MaxTrainings, MaxUpgrades, MaxFaults} \subseteq Nat /\ Keep \in Nat \ {0}
ASSUME NoneAssumption == None \notin Libraries \cup Nat

Models == 1..MaxTrainings

VARIABLES
    library,    \* what is installed: library[m] is what trained m, library[0] what runs now
    pkl,        \* if_<type>_latest.pkl, also its mtime: every replacement has a time of its own
    json,       \* the model if_<type>_latest.json describes
    dated,      \* the dated copies
    trainer,    \* the training job: what it writes next, and the model it holds
    loader,     \* a prediction that loads: what it does next and what it has read
    cache,      \* InferenceEngine.models
    trainings, upgrades, faults

vars == <<library, pkl, json, dated, trainer, loader, cache, trainings, upgrades, faults>>

File == Models \cup {None}
NoLoad == [pc |-> "idle", stamp |-> None, meta |-> None]
NoTraining == [pc |-> "idle", model |-> None]
Empty == [stamp |-> None, model |-> None, meta |-> None]

TypeOK ==
    /\ library \in [0..MaxTrainings -> Libraries]
    /\ pkl \in File /\ json \in File
    /\ dated \subseteq Models
    /\ trainer \in [pc : {"idle", "date", "retain", "describe", "promote"}, model : File]
    /\ loader \in [pc : {"idle", "describe", "load"}, stamp : File, meta : File]
    /\ cache \in [stamp : File, model : File, meta : File]
    /\ trainings \in 0..MaxTrainings /\ upgrades \in 0..MaxUpgrades /\ faults \in 0..MaxFaults

Init ==
    /\ library \in {[m \in 0..MaxTrainings |-> l] : l \in Libraries}
    /\ pkl = None /\ json = None /\ dated = {}
    /\ trainer = NoTraining /\ loader = NoLoad /\ cache = Empty
    /\ trainings = 0 /\ upgrades = 0 /\ faults = 0

Fault == faults < MaxFaults /\ faults' = faults + 1

----
\* Training.

\* A model that passes the gate on the holdout is written; one that fails it changes nothing.
Train ==
    /\ trainer.pc = "idle" /\ trainings < MaxTrainings
    /\ trainings' = trainings + 1
    /\ library' = [library EXCEPT ![trainings + 1] = library[0]]
    /\ trainer' = [pc |-> "date", model |-> trainings + 1]
    /\ UNCHANGED <<pkl, json, dated, loader, cache, upgrades, faults>>

\* Each write goes to a temporary file that replaces the old one at once.
Date ==
    /\ trainer.pc = "date"
    /\ dated' = dated \cup {trainer.model}
    /\ trainer' = [trainer EXCEPT !.pc = "retain"]
    /\ UNCHANGED <<library, pkl, json, loader, cache, trainings, upgrades, faults>>

Newest(files) == {m \in files : Cardinality({n \in files : n > m}) < Keep}

\* Of the copies beyond Keep, those that cannot be deleted stay.
Retain ==
    /\ trainer.pc = "retain"
    /\ \E gone \in SUBSET (dated \ Newest(dated)) : dated' = dated \ gone
    /\ trainer' = [trainer EXCEPT !.pc = "describe"]
    /\ UNCHANGED <<library, pkl, json, loader, cache, trainings, upgrades, faults>>

Describe ==
    /\ trainer.pc = "describe"
    /\ json' = trainer.model
    /\ trainer' = [trainer EXCEPT !.pc = "promote"]
    /\ UNCHANGED <<library, pkl, dated, loader, cache, trainings, upgrades, faults>>

Promote ==
    /\ trainer.pc = "promote"
    /\ pkl' = trainer.model
    /\ trainer' = NoTraining
    /\ UNCHANGED <<library, json, dated, loader, cache, trainings, upgrades, faults>>

\* Seeded fault: the model is replaced before its metadata.
PromoteFirst ==
    /\ trainer.pc = "describe"
    /\ pkl' = trainer.model
    /\ trainer' = [trainer EXCEPT !.pc = "promote"]
    /\ UNCHANGED <<library, json, dated, loader, cache, trainings, upgrades, faults>>

DescribeLast ==
    /\ trainer.pc = "promote"
    /\ json' = trainer.model
    /\ trainer' = NoTraining
    /\ UNCHANGED <<library, pkl, dated, loader, cache, trainings, upgrades, faults>>

TrainingSwapped == Date \/ Retain \/ PromoteFirst \/ DescribeLast

\* train_isolation_forest, once the model has passed the gate.
Training == Date \/ Retain \/ Describe \/ Promote

\* A failed write ends the job.
FailTraining ==
    /\ trainer.pc # "idle" /\ Fault
    /\ trainer' = NoTraining
    /\ UNCHANGED <<library, pkl, json, dated, loader, cache, trainings, upgrades>>

----
\* _load_model, called by every prediction.  An engine whose copy has the file's mtime uses it.

\* Seeded fault: a cached model is never reloaded.
StatOnce ==
    /\ loader.pc = "idle" /\ pkl # None /\ cache.stamp = None
    /\ loader' = [pc |-> "describe", stamp |-> pkl, meta |-> None]
    /\ UNCHANGED <<library, pkl, json, dated, trainer, cache, trainings, upgrades, faults>>

Stat ==
    /\ loader.pc = "idle" /\ pkl # None /\ cache.stamp # pkl
    /\ loader' = [pc |-> "describe", stamp |-> pkl, meta |-> None]
    /\ UNCHANGED <<library, pkl, json, dated, trainer, cache, trainings, upgrades, faults>>

\* The metadata must name the installed library; without metadata there is nothing to compare.
ReadMetadata ==
    /\ loader.pc = "describe"
    /\ IF json # None /\ library[json] # library[0]
       THEN loader' = NoLoad /\ cache' = Empty
       ELSE loader' = [loader EXCEPT !.pc = "load", !.meta = json] /\ UNCHANGED cache
    /\ UNCHANGED <<library, pkl, json, dated, trainer, trainings, upgrades, faults>>

\* Seeded fault: the copy is kept without its metadata.
LoadBare ==
    /\ loader.pc = "load"
    /\ cache' = [stamp |-> loader.stamp, model |-> pkl]
    /\ loader' = NoLoad
    /\ UNCHANGED <<library, pkl, json, dated, trainer, trainings, upgrades, faults>>

Load ==
    /\ loader.pc = "load"
    /\ cache' = [stamp |-> loader.stamp, model |-> pkl, meta |-> loader.meta]
    /\ loader' = NoLoad
    /\ UNCHANGED <<library, pkl, json, dated, trainer, trainings, upgrades, faults>>

\* A file that does not load: the engine goes on with the model it has.  One of another library may
\* never load, whatever the metadata says by then.
FailLoad ==
    /\ loader.pc = "load"
    /\ \/ library[pkl] # library[0] /\ UNCHANGED faults
       \/ Fault
    /\ loader' = NoLoad
    /\ UNCHANGED <<library, pkl, json, dated, trainer, cache, trainings, upgrades>>

\* What predict returns: the decision of a model, under the version its metadata has.
Served == [model |-> cache.model, version |-> cache.meta]

----
\* The process dies, training and cache with it; a deployment may bring another library.
Restart ==
    /\ \E l \in Libraries :
          /\ library' = [library EXCEPT ![0] = l]
          /\ IF l = library[0] THEN Fault /\ UNCHANGED upgrades
             ELSE upgrades < MaxUpgrades /\ upgrades' = upgrades + 1 /\ UNCHANGED faults
    /\ trainer' = NoTraining /\ loader' = NoLoad /\ cache' = Empty
    /\ UNCHANGED <<pkl, json, dated, trainings>>

Loading == Stat \/ ReadMetadata \/ Load

Next == Train \/ Training \/ FailTraining \/ Loading \/ FailLoad \/ Restart

Spec == Init /\ [][Next]_vars

\* A job that has begun goes on, and the detector predicts in every cycle.
FairSpec == Spec /\ WF_vars(Training) /\ WF_vars(Loading)

----
\* Properties.

\* What a prediction says of its model is true.  "Metadata first: inference reloads on the .pkl mtime,
\* so by then the sidecar already describes the model" (trainer.py): when the two files belong
\* together and the engine takes its copy for current, it serves that model under its own version,
\* whenever it read either file.  "models from a different scikit-learn version are not loaded"
\* (README.md): not under their own version; one that is loaded has another's.
ServedAsDescribed ==
    /\ cache.stamp = pkl /\ json = pkl => Served = [model |-> pkl, version |-> pkl]
    /\ Served.model # None /\ Served.version = Served.model => library[Served.model] = library[0]

\* However trainings, crashes and upgrades fall, predictions come to use the model on disk, under
\* its own description if that is there.  Excepted is a model of another library, or one described as
\* such: the first may fail to load each time, the second is not tried.
NewestIsServed ==
    <>[](pkl # None /\ json # None /\ library[pkl] = library[0] /\ library[json] = library[0] =>
            Served.model = pkl /\ (json = pkl => Served.version = pkl))
====
