---- MODULE ModelStore_proofs ----
(***************************************************************************)
(* Proofs about ModelStore, for any number of trainings, predictions,      *)
(* upgrades, crashes and failed writes: types, and that a prediction is    *)
(* served under its own version when the two files belong together.        *)
(*                                                                         *)
(* The argument is that everything moves forward: the metadata are never   *)
(* older than the model (InOrder), so a loader that took its stamp, then   *)
(* the metadata, then the model has three numbers in that order            *)
(* (LoaderInOrder), and so has the cache (CacheInOrder).  If the first is  *)
(* still the newest, all three are the same.                               *)
(***************************************************************************)
EXTENDS ModelStore, TLAPS

Older(m, n) == m # None /\ n # None /\ m <= n

\* The metadata are replaced before the model, and both by ever newer ones.
InOrder ==
    /\ pkl # None => Older(pkl, json)
    /\ json # None => json <= trainings
    /\ \A m \in dated : m <= trainings
    /\ trainer.pc # "idle" => trainer.model = trainings /\ trainings > 0
    /\ trainer.pc = "promote" => json = trainings

\* A prediction that loads took its stamp before the metadata, and those before the model.
LoaderInOrder ==
    /\ loader.pc # "idle" => Older(loader.stamp, pkl)
    /\ loader.pc = "load" => /\ Older(loader.stamp, loader.meta) /\ Older(loader.meta, json)
                             /\ library[loader.meta] = library[0]

CacheInOrder ==
    IF cache.stamp = None
    THEN cache = Empty
    ELSE /\ Older(cache.stamp, cache.model) /\ Older(cache.model, pkl)
         /\ Older(cache.stamp, cache.meta) /\ Older(cache.meta, json)
         /\ library[cache.meta] = library[0]

USE BoundsAssumption, NoneAssumption

----
\* Type correctness.

IInv == TypeOK /\ InOrder /\ LoaderInOrder /\ CacheInOrder

LEMMA InitIInv == Init => IInv
<1> SUFFICES ASSUME Init PROVE IInv
  OBVIOUS
<1>1. TypeOK
  BY DEF Init, TypeOK, File, NoLoad, NoTraining, Empty
<1> QED BY <1>1 DEF Init, IInv, InOrder, LoaderInOrder, CacheInOrder, Empty, NoLoad, NoTraining

LEMMA TypeKept ==
    ASSUME IInv, [Next]_vars
    PROVE  TypeOK'
<1>0. 1..MaxTrainings = Models /\ None \in File /\ Models \subseteq File /\ Models \subseteq Nat
  BY DEF Models, File
<1>1. CASE Train
  <2>1. trainings + 1 \in Models /\ trainings + 1 \in 0..MaxTrainings /\ library[0] \in Libraries
    BY <1>1 DEF IInv, TypeOK, Train, Models
  <2>2. library' \in [0..MaxTrainings -> Libraries]
    BY <1>1, <2>1 DEF IInv, TypeOK, Train
  <2>3. trainer' \in [pc : {"idle", "date", "retain", "describe", "promote"}, model : File]
    BY <1>0, <1>1, <2>1 DEF Train
  <2> QED BY <1>1, <2>1, <2>2, <2>3 DEF IInv, TypeOK, Train
<1>2. CASE Date
  <2>1. trainer.model \in Models
    BY <1>2 DEF IInv, TypeOK, InOrder, Date, Models
  <2> QED BY <1>0, <1>2, <2>1 DEF IInv, TypeOK, Date
<1>3. CASE Retain
  BY <1>3 DEF IInv, TypeOK, Retain, Newest
<1>4. CASE Describe
  BY <1>4 DEF IInv, TypeOK, Describe
<1>5. CASE Promote
  BY <1>0, <1>5 DEF IInv, TypeOK, Promote, NoTraining
<1>6. CASE FailTraining
  BY <1>0, <1>6 DEF IInv, TypeOK, FailTraining, NoTraining, Fault
<1>7. CASE Stat
  BY <1>0, <1>7 DEF IInv, TypeOK, Stat
<1>8. CASE ReadMetadata
  <2>1. loader' = NoLoad \/ loader' = [loader EXCEPT !.pc = "load", !.meta = json]
    BY <1>8 DEF ReadMetadata
  <2>2. loader' \in [pc : {"idle", "describe", "load"}, stamp : File, meta : File]
    <3>1. NoLoad \in [pc : {"idle", "describe", "load"}, stamp : File, meta : File]
      BY <1>0 DEF NoLoad
    <3>2. loader \in [pc : {"idle", "describe", "load"}, stamp : File, meta : File] /\ json \in File
      BY DEF IInv, TypeOK
    <3>3. [loader EXCEPT !.pc = "load", !.meta = json] \in [pc : {"idle", "describe", "load"}, stamp : File, meta : File]
      BY <3>2
    <3> QED BY <2>1, <3>1, <3>3
  <2>3. cache' \in [stamp : File, model : File, meta : File]
    BY <1>0, <1>8 DEF IInv, TypeOK, ReadMetadata, Empty
  <2> QED BY <1>8, <2>2, <2>3 DEF IInv, TypeOK, ReadMetadata
<1>9. CASE Load
  BY <1>0, <1>9 DEF IInv, TypeOK, Load, NoLoad
<1>10. CASE FailLoad
  BY <1>0, <1>10 DEF IInv, TypeOK, FailLoad, NoLoad, Fault
<1>11. CASE Restart
  <2>1. library' \in [0..MaxTrainings -> Libraries] /\ upgrades' \in 0..MaxUpgrades /\ faults' \in 0..MaxFaults
    BY <1>11 DEF IInv, TypeOK, Restart, Fault
  <2> QED BY <1>0, <1>11, <2>1 DEF IInv, TypeOK, Restart, NoLoad, NoTraining, Empty
<1>12. CASE UNCHANGED vars
  BY <1>12 DEF IInv, TypeOK, vars
<1> QED BY <1>1, <1>2, <1>3, <1>4, <1>5, <1>6, <1>7, <1>8, <1>9, <1>10, <1>11, <1>12 DEF Next, Training, Loading

----
\* The order of the files.

LEMMA Numbers ==
    ASSUME IInv
    PROVE  /\ trainings \in Nat /\ None \notin Nat
           /\ (pkl = None \/ pkl \in Nat) /\ (json = None \/ json \in Nat)
           /\ (trainer.model = None \/ trainer.model \in Nat)
           /\ (loader.stamp = None \/ loader.stamp \in Nat) /\ (loader.meta = None \/ loader.meta \in Nat)
           /\ (cache.stamp = None \/ cache.stamp \in Nat) /\ (cache.meta = None \/ cache.meta \in Nat)
           /\ (cache.model = None \/ cache.model \in Nat) /\ dated \subseteq Nat
<1>1. MaxTrainings \in Nat /\ None \notin Nat /\ Models \subseteq Nat
  BY BoundsAssumption, NoneAssumption DEF Models
<1>2. \A x \in File : x = None \/ x \in Nat
  BY <1>1 DEF File
<1>3. trainings \in Nat
  BY <1>1 DEF IInv, TypeOK
<1>4. /\ pkl \in File /\ json \in File /\ trainer.model \in File /\ dated \subseteq Models
      /\ loader.stamp \in File /\ loader.meta \in File
      /\ cache.stamp \in File /\ cache.meta \in File /\ cache.model \in File
  BY DEF IInv, TypeOK
<1> QED BY <1>1, <1>2, <1>3, <1>4

LEMMA OrderKept == ASSUME IInv, [Next]_vars PROVE InOrder'
<1>0. InOrder
  BY DEF IInv
<1>1. CASE Train
  <2>1. trainer'.pc = "date" /\ trainer'.model = trainings' /\ trainings' = trainings + 1
    BY <1>1 DEF Train
  <2>2. json # None => json <= trainings'
    BY <1>0, <2>1, Numbers DEF InOrder
  <2>3. \A m \in dated : m <= trainings'
    BY <1>0, <2>1, Numbers DEF InOrder
  <2> QED BY <1>0, <1>1, <2>1, <2>2, <2>3, Numbers DEF InOrder, Train, Older
<1>2. CASE Date
  <2>1. dated' = dated \cup {trainer.model} /\ trainer.model = trainings
    BY <1>0, <1>2 DEF Date, InOrder
  <2>2. \A m \in dated' : m <= trainings
    BY <1>0, <2>1, Numbers DEF InOrder
  <2>3. trainer'.pc = "retain" /\ trainer'.model = trainer.model
    BY <1>2 DEF Date, IInv, TypeOK
  <2> QED BY <1>0, <1>2, <2>1, <2>2, <2>3 DEF InOrder, Date, Older
<1>3. CASE Retain
  <2>1. trainer'.pc = "describe" /\ trainer'.model = trainer.model
    BY <1>3 DEF Retain, IInv, TypeOK
  <2> QED BY <1>0, <1>3, <2>1 DEF InOrder, Retain, Older, Newest
<1>4. CASE Describe
  <2>1. trainer'.pc = "promote" /\ trainer'.model = trainer.model /\ trainer.model = trainings
    BY <1>0, <1>4 DEF Describe, IInv, TypeOK, InOrder
  <2>2. json' = trainings /\ trainings' = trainings /\ UNCHANGED <<pkl, dated>>
    BY <1>4, <2>1 DEF Describe
  <2>3. pkl # None => Older(pkl, json')
    BY <1>0, <2>2, Numbers DEF InOrder, Older
  <2>4. json' <= trainings
    BY <2>2, Numbers
  <2> QED BY <1>0, <1>4, <2>1, <2>2, <2>3, <2>4 DEF InOrder, Older, Describe
<1>5. CASE Promote
  <2>1. trainer'.pc = "idle" /\ pkl' = trainings /\ json = trainings /\ UNCHANGED <<json, dated, trainings>>
    BY <1>0, <1>5 DEF Promote, NoTraining, InOrder
  <2>2. Older(pkl', json')
    BY <2>1, Numbers DEF Older
  <2> QED BY <1>0, <2>1, <2>2 DEF InOrder
<1>6. CASE FailTraining
  BY <1>0, <1>6 DEF FailTraining, NoTraining, InOrder, Older
<1>7. CASE Restart
  BY <1>0, <1>7 DEF Restart, NoTraining, InOrder, Older
<1>8. CASE Loading \/ FailLoad \/ UNCHANGED vars
  BY <1>0, <1>8 DEF Loading, Stat, ReadMetadata, Load, FailLoad, vars, InOrder, Older
<1> QED BY <1>1, <1>2, <1>3, <1>4, <1>5, <1>6, <1>7, <1>8 DEF Next, Training

\* Both files only ever get newer.
LEMMA FilesAdvance ==
    ASSUME IInv, [Next]_vars
    PROVE  /\ pkl # None => Older(pkl, pkl')
           /\ json # None => Older(json, json')
<1>0. InOrder
  BY DEF IInv
<1>1. CASE Describe
  <2>1. json' = trainings /\ pkl' = pkl
    BY <1>0, <1>1 DEF Describe, InOrder
  <2> QED BY <1>0, <2>1, Numbers DEF InOrder, Older
<1>2. CASE Promote
  <2>1. pkl' = trainings /\ json' = json
    BY <1>0, <1>2 DEF Promote, InOrder
  <2>2. pkl # None => pkl <= trainings
    BY <1>0, Numbers DEF InOrder, Older
  <2> QED BY <2>1, <2>2, Numbers DEF Older
<1>3. CASE UNCHANGED <<pkl, json>>
  BY <1>3, Numbers DEF Older
<1> QED BY <1>1, <1>2, <1>3 DEF Next, Train, Training, Date, Retain, FailTraining, Loading, Stat, ReadMetadata,
           Load, FailLoad, Restart, vars

LEMMA OlderTransitive ==
    ASSUME NEW a, NEW b, NEW c, {a, b, c} \subseteq Nat \cup {None}, Older(a, b), Older(b, c)
    PROVE  Older(a, c)
  BY DEF Older

\* Which library trained a model on disk does not change, and what runs changes only at a restart.
LEMMA LibraryKept ==
    ASSUME IInv, [Next]_vars, ~Restart
    PROVE  \A m \in 0..trainings : library'[m] = library[m]
<1>1. CASE Train
  <2>1. library' = [library EXCEPT ![trainings + 1] = library[0]]
    BY <1>1 DEF Train
  <2> QED BY <2>1, Numbers DEF IInv, TypeOK
<1>2. CASE ~Train
  BY <1>2 DEF Next, Training, Date, Retain, Describe, Promote, FailTraining, Loading, Stat, ReadMetadata, Load,
     FailLoad, vars
<1> QED BY <1>1, <1>2

LEMMA NumbersNext == ASSUME IInv, [Next]_vars PROVE {pkl', json'} \subseteq Nat \cup {None}
  BY TypeKept DEF TypeOK, File, Models

LEMMA LoaderFrame == ASSUME IInv, [Next]_vars, ~Restart, UNCHANGED loader PROVE LoaderInOrder'
<1>0. LoaderInOrder
  BY DEF IInv
<1>1. loader.pc # "idle" => Older(loader.stamp, pkl')
  <2> SUFFICES ASSUME loader.pc # "idle" PROVE Older(loader.stamp, pkl')
    OBVIOUS
  <2>1. Older(loader.stamp, pkl) /\ Older(pkl, pkl')
    BY <1>0, FilesAdvance DEF LoaderInOrder, Older
  <2> QED BY <2>1, NumbersNext, Numbers, OlderTransitive
<1>2. ASSUME loader.pc = "load"
      PROVE  /\ Older(loader.stamp, loader.meta) /\ Older(loader.meta, json')
             /\ library'[loader.meta] = library'[0]
  <2>1. Older(loader.stamp, loader.meta) /\ Older(loader.meta, json) /\ Older(json, json')
    BY <1>0, <1>2, FilesAdvance DEF LoaderInOrder, Older
  <2>2. Older(loader.meta, json')
    BY <2>1, NumbersNext, Numbers, OlderTransitive
  <2>3. loader.meta \in 0..trainings /\ 0 \in 0..trainings
    BY <2>1, Numbers DEF IInv, InOrder, Older
  <2> QED BY <1>0, <1>2, <2>1, <2>2, <2>3, LibraryKept DEF LoaderInOrder
<1> QED BY <1>1, <1>2 DEF LoaderInOrder

LEMMA LoaderKept == ASSUME IInv, [Next]_vars PROVE LoaderInOrder'
<1>1. CASE Stat
  BY <1>1, Numbers DEF Stat, LoaderInOrder, Older
<1>2. CASE ReadMetadata
  <2>1. CASE loader' = NoLoad
    BY <2>1 DEF NoLoad, LoaderInOrder
  <2>2. CASE loader' # NoLoad
    <3>1. /\ loader'.pc = "load" /\ loader'.meta = json /\ loader'.stamp = loader.stamp
          /\ UNCHANGED <<pkl, json, library>> /\ (json # None => library[json] = library[0])
      BY <1>2, <2>2 DEF ReadMetadata, IInv, TypeOK
    <3>2. Older(loader.stamp, pkl) /\ Older(pkl, json)
      BY <1>2 DEF IInv, LoaderInOrder, InOrder, ReadMetadata, Older
    <3>3. Older(loader.stamp, json) /\ Older(json, json)
      BY <3>2, Numbers DEF Older
    <3> QED BY <3>1, <3>2, <3>3 DEF LoaderInOrder, Older
  <2> QED BY <2>1, <2>2
<1>3. CASE loader' = NoLoad
  BY <1>3 DEF NoLoad, LoaderInOrder
<1>4. CASE UNCHANGED loader /\ ~Restart
  BY <1>4, LoaderFrame
<1>5. Stat \/ ReadMetadata \/ loader' = NoLoad \/ (UNCHANGED loader /\ ~Restart)
  <2>1. Restart \/ Load \/ FailLoad => loader' = NoLoad
    BY DEF Restart, Load, FailLoad
  <2>2. Train \/ Training \/ FailTraining \/ UNCHANGED vars => UNCHANGED loader
    BY DEF Train, Training, Date, Retain, Describe, Promote, FailTraining, vars
  <2> QED BY <2>1, <2>2 DEF Next, Loading
<1> QED BY <1>1, <1>2, <1>3, <1>4, <1>5

LEMMA CacheFrame == ASSUME IInv, [Next]_vars, ~Restart, UNCHANGED cache PROVE CacheInOrder'
<1>0. CacheInOrder
  BY DEF IInv
<1> SUFFICES ASSUME cache.stamp # None
             PROVE  /\ Older(cache.stamp, cache.model) /\ Older(cache.model, pkl')
                    /\ Older(cache.stamp, cache.meta) /\ Older(cache.meta, json')
                    /\ library'[cache.meta] = library'[0]
  BY <1>0 DEF CacheInOrder
<1>1. /\ Older(cache.stamp, cache.model) /\ Older(cache.model, pkl) /\ Older(cache.stamp, cache.meta)
      /\ Older(cache.meta, json) /\ library[cache.meta] = library[0]
  BY <1>0 DEF CacheInOrder
<1>2. Older(pkl, pkl') /\ Older(json, json')
  BY <1>1, FilesAdvance DEF Older
<1>3. Older(cache.model, pkl') /\ Older(cache.meta, json')
  BY <1>1, <1>2, NumbersNext, Numbers, OlderTransitive
<1>4. cache.meta \in 0..trainings /\ 0 \in 0..trainings
  BY <1>1, Numbers DEF IInv, InOrder, Older
<1> QED BY <1>1, <1>3, <1>4, LibraryKept

LEMMA CacheKept == ASSUME IInv, [Next]_vars PROVE CacheInOrder'
<1>1. CASE Load
  <2>1. /\ cache'.stamp = loader.stamp /\ cache'.model = pkl /\ cache'.meta = loader.meta
        /\ UNCHANGED <<pkl, json, library>>
    BY <1>1 DEF Load
  <2>2. /\ Older(loader.stamp, pkl) /\ Older(loader.stamp, loader.meta) /\ Older(loader.meta, json)
        /\ library[loader.meta] = library[0]
    BY <1>1 DEF Load, IInv, LoaderInOrder
  <2>3. Older(pkl, pkl)
    BY <2>2, Numbers DEF Older
  <2> QED BY <2>1, <2>2, <2>3 DEF CacheInOrder, Older
<1>2. CASE cache' = Empty
  BY <1>2 DEF CacheInOrder, Empty
<1>3. CASE UNCHANGED cache /\ ~Restart
  BY <1>3, CacheFrame
<1>4. Load \/ cache' = Empty \/ (UNCHANGED cache /\ ~Restart)
  <2>1. Restart => cache' = Empty
    BY DEF Restart
  <2>2. ReadMetadata => cache' = Empty \/ UNCHANGED cache
    BY DEF ReadMetadata
  <2>3. Train \/ Training \/ FailTraining \/ Stat \/ FailLoad \/ UNCHANGED vars => UNCHANGED cache
    BY DEF Train, Training, Date, Retain, Describe, Promote, FailTraining, Stat, FailLoad, vars
  <2> QED BY <2>1, <2>2, <2>3 DEF Next, Loading
<1> QED BY <1>1, <1>2, <1>3, <1>4

----
LEMMA Invariant == Spec => []IInv
<1>1. IInv /\ [Next]_vars => IInv'
  BY TypeKept, OrderKept, LoaderKept, CacheKept DEF IInv
<1> QED BY <1>1, InitIInv, PTL DEF Spec

\* The model files, the training job, a loading prediction and the cache keep their types,
\* whatever crashes, upgrades, failed writes and loads, and undeletable copies there are.
THEOREM StoreTypeCorrect == Spec => []TypeOK
<1>1. IInv => TypeOK
  BY DEF IInv
<1> QED BY <1>1, Invariant, PTL

\* What a prediction says of its model is true when the files on disk belong together and the cache
\* has the stamp of the model file; and a model is never served under its own version if another
\* library trained it (_load_model of inference.py against train_isolation_forest of trainer.py).
THEOREM PredictionsAreDescribed == Spec => []ServedAsDescribed
<1>1. ASSUME IInv PROVE ServedAsDescribed
  <2>1. ASSUME cache.stamp = pkl, json = pkl PROVE Served = [model |-> pkl, version |-> pkl]
    <3>1. CASE pkl = None
      BY <1>1, <2>1, <3>1 DEF IInv, CacheInOrder, Empty, Served
    <3>2. CASE pkl # None
      <4>1. Older(pkl, cache.model) /\ Older(cache.model, pkl) /\ Older(pkl, cache.meta) /\ Older(cache.meta, pkl)
        BY <1>1, <2>1, <3>2 DEF IInv, CacheInOrder
      <4>2. cache.model = pkl /\ cache.meta = pkl
        BY <1>1, <4>1, Numbers DEF Older
      <4> QED BY <4>2 DEF Served
    <3> QED BY <3>1, <3>2
  <2>2. ASSUME Served.model # None, Served.version = Served.model PROVE library[Served.model] = library[0]
    <3>1. cache.stamp # None
      BY <1>1, <2>2 DEF IInv, CacheInOrder, Empty, Served
    <3> QED BY <1>1, <2>2, <3>1 DEF IInv, CacheInOrder, Served
  <2> QED BY <2>1, <2>2 DEF ServedAsDescribed
<1> QED BY <1>1, Invariant, PTL
====
