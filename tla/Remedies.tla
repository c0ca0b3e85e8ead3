---- MODULE Remedies ----
(***************************************************************************)
(* What the two remedies that change settings, limit_lambda and apply_tags,*)
(* do to one function or bucket, and what their undo puts back, while      *)
(* people change the same settings.  Translated from the capture, mutation,*)
(* verification and undo of backend/app/services/action_runner.py and the  *)
(* calls of adapters/aws.py they make.  ActionRunner models the life of an *)
(* action around them: approval, claims, the kill switch, two runners.     *)
(*                                                                         *)
(* No call of the provider is conditional, and a bucket's tags can only be *)
(* replaced as a whole, so a setting can change between the look at it and *)
(* the write.                                                              *)
(***************************************************************************)
EXTENDS Naturals

CONSTANTS
    Types,         \* of the resource: "lambda" or "s3"
    Required,      \* the tags every resource must have
    Others,        \* tags nobody requires
    Marker,        \* AUTO_TAG_MARKER
    Limit,         \* LAMBDA_CONCURRENCY_LIMIT
    Top,           \* the highest concurrency a person reserves
    None,          \* no reservation, and an answer that could not be had
    MaxEdits,      \* bound on the changes people make
    MaxFaults      \* bound on the calls that fail and the runs that are interrupted

ASSUME TypesAssumption == Types \subseteq {"lambda", "s3"}
ASSUME KeysAssumption == Marker \notin Required \cup Others /\ "conc" \notin Required \cup Others \cup {Marker}
ASSUME LimitAssumption == Limit \in 1..Top /\ Top \in Nat /\ None \notin Nat
ASSUME BoundsAssumption == MaxEdits \in Nat /\ MaxFaults \in Nat

Tags == Required \cup Others \cup {Marker}
Settings == Tags \cup {"conc"}
Concurrency == 0..Top \cup {None}
TagSets == [Tags -> {"absent", "human", "ours"}]

VARIABLES
    type,
    tags, conc,     \* the settings of the resource
    copy,           \* resources.tags
    act,            \* the action and its undo: what comes next, whether it is the undo, its
                    \* pre_state, the keys of the write under way, a bucket's tags as read for it
    \* not in the code:
    orig,           \* the settings, and the row, as the action found them
    touched,        \* what people changed since
    unseen,         \* of that, and of what they had set before, what the agent has not read, or failed
                    \* to read, in the reading it decides by
    edits, faults

world == <<type, tags, conc, copy>>
ghosts == <<orig, touched, unseen>>
vars == <<world, act, ghosts, edits, faults>>

Phases == {"rest", "call", "put", "confirm", "check", "limit", "verify", "completed", "failed", "undone"}

TypeOK ==
    /\ type \in Types /\ tags \in TagSets /\ conc \in Concurrency /\ copy \in TagSets
    /\ act \in [pc : Phases, undo : BOOLEAN, kind : {"limit_lambda", "apply_tags"},
                stored : Concurrency, added : SUBSET Tags, write : SUBSET Tags, seen : TagSets]
    /\ act.kind = "limit_lambda" => act.added = {} /\ act.write = {}
    /\ act.added # {} => Marker \in act.added
    /\ orig \in [tags : TagSets, conc : Concurrency, row : TagSets]
    /\ touched \subseteq Settings /\ unseen \subseteq Settings
    /\ edits \in 0..MaxEdits /\ faults \in 0..MaxFaults

Init ==
    /\ type \in Types
    /\ tags \in [Tags -> {"absent", "human"}] /\ tags[Marker] = "absent"
    /\ conc \in IF type = "lambda" THEN Concurrency ELSE {None}
    /\ copy = tags
    /\ act = [pc |-> "rest", undo |-> FALSE, kind |-> "apply_tags", stored |-> None,
              added |-> {}, write |-> {}, seen |-> tags]
    /\ orig = [tags |-> tags, conc |-> conc, row |-> copy] /\ touched = {} /\ unseen = {}
    /\ edits = 0 /\ faults = 0

Fault == faults < MaxFaults /\ faults' = faults + 1
At(pc) == act.pc = pc
To(pc) == act' = [act EXCEPT !.pc = pc]
Resting == act.pc \in {"rest", "completed", "failed", "undone"}

\* A failed undo is unlinked from its action, which may be undone again.
GiveUp == IF act.undo THEN "completed" ELSE "failed"

----
\* People and discovery.

Edit ==
    /\ edits < MaxEdits /\ edits' = edits + 1
    /\ \/ \E k \in Tags, v \in {"absent", "human"} :
             /\ tags[k] # v /\ (k = Marker => v = "absent")
             /\ tags' = [tags EXCEPT ![k] = v]
             /\ touched' = touched \cup {k} /\ unseen' = unseen \cup {k}
             /\ UNCHANGED conc
       \/ /\ type = "lambda" /\ \E c \in Concurrency \ {conc} : conc' = c
          /\ touched' = touched \cup {"conc"} /\ unseen' = unseen \cup {"conc"}
          /\ UNCHANGED tags
    /\ UNCHANGED <<type, copy, act, orig, faults>>

\* discover_functions and discover_buckets: tags that cannot be read are stored as none.
Refresh ==
    /\ \/ copy' = tags /\ UNCHANGED faults
       \/ copy' = [k \in Tags |-> "absent"] /\ Fault
    /\ UNCHANGED <<type, tags, conc, act, ghosts, edits>>

----
\* Reading the limit: None both for no reservation and for an error (get_function_concurrency).
ReadConc(c) == \/ c = conc /\ UNCHANGED faults /\ UNCHANGED unseen
               \/ c = None /\ Fault /\ unseen' = unseen \cup {"conc"}

\* _capture_pre_state, limit_lambda: the reservation to restore.
BeginLimit ==
    /\ Resting /\ type = "lambda"
    /\ \E c \in Concurrency :
          /\ \/ c = conc /\ UNCHANGED faults /\ unseen' = {}
             \/ c = None /\ Fault /\ unseen' = {"conc"}
          /\ act' = [act EXCEPT !.pc = "check", !.undo = FALSE, !.kind = "limit_lambda",
                                !.stored = c, !.added = {}, !.write = {}]
    /\ orig' = [tags |-> tags, conc |-> conc, row |-> copy] /\ touched' = {}
    /\ UNCHANGED <<world, edits>>

\* Seeded fault: the marker is not added.
MissingUnmarked(row) == {k \in Required : row[k] = "absent"}

\* Seeded fault: the tags the row has are written again.
MissingAll(row) == Required \cup {Marker}

\* _missing_tags, of the row and not of the resource.
Missing(row) ==
    LET missing == {k \in Required : row[k] = "absent"} IN
    IF missing = {} THEN {} ELSE missing \cup {Marker}

\* _capture_pre_state and _mutate, apply_tags: both go by the row loaded with the action.
BeginTags ==
    /\ Resting
    /\ LET missing == Missing(copy) IN
       act' = [act EXCEPT !.pc = IF missing = {} THEN "completed" ELSE "call", !.undo = FALSE,
                          !.kind = "apply_tags", !.stored = None, !.added = missing, !.write = missing]
    /\ unseen' = {k \in Tags : copy[k] = "absent" /\ tags[k] = "human"}
    /\ orig' = [tags |-> tags, conc |-> conc, row |-> copy] /\ touched' = {}
    /\ UNCHANGED <<world, edits, faults>>

\* Seeded fault: everything the action added is removed, whatever its value is by now.
StillOursAll(keys) == keys

\* Of the keys that were added, those whose value is still the one that was written.
StillOurs(keys) == {k \in keys : tags[k] = "ours"}

\* _remove_added_tags reads the live tags and decides by them.
BeginUndoTags ==
    /\ At("completed") /\ act.kind = "apply_tags"
    /\ LET keys == StillOurs(act.added) IN
       act' = [act EXCEPT !.undo = TRUE, !.write = keys,
                          !.pc = IF act.added = {} THEN "undone"
                                 ELSE IF keys = {} THEN "confirm" ELSE "call"]
    /\ unseen' = unseen \ Tags
    /\ UNCHANGED <<world, orig, touched, edits, faults>>

----
\* apply_tags and remove_tags of the adapter.

Written(base) == [k \in Tags |-> IF k \notin act.write THEN base[k]
                                 ELSE IF act.undo THEN "absent" ELSE "ours"]

\* A call that answers; one that took effect and whose answer is lost counts as failed.
Answers(pc) == \/ To(pc) /\ UNCHANGED faults
               \/ To(GiveUp) /\ Fault

\* A function's tags are set and removed key by key.
WriteKeys ==
    /\ At("call") /\ type = "lambda"
    /\ tags' = Written(tags) /\ Answers("confirm")
    /\ UNCHANGED <<type, conc, copy, ghosts, edits>>

\* A bucket's are read, merged and replaced.
ReadSet ==
    /\ At("call") /\ type = "s3"
    /\ act' = [act EXCEPT !.pc = "put", !.seen = tags]
    /\ unseen' = unseen \ (Tags \ act.write)
    /\ UNCHANGED <<world, orig, touched, edits, faults>>

PutSet ==
    /\ At("put")
    /\ tags' = Written(act.seen) /\ Answers("confirm")
    /\ UNCHANGED <<type, conc, copy, ghosts, edits>>

\* The read-back, which also refreshes the row.
ConfirmTags ==
    /\ At("confirm") /\ act.kind = "apply_tags"
    /\ IF \A k \in act.write : tags[k] = IF act.undo THEN "absent" ELSE "ours"
       THEN copy' = tags /\ To(IF act.undo THEN "undone" ELSE "completed")
       ELSE To(GiveUp) /\ UNCHANGED copy
    /\ UNCHANGED <<type, tags, conc, ghosts, edits, faults>>

----
\* limit_lambda.

\* A function reserved at or below the limit keeps what it has.
CheckLimit ==
    /\ At("check")
    /\ \E c \in Concurrency :
          /\ ReadConc(c)
          /\ To(IF c # None /\ c <= Limit THEN "completed" ELSE "limit")
    /\ UNCHANGED <<world, orig, touched, edits>>

PutLimit ==
    /\ At("limit")
    /\ conc' = Limit /\ Answers("verify")
    /\ UNCHANGED <<type, tags, copy, ghosts, edits>>

\* verify_pending, until the timeout.
VerifyLimit ==
    /\ At("verify")
    /\ IF conc = Limit THEN To("completed") ELSE To("failed")
    /\ UNCHANGED <<world, ghosts, edits, faults>>

\* rollback_action, limit_lambda: put back what was captured, without a look at what is there.
UndoLimit ==
    /\ At("completed") /\ act.kind = "limit_lambda"
    /\ conc' = act.stored
    /\ \/ act' = [act EXCEPT !.pc = "confirm", !.undo = TRUE] /\ UNCHANGED faults
       \/ UNCHANGED act /\ Fault
    /\ UNCHANGED <<type, tags, copy, ghosts, edits>>

\* Its read-back: a failed read confirms that there is no reservation.
ConfirmLimit ==
    /\ At("confirm") /\ act.kind = "limit_lambda"
    /\ \E c \in Concurrency :
          /\ ReadConc(c)
          /\ To(IF c = act.stored THEN "undone" ELSE "completed")
    /\ UNCHANGED <<world, orig, touched, edits>>

\* A call or a read that fails, an interrupted run whose claim goes stale, a verification that
\* times out on failed reads.
Break ==
    /\ ~Resting /\ Fault
    /\ To(GiveUp)
    /\ UNCHANGED <<world, ghosts, edits>>

----
Step == \/ BeginLimit \/ CheckLimit \/ PutLimit \/ VerifyLimit \/ UndoLimit \/ ConfirmLimit
        \/ BeginTags \/ BeginUndoTags \/ WriteKeys \/ ReadSet \/ PutSet \/ ConfirmTags
        \/ Break

Next == Edit \/ Refresh \/ Step

Spec == Init /\ [][Next]_vars

----
\* Properties.

Looser(c, d) == d # None /\ (c = None \/ c > d)

\* "A limit must never loosen", "a tag a human has since set to a real value is kept", "a rollback
\* removes only that" (action_runner.py): what the agent writes changes no tag but those it means to
\* write, destroys no value a person gave a tag, and raises no limit except back to where the action
\* found it; unless a person changed it after the agent looked, or its look failed or went by a row
\* that did not show it.
HumanSettingsSurvive ==
    [][edits' = edits =>
          /\ \A k \in Tags : tags'[k] # tags[k] /\ (k \notin act.write \/ tags[k] = "human") => k \in unseen
          /\ Looser(conc', conc) => "conc" \in unseen \/ (At("completed") /\ conc' = orig.conc)]_vars

\* An undo that is reported as done has put back what the action found, also when it took several
\* tries, but for what people changed in between and a limit that could not be read; and it has
\* removed what the action added, be it in place of a tag that the row did not show or a marker of
\* an earlier action.
UndoRestores ==
    [][~At("undone") /\ act'.pc = "undone" =>
          /\ \A k \in Tags \ touched : \/ tags[k] = orig.tags[k]
                                       \/ k \in act.added /\ orig.row[k] # "human" /\ tags[k] = "absent"
          /\ conc = orig.conc \/ "conc" \in touched \cup unseen]_vars
====
