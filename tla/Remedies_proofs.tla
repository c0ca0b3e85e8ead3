---- MODULE Remedies_proofs ----
(***************************************************************************)
(* Proofs about Remedies, for any tags, limits, changes by people and      *)
(* failures: types, that what people set survives, and that an undo puts   *)
(* back what the action found.                                             *)
(*                                                                         *)
(* Both properties are about single steps, and neither follows from the    *)
(* step alone.  What a write destroys depends on what was read before it   *)
(* and changed since (Informed); what an undo restores depends on what the *)
(* action, and earlier tries of the undo, did to the settings (Restorable, *)
(* Undoing, Reserved).                                                     *)
(***************************************************************************)
EXTENDS Remedies, TLAPS

Acts == [pc : Phases, undo : BOOLEAN, kind : {"limit_lambda", "apply_tags"},
         stored : Concurrency, added : SUBSET Tags, write : SUBSET Tags, seen : TagSets]

Tagging == act.kind = "apply_tags"

\* Which remedy is in which phase, and which keys it writes.
Kinds ==
    /\ act.pc \in {"call", "put"} => Tagging
    /\ act.pc \in {"check", "limit", "verify"} => ~Tagging
    /\ Tagging /\ act.pc \in {"call", "put", "confirm"} =>
          act.write \subseteq act.added /\ (~act.undo => act.write = act.added)

\* Nobody but the agent sets the marker.
Marked ==
    /\ tags[Marker] # "human" /\ copy[Marker] # "human" /\ orig.row[Marker] # "human"
    /\ At("put") => act.seen[Marker] # "human"

\* What is about to be overwritten was read as it is, or counts as unseen.
Informed ==
    /\ act.pc \in {"call", "put"} => \A k \in act.write : tags[k] = "human" => k \in unseen
    /\ At("put") => \A k \in Tags \ act.write : act.seen[k] # tags[k] => k \in unseen
    /\ At("limit") => ~Looser(Limit, conc) \/ "conc" \in unseen
    /\ ~Tagging => act.stored = orig.conc \/ "conc" \in unseen

\* Tags that the action does not add stay as it found them, also through a replacement of them all.
Restorable ==
    /\ \A k \in Tags \ touched : k \notin act.added => tags[k] = orig.tags[k]
    /\ \A k \in act.added : orig.row[k] # "human"
    /\ At("put") => \A k \in Tags \ touched : act.seen[k] = tags[k]

\* What becomes of the tags that the action adds.
Undoing ==
    Tagging => \A k \in act.added \ touched :
       /\ At("completed") => tags[k] \in {"ours", "absent"}
       /\ act.undo /\ act.pc \in {"call", "put"} => tags[k] = "absent" \/ (tags[k] = "ours" /\ k \in act.write)
       /\ act.undo /\ At("confirm") => tags[k] = "absent"

\* What becomes of the reservation.
Reserved ==
    /\ ~Tagging /\ At("confirm") => conc = act.stored \/ "conc" \in touched
    /\ Tagging => conc = orig.conc \/ "conc" \in touched

IInv == TypeOK /\ Kinds /\ Marked /\ Informed /\ Restorable /\ Undoing /\ Reserved

USE KeysAssumption, LimitAssumption, BoundsAssumption, TypesAssumption

----
\* Type correctness.

LEMMA ActType ==
    ASSUME TypeOK
    PROVE  /\ act \in Acts /\ act.write \subseteq Tags /\ act.added \subseteq Tags /\ act.seen \in TagSets
           /\ act.stored \in Concurrency /\ act.pc \in Phases /\ act.kind \in {"limit_lambda", "apply_tags"}
           /\ act.undo \in BOOLEAN
  BY DEF TypeOK, Acts

LEMMA PhaseType ==
    ASSUME TypeOK, NEW pc \in Phases, To(pc)
    PROVE  /\ act' \in Acts /\ act'.pc = pc /\ act'.undo = act.undo /\ act'.kind = act.kind
           /\ act'.stored = act.stored /\ act'.added = act.added /\ act'.write = act.write
           /\ act'.seen = act.seen
  BY ActType DEF To, Acts

LEMMA GiveUpType == GiveUp \in Phases
  BY DEF GiveUp, Phases

LEMMA MissingType ==
    ASSUME NEW row \in TagSets
    PROVE  Missing(row) \in SUBSET Tags /\ (Missing(row) # {} => Marker \in Missing(row))
  BY DEF Missing, Tags

LEMMA WrittenType ==
    ASSUME NEW base \in TagSets
    PROVE  Written(base) \in TagSets
  BY DEF Written, TagSets

LEMMA FaultType == ASSUME TypeOK, Fault PROVE faults' \in 0..MaxFaults
  BY DEF TypeOK, Fault

LEMMA ConcType == None \in Concurrency /\ Limit \in Concurrency /\ "conc" \in Settings /\ Tags \subseteq Settings
  BY DEF Concurrency, Settings

ActTypes ==
    /\ act \in Acts
    /\ act.kind = "limit_lambda" => act.added = {} /\ act.write = {}
    /\ act.added # {} => Marker \in act.added

TypeParts ==
    /\ type \in Types /\ tags \in TagSets /\ conc \in Concurrency /\ copy \in TagSets
    /\ ActTypes
    /\ orig \in [tags : TagSets, conc : Concurrency, row : TagSets]
    /\ touched \subseteq Settings /\ unseen \subseteq Settings
    /\ edits \in 0..MaxEdits /\ faults \in 0..MaxFaults

LEMMA TypesSplit == (TypeOK <=> TypeParts) /\ (TypeOK' <=> TypeParts')
  BY DEF TypeOK, TypeParts, ActTypes, Acts

LEMMA ToTypes == ASSUME TypeOK, NEW pc \in Phases, To(pc) PROVE ActTypes'
  BY PhaseType, TypesSplit DEF TypeParts, ActTypes

\* What each step makes of the action.

LEMMA BeginLimitAct ==
    ASSUME TypeOK, BeginLimit
    PROVE  /\ act' \in Acts /\ act'.pc = "check" /\ ~act'.undo /\ act'.kind = "limit_lambda"
           /\ act'.added = {} /\ act'.write = {} /\ act'.seen = act.seen
           /\ act'.stored = conc \/ unseen' = {"conc"}
           /\ unseen' \subseteq Settings /\ faults' \in 0..MaxFaults
  <1>1. PICK c \in Concurrency :
           /\ (c = conc /\ UNCHANGED faults /\ unseen' = {}) \/ (c = None /\ Fault /\ unseen' = {"conc"})
           /\ act' = [act EXCEPT !.pc = "check", !.undo = FALSE, !.kind = "limit_lambda",
                                 !.stored = c, !.added = {}, !.write = {}]
    BY DEF BeginLimit
  <1>2. faults' \in 0..MaxFaults
    BY <1>1, FaultType DEF TypeOK
  <1> QED
    BY <1>1, <1>2, ActType, ConcType DEF Acts, Phases

LEMMA BeginTagsAct ==
    ASSUME TypeOK, BeginTags
    PROVE  /\ act' \in Acts /\ act'.pc = (IF Missing(copy) = {} THEN "completed" ELSE "call")
           /\ ~act'.undo /\ act'.kind = "apply_tags"
           /\ act'.added = Missing(copy) /\ act'.write = Missing(copy) /\ act'.seen = act.seen
  <1>1. Missing(copy) \in SUBSET Tags
    BY MissingType DEF TypeOK
  <1> QED
    BY <1>1, ActType, ConcType DEF BeginTags, Acts, Phases

LEMMA BeginUndoTagsAct ==
    ASSUME TypeOK, BeginUndoTags
    PROVE  /\ act' \in Acts /\ act'.undo /\ act'.kind = "apply_tags"
           /\ act'.pc = (IF act.added = {} THEN "undone"
                         ELSE IF StillOurs(act.added) = {} THEN "confirm" ELSE "call")
           /\ act'.added = act.added /\ act'.write = StillOurs(act.added) /\ act'.seen = act.seen
           /\ act'.stored = act.stored
           /\ StillOurs(act.added) = {k \in act.added : tags[k] = "ours"}
  BY ActType DEF BeginUndoTags, StillOurs, Acts, Phases

LEMMA ReadSetAct ==
    ASSUME TypeOK, ReadSet
    PROVE  /\ act' \in Acts /\ act'.pc = "put" /\ act'.undo = act.undo /\ act'.kind = act.kind
           /\ act'.added = act.added /\ act'.write = act.write /\ act'.seen = tags
           /\ act'.stored = act.stored
  BY ActType DEF ReadSet, Acts, Phases, TypeOK

LEMMA UndoLimitAct ==
    ASSUME TypeOK, UndoLimit
    PROVE  /\ act' \in Acts /\ act'.kind = "limit_lambda" /\ act.kind = "limit_lambda"
           /\ act'.added = act.added /\ act'.write = act.write /\ act'.seen = act.seen
           /\ act'.stored = act.stored
           /\ act'.pc = "confirm" \/ (act'.pc = "completed" /\ act' = act)
           /\ faults' \in 0..MaxFaults
  <1>1. faults' \in 0..MaxFaults
    BY FaultType DEF UndoLimit, TypeOK
  <1> QED
    BY <1>1, ActType DEF UndoLimit, Acts, Phases, At

\* A step that only moves the action on.
Moves(pcs) == \E pc \in pcs : To(pc)

LEMMA MovesAct ==
    ASSUME TypeOK, NEW pcs \in SUBSET Phases, Moves(pcs)
    PROVE  /\ act' \in Acts /\ act'.pc \in pcs /\ act'.undo = act.undo /\ act'.kind = act.kind
           /\ act'.stored = act.stored /\ act'.added = act.added /\ act'.write = act.write
           /\ act'.seen = act.seen
           /\ ActTypes'
  BY PhaseType, ToTypes DEF Moves

LEMMA AnswersMoves ==
    ASSUME TypeOK, NEW pc \in Phases, Answers(pc)
    PROVE  Moves({pc, GiveUp}) /\ {pc, GiveUp} \subseteq Phases /\ faults' \in 0..MaxFaults
  <1>1. faults' \in 0..MaxFaults
    BY FaultType DEF Answers, TypeOK
  <1> QED
    BY <1>1, GiveUpType DEF Answers, Moves

LEMMA ReadConcEffect ==
    ASSUME TypeOK, NEW c, ReadConc(c)
    PROVE  /\ c = conc \/ "conc" \in unseen'
           /\ unseen \subseteq unseen' /\ unseen' \subseteq Settings
           /\ faults' \in 0..MaxFaults
  <1>1. faults' \in 0..MaxFaults
    BY FaultType DEF ReadConc, TypeOK
  <1> QED
    BY <1>1, ConcType DEF ReadConc, TypeOK

LEMMA CheckLimitMoves ==
    ASSUME TypeOK, CheckLimit
    PROVE  /\ Moves({"completed", "limit"}) /\ {"completed", "limit"} \subseteq Phases
           /\ unseen \subseteq unseen' /\ unseen' \subseteq Settings /\ faults' \in 0..MaxFaults
           /\ act'.pc = "limit" => ~Looser(Limit, conc) \/ "conc" \in unseen'
  <1>1. PICK c \in Concurrency :
           ReadConc(c) /\ To(IF c # None /\ c <= Limit THEN "completed" ELSE "limit")
    BY DEF CheckLimit
  <1>2. {"completed", "limit"} \subseteq Phases
    BY DEF Phases
  <1>3. Moves({"completed", "limit"})
    BY <1>1 DEF Moves
  <1>4. ASSUME act'.pc = "limit" PROVE ~(c # None /\ c <= Limit)
    BY <1>1, <1>2, <1>4, PhaseType
  <1>5. c = None \/ (c \in Nat /\ Limit \in Nat /\ (~(c <= Limit) => ~(Limit > c)))
    BY DEF Concurrency
  <1> QED
    BY <1>1, <1>2, <1>3, <1>4, <1>5, ReadConcEffect DEF Looser

LEMMA ConfirmLimitMoves ==
    ASSUME TypeOK, ConfirmLimit
    PROVE  /\ Moves({"undone", "completed"}) /\ {"undone", "completed"} \subseteq Phases
           /\ unseen \subseteq unseen' /\ unseen' \subseteq Settings /\ faults' \in 0..MaxFaults
  <1>1. PICK c \in Concurrency :
           ReadConc(c) /\ To(IF c = act.stored THEN "undone" ELSE "completed")
    BY DEF ConfirmLimit
  <1> QED
    BY <1>1, ReadConcEffect DEF Moves, Phases

LEMMA ConfirmTagsMoves ==
    ASSUME TypeOK, ConfirmTags
    PROVE  /\ Moves({"undone", "completed", "failed"}) /\ {"undone", "completed", "failed"} \subseteq Phases
           /\ copy' = tags \/ copy' = copy
  BY DEF ConfirmTags, GiveUp, Moves, Phases

LEMMA VerifyLimitMoves ==
    ASSUME TypeOK, VerifyLimit
    PROVE  Moves({"completed", "failed"}) /\ {"completed", "failed"} \subseteq Phases
  BY DEF VerifyLimit, Moves, Phases

LEMMA BreakMoves ==
    ASSUME TypeOK, Break
    PROVE  Moves({"completed", "failed"}) /\ {"completed", "failed"} \subseteq Phases /\ faults' \in 0..MaxFaults
  BY FaultType DEF Break, GiveUp, Moves, Phases

LEMMA TypesKept ==
    ASSUME TypeOK, [Next]_vars
    PROVE  TypeOK'
  <1> SUFFICES TypeParts'
    BY TypesSplit
  <1> USE TypesSplit DEF TypeParts
  <1>1. CASE UNCHANGED vars
    BY <1>1 DEF vars, world, ghosts, ActTypes, Acts
  <1>2. CASE Edit
    <2>1. tags' \in TagSets /\ conc' \in Concurrency /\ touched' \subseteq Settings /\ unseen' \subseteq Settings
      <3>1. CASE \E k \in Tags, v \in {"absent", "human"} :
               tags' = [tags EXCEPT ![k] = v] /\ touched' = touched \cup {k} /\ unseen' = unseen \cup {k}
               /\ UNCHANGED conc
        BY <3>1 DEF TypeOK, TagSets, Settings
      <3>2. CASE /\ \E c \in Concurrency \ {conc} : conc' = c
                 /\ touched' = touched \cup {"conc"} /\ unseen' = unseen \cup {"conc"} /\ UNCHANGED tags
        BY <3>2 DEF TypeOK, Settings
      <3> QED
        BY <1>2, <3>1, <3>2 DEF Edit
    <2>2. edits' \in 0..MaxEdits
      BY <1>2 DEF Edit, TypeOK
    <2> QED
      BY <1>2, <2>1, <2>2 DEF Edit, ActTypes, Acts
  <1>3. CASE Refresh
    <2>1. copy' \in TagSets /\ faults' \in 0..MaxFaults
      BY <1>3, FaultType DEF Refresh, TagSets, TypeOK
    <2> QED
      BY <1>3, <2>1 DEF Refresh, ghosts, ActTypes, Acts
  <1>4. CASE BeginLimit
    <2>1. ActTypes'
      BY <1>4, BeginLimitAct DEF ActTypes
    <2>2. orig' \in [tags : TagSets, conc : Concurrency, row : TagSets]
      BY <1>4 DEF BeginLimit, TypeOK
    <2> QED
      BY <1>4, <2>1, <2>2, BeginLimitAct DEF BeginLimit, world, Settings
  <1>5. CASE BeginTags
    <2>1. ActTypes'
      BY <1>5, BeginTagsAct, MissingType DEF ActTypes, TypeOK
    <2>2. orig' \in [tags : TagSets, conc : Concurrency, row : TagSets]
      BY <1>5 DEF BeginTags, TypeOK
    <2>3. unseen' \subseteq Settings
      BY <1>5 DEF BeginTags, Settings
    <2> QED
      BY <1>5, <2>1, <2>2, <2>3 DEF BeginTags, world, Settings
  <1>6. CASE BeginUndoTags
    <2>1. ActTypes'
      BY <1>6, BeginUndoTagsAct DEF ActTypes
    <2> QED
      BY <1>6, <2>1 DEF BeginUndoTags, world
  <1>7. CASE ReadSet
    <2>1. ActTypes'
      BY <1>7, ReadSetAct DEF ActTypes
    <2> QED
      BY <1>7, <2>1 DEF ReadSet, world
  <1>8. CASE UndoLimit
    <2>1. ActTypes'
      BY <1>8, UndoLimitAct DEF ActTypes
    <2> QED
      BY <1>8, <2>1, UndoLimitAct, ActType DEF UndoLimit, ghosts
  <1>9. CASE WriteKeys
    <2>1. "confirm" \in Phases
      BY DEF Phases
    <2>2. ActTypes' /\ faults' \in 0..MaxFaults
      BY <1>9, <2>1, AnswersMoves, MovesAct DEF WriteKeys
    <2> QED
      BY <1>9, <2>2, WrittenType DEF WriteKeys, ghosts
  <1>10. CASE PutSet
    <2>1. "confirm" \in Phases
      BY DEF Phases
    <2>2. ActTypes' /\ faults' \in 0..MaxFaults
      BY <1>10, <2>1, AnswersMoves, MovesAct DEF PutSet
    <2> QED
      BY <1>10, <2>2, WrittenType, ActType DEF PutSet, ghosts
  <1>11. CASE PutLimit
    <2>1. "verify" \in Phases
      BY DEF Phases
    <2>2. ActTypes' /\ faults' \in 0..MaxFaults
      BY <1>11, <2>1, AnswersMoves, MovesAct DEF PutLimit
    <2> QED
      BY <1>11, <2>2, ConcType DEF PutLimit, ghosts
  <1>12. CASE ConfirmTags
    <2>1. ActTypes'
      BY <1>12, ConfirmTagsMoves, MovesAct
    <2> QED
      BY <1>12, <2>1, ConfirmTagsMoves DEF ConfirmTags, ghosts
  <1>13. CASE CheckLimit
    <2>1. ActTypes'
      BY <1>13, CheckLimitMoves, MovesAct
    <2> QED
      BY <1>13, <2>1, CheckLimitMoves DEF CheckLimit, world
  <1>14. CASE VerifyLimit
    <2>1. ActTypes'
      BY <1>14, VerifyLimitMoves, MovesAct
    <2> QED
      BY <1>14, <2>1 DEF VerifyLimit, world, ghosts
  <1>15. CASE ConfirmLimit
    <2>1. ActTypes'
      BY <1>15, ConfirmLimitMoves, MovesAct
    <2> QED
      BY <1>15, <2>1, ConfirmLimitMoves DEF ConfirmLimit, world
  <1>16. CASE Break
    <2>1. ActTypes'
      BY <1>16, BreakMoves, MovesAct
    <2> QED
      BY <1>16, <2>1, BreakMoves DEF Break, world, ghosts
  <1> QED
    BY <1>1, <1>2, <1>3, <1>4, <1>5, <1>6, <1>7, <1>8, <1>9, <1>10, <1>11, <1>12, <1>13, <1>14, <1>15, <1>16
    DEF Next, Step

LEMMA InitTypes == Init => TypeOK
  <1> SUFFICES ASSUME Init PROVE TypeOK
    OBVIOUS
  <1>1. tags \in TagSets /\ copy \in TagSets
    BY DEF Init, TagSets
  <1>2. ActTypes
    BY <1>1, ConcType DEF Init, ActTypes, Acts, Phases
  <1>3. conc \in Concurrency
    BY ConcType DEF Init
  <1> QED
    BY <1>1, <1>2, <1>3, TypesSplit DEF Init, TypeParts

\* Every reading, writing and answer keeps the settings, the row and the action well-formed.
THEOREM RemediesTypeCorrect == Spec => []TypeOK
  <1>1. Init => TypeOK
    BY InitTypes
  <1>2. TypeOK /\ [Next]_vars => TypeOK'
    BY TypesKept
  <1> QED
    BY <1>1, <1>2, PTL DEF Spec

----
\* The inductive invariant, one lemma per step.

Rest == Kinds /\ Marked /\ Informed /\ Restorable /\ Undoing /\ Reserved

LEMMA MarkerIsATag == Marker \in Tags /\ "conc" \notin Tags
  BY DEF Tags

LEMMA StutterKept == ASSUME IInv, UNCHANGED vars PROVE Rest'
  BY DEF IInv, Rest, vars, world, ghosts, Kinds, Marked, Informed, Restorable, Undoing, Reserved, Tagging, At

LEMMA EditKept ==
    ASSUME IInv, Edit
    PROVE  Rest'
  <1> USE DEF IInv
  <1>1. CASE \E k \in Tags, v \in {"absent", "human"} :
               /\ tags[k] # v /\ (k = Marker => v = "absent")
               /\ tags' = [tags EXCEPT ![k] = v]
               /\ touched' = touched \cup {k} /\ unseen' = unseen \cup {k}
               /\ UNCHANGED conc
    <2>1. PICK k \in Tags, v \in {"absent", "human"} :
               /\ tags[k] # v /\ (k = Marker => v = "absent")
               /\ tags' = [tags EXCEPT ![k] = v]
               /\ touched' = touched \cup {k} /\ unseen' = unseen \cup {k}
               /\ UNCHANGED conc
      BY <1>1
    <2>2. /\ \A j \in Tags : j # k => tags'[j] = tags[j]
          /\ tags'[k] = v /\ copy' = copy /\ act' = act /\ orig' = orig /\ conc' = conc
      BY <2>1 DEF Edit, TypeOK, TagSets
    <2>3. Kinds'
      BY <2>2 DEF Kinds, Tagging, At
    <2>4. Marked'
      BY <2>1, <2>2, MarkerIsATag DEF Marked, At
    <2>5. Informed'
      BY <2>1, <2>2, ActType DEF Informed, At, Tagging
    <2>6. Restorable'
      BY <2>1, <2>2, ActType DEF Restorable, At
    <2>7. Undoing'
      BY <2>1, <2>2, ActType DEF Undoing, At, Tagging
    <2>8. Reserved'
      BY <2>1, <2>2 DEF Reserved, At, Tagging
    <2> QED
      BY <2>3, <2>4, <2>5, <2>6, <2>7, <2>8 DEF Rest
  <1>2. CASE /\ \E c \in Concurrency \ {conc} : conc' = c
             /\ touched' = touched \cup {"conc"} /\ unseen' = unseen \cup {"conc"} /\ UNCHANGED tags
    <2>1. tags' = tags /\ copy' = copy /\ act' = act /\ orig' = orig
      BY <1>2 DEF Edit
    <2>2. Kinds' /\ Marked'
      BY <2>1 DEF Kinds, Marked, Tagging, At
    <2>3. Informed'
      BY <1>2, <2>1, ActType DEF Informed, At, Tagging
    <2>4. Restorable' /\ Undoing' /\ Reserved'
      BY <1>2, <2>1 DEF Restorable, Undoing, Reserved, At, Tagging
    <2> QED
      BY <2>2, <2>3, <2>4 DEF Rest
  <1> QED
    BY <1>1, <1>2 DEF Edit

LEMMA RefreshKept ==
    ASSUME IInv, Refresh
    PROVE  Rest'
  <1>1. tags' = tags /\ conc' = conc /\ act' = act /\ orig' = orig /\ touched' = touched /\ unseen' = unseen
    BY DEF Refresh, ghosts
  <1>2. copy'[Marker] # "human"
    BY MarkerIsATag DEF Refresh, IInv, Marked
  <1> QED
    BY <1>1, <1>2 DEF IInv, Rest, Kinds, Marked, Informed, Restorable, Undoing, Reserved, Tagging, At

LEMMA BeginLimitKept ==
    ASSUME IInv, BeginLimit
    PROVE  Rest'
  <1> USE BeginLimitAct DEF IInv
  <1>1. tags' = tags /\ conc' = conc /\ copy' = copy /\ touched' = {}
        /\ orig'.tags = tags /\ orig'.conc = conc /\ orig'.row = copy
    BY DEF BeginLimit, world
  <1>2. Kinds' /\ Marked'
    BY <1>1 DEF Kinds, Marked, Tagging, At
  <1>3. Informed' /\ Undoing' /\ Reserved'
    BY <1>1 DEF Informed, Undoing, Reserved, Tagging, At
  <1>4. Restorable'
    BY <1>1 DEF Restorable, At
  <1> QED
    BY <1>2, <1>3, <1>4 DEF Rest

LEMMA BeginTagsKept ==
    ASSUME IInv, BeginTags
    PROVE  Rest'
  <1> USE BeginTagsAct DEF IInv
  <1>1. /\ tags' = tags /\ conc' = conc /\ copy' = copy /\ touched' = {}
        /\ orig'.tags = tags /\ orig'.conc = conc /\ orig'.row = copy
        /\ unseen' = {k \in Tags : copy[k] = "absent" /\ tags[k] = "human"}
    BY DEF BeginTags, world
  <1>2. \A k \in Missing(copy) : k \in Tags /\ copy[k] # "human" /\ (copy[k] = "absent" \/ k = Marker)
    BY DEF Missing, Tags, Marked
  <1>3. Kinds' /\ Marked'
    BY <1>1 DEF Kinds, Marked, Tagging, At
  <1>4. Informed'
    BY <1>1, <1>2 DEF Informed, Tagging, At, Marked
  <1>5. Restorable'
    BY <1>1, <1>2 DEF Restorable, At
  <1>6. Undoing' /\ Reserved'
    BY <1>1 DEF Undoing, Reserved, Tagging, At
  <1> QED
    BY <1>3, <1>4, <1>5, <1>6 DEF Rest

LEMMA BeginUndoTagsKept ==
    ASSUME IInv, BeginUndoTags
    PROVE  Rest'
  <1> USE BeginUndoTagsAct, ActType, MarkerIsATag DEF IInv
  <1>1. /\ tags' = tags /\ conc' = conc /\ copy' = copy /\ touched' = touched
        /\ orig' = orig /\ unseen' = unseen \ Tags /\ Tagging /\ At("completed")
    BY DEF BeginUndoTags, world, Tagging
  <1>2. Kinds' /\ Marked'
    BY <1>1 DEF Kinds, Marked, Tagging, At
  <1>3. Informed'
    BY <1>1 DEF Informed, Tagging, At
  <1>4. Restorable'
    BY <1>1 DEF Restorable, At
  <1>5. Undoing'
    BY <1>1 DEF Undoing, Tagging, At
  <1>6. Reserved'
    BY <1>1 DEF Reserved, Tagging, At
  <1> QED
    BY <1>2, <1>3, <1>4, <1>5, <1>6 DEF Rest

LEMMA ReadSetKept ==
    ASSUME IInv, ReadSet
    PROVE  Rest'
  <1> USE ReadSetAct, ActType, MarkerIsATag DEF IInv
  <1>1. /\ tags' = tags /\ conc' = conc /\ copy' = copy /\ touched' = touched
        /\ orig' = orig /\ unseen' = unseen \ (Tags \ act.write) /\ At("call")
    BY DEF ReadSet, world
  <1>2. Kinds' /\ Marked'
    BY <1>1 DEF Kinds, Marked, Tagging, At
  <1>3. Informed'
    BY <1>1 DEF Informed, Tagging, At, Kinds
  <1>4. Restorable'
    BY <1>1 DEF Restorable, At
  <1>5. Undoing'
    BY <1>1 DEF Undoing, Tagging, At
  <1>6. Reserved'
    BY <1>1 DEF Reserved, Tagging, At
  <1> QED
    BY <1>2, <1>3, <1>4, <1>5, <1>6 DEF Rest

\* A write of the tags that was made, and that was answered or lost.
LEMMA WriteMoves ==
    ASSUME TypeOK, Answers("confirm")
    PROVE  /\ Moves({"confirm", GiveUp}) /\ {"confirm", GiveUp} \subseteq Phases
           /\ act'.pc \in {"confirm", "completed", "failed"}
           /\ act'.pc = "completed" => act.undo
  <1>1. "confirm" \in Phases
    BY DEF Phases
  <1> QED
    BY <1>1, AnswersMoves, MovesAct DEF GiveUp

LEMMA TagsWriteKept ==
    ASSUME IInv, Answers("confirm"), act.pc \in {"call", "put"}, NEW base \in TagSets,
           At("call") => base = tags, At("put") => base = act.seen,
           tags' = Written(base), UNCHANGED <<type, conc, copy, ghosts, edits>>
    PROVE  Rest'
  <1> USE WriteMoves, MovesAct, ActType, MarkerIsATag DEF IInv
  <1>1. /\ conc' = conc /\ copy' = copy /\ touched' = touched /\ orig' = orig /\ unseen' = unseen
        /\ Tagging /\ act.write \subseteq act.added
    BY DEF ghosts, Kinds
  <1>2. /\ act'.pc \in {"confirm", "completed", "failed"} /\ (act'.pc = "completed" => act.undo)
        /\ act'.undo = act.undo /\ act'.kind = act.kind /\ act'.added = act.added
        /\ act'.write = act.write /\ act'.stored = act.stored
    OBVIOUS
  <1>3. \A k \in Tags : tags'[k] = IF k \notin act.write THEN base[k]
                                   ELSE IF act.undo THEN "absent" ELSE "ours"
    BY DEF Written
  <1>4. base[Marker] # "human"
    BY DEF Marked, At
  <1>5. \A k \in Tags \ touched : base[k] = tags[k]
    BY DEF Restorable, At
  <1>6. Kinds' /\ Marked'
    BY <1>1, <1>2, <1>3, <1>4 DEF Kinds, Marked, Tagging, At
  <1>7. Informed' /\ Reserved'
    BY <1>1, <1>2 DEF Informed, Reserved, Tagging, At
  <1>8. Restorable'
    BY <1>1, <1>2, <1>3, <1>5 DEF Restorable, At
  <1>9. Undoing'
    BY <1>1, <1>2, <1>3, <1>5 DEF Undoing, Tagging, At
  <1> QED
    BY <1>6, <1>7, <1>8, <1>9 DEF Rest

LEMMA WriteKeysKept == ASSUME IInv, WriteKeys PROVE Rest'
  BY TagsWriteKept DEF WriteKeys, IInv, TypeOK, At

LEMMA PutSetKept == ASSUME IInv, PutSet PROVE Rest'
  BY TagsWriteKept, ActType DEF PutSet, IInv, At

LEMMA PutLimitKept ==
    ASSUME IInv, PutLimit
    PROVE  Rest'
  <1> USE DEF IInv
  <1>1. "verify" \in Phases
    BY DEF Phases
  <1>2. /\ act'.pc \in {"verify", "completed", "failed"} /\ (act'.pc = "completed" => act.undo)
        /\ act'.undo = act.undo /\ act'.kind = act.kind /\ act'.added = act.added
        /\ act'.write = act.write /\ act'.stored = act.stored
    <2>1. Answers("verify")
      BY DEF PutLimit
    <2>2. Moves({"verify", GiveUp}) /\ {"verify", GiveUp} \subseteq Phases
      BY <1>1, <2>1, AnswersMoves
    <2>3. /\ act'.pc \in {"verify", GiveUp} /\ act'.undo = act.undo /\ act'.kind = act.kind
          /\ act'.added = act.added /\ act'.write = act.write /\ act'.stored = act.stored
      BY <2>2, MovesAct
    <2> QED
      BY <2>3 DEF GiveUp
  <1>3. tags' = tags /\ copy' = copy /\ orig' = orig /\ touched' = touched /\ unseen' = unseen /\ ~Tagging
    BY DEF PutLimit, ghosts, Kinds, At
  <1> QED
    BY <1>2, <1>3 DEF Rest, Kinds, Marked, Informed, Restorable, Undoing, Reserved, Tagging, At

LEMMA UndoLimitKept ==
    ASSUME IInv, UndoLimit
    PROVE  Rest'
  <1> USE UndoLimitAct DEF IInv
  <1>1. /\ tags' = tags /\ copy' = copy /\ orig' = orig /\ touched' = touched /\ unseen' = unseen
        /\ conc' = act.stored
    BY DEF UndoLimit, ghosts
  <1> QED
    BY <1>1 DEF Rest, Kinds, Marked, Informed, Restorable, Undoing, Reserved, Tagging, At

LEMMA ConfirmTagsKept ==
    ASSUME IInv, ConfirmTags
    PROVE  Rest'
  <1> USE ConfirmTagsMoves, MovesAct, ActType DEF IInv
  <1>1. /\ tags' = tags /\ conc' = conc /\ orig' = orig /\ touched' = touched /\ unseen' = unseen
        /\ (copy' = tags \/ copy' = copy) /\ Tagging /\ At("confirm")
    BY DEF ConfirmTags, ghosts, Tagging
  <1>2. /\ act'.pc \in {"undone", "completed", "failed"} /\ act'.undo = act.undo /\ act'.kind = act.kind
        /\ act'.added = act.added /\ act'.write = act.write /\ act'.stored = act.stored
    OBVIOUS
  <1>3. act'.pc = "completed" /\ ~act.undo => \A k \in act.added : tags[k] = "ours"
    <2> SUFFICES ASSUME act'.pc = "completed", ~act.undo PROVE \A k \in act.added : tags[k] = "ours"
      OBVIOUS
    <2>1. act.write = act.added
      BY <1>1 DEF Kinds, At
    <2>2. ~To("failed")
      BY PhaseType DEF Phases
    <2>3. \A k \in act.write : tags[k] = "ours"
      BY <2>2 DEF ConfirmTags, GiveUp
    <2> QED
      BY <2>1, <2>3
  <1>4. Kinds' /\ Marked'
    BY <1>1, <1>2 DEF Kinds, Marked, Tagging, At
  <1>5. Informed' /\ Restorable' /\ Reserved'
    BY <1>1, <1>2 DEF Informed, Restorable, Reserved, Tagging, At
  <1>6. Undoing'
    BY <1>1, <1>2, <1>3 DEF Undoing, Tagging, At
  <1> QED
    BY <1>4, <1>5, <1>6 DEF Rest

LEMMA CheckLimitKept ==
    ASSUME IInv, CheckLimit
    PROVE  Rest'
  <1> USE CheckLimitMoves, MovesAct, ActType DEF IInv
  <1>1. /\ tags' = tags /\ conc' = conc /\ copy' = copy /\ orig' = orig /\ touched' = touched
        /\ unseen \subseteq unseen' /\ ~Tagging
    BY DEF CheckLimit, world, Kinds, At
  <1>2. /\ act'.pc \in {"completed", "limit"} /\ act'.undo = act.undo /\ act'.kind = act.kind
        /\ act'.added = act.added /\ act'.write = act.write /\ act'.stored = act.stored
        /\ act'.pc = "limit" => ~Looser(Limit, conc) \/ "conc" \in unseen'
    OBVIOUS
  <1> QED
    BY <1>1, <1>2 DEF Rest, Kinds, Marked, Informed, Restorable, Undoing, Reserved, Tagging, At

LEMMA VerifyLimitKept ==
    ASSUME IInv, VerifyLimit
    PROVE  Rest'
  <1> USE VerifyLimitMoves, MovesAct, ActType DEF IInv
  <1>1. /\ tags' = tags /\ conc' = conc /\ copy' = copy /\ orig' = orig /\ touched' = touched
        /\ unseen' = unseen /\ ~Tagging
    BY DEF VerifyLimit, world, ghosts, Kinds, At
  <1>2. /\ act'.pc \in {"completed", "failed"} /\ act'.undo = act.undo /\ act'.kind = act.kind
        /\ act'.added = act.added /\ act'.write = act.write /\ act'.stored = act.stored
    OBVIOUS
  <1> QED
    BY <1>1, <1>2 DEF Rest, Kinds, Marked, Informed, Restorable, Undoing, Reserved, Tagging, At

LEMMA ConfirmLimitKept ==
    ASSUME IInv, ConfirmLimit
    PROVE  Rest'
  <1> USE ConfirmLimitMoves, MovesAct, ActType DEF IInv
  <1>1. /\ tags' = tags /\ conc' = conc /\ copy' = copy /\ orig' = orig /\ touched' = touched
        /\ unseen \subseteq unseen' /\ ~Tagging
    BY DEF ConfirmLimit, world, Tagging
  <1>2. /\ act'.pc \in {"undone", "completed"} /\ act'.undo = act.undo /\ act'.kind = act.kind
        /\ act'.added = act.added /\ act'.write = act.write /\ act'.stored = act.stored
    OBVIOUS
  <1> QED
    BY <1>1, <1>2 DEF Rest, Kinds, Marked, Informed, Restorable, Undoing, Reserved, Tagging, At

LEMMA BreakKept ==
    ASSUME IInv, Break
    PROVE  Rest'
  <1> USE BreakMoves, MovesAct, ActType DEF IInv
  <1>1. /\ tags' = tags /\ conc' = conc /\ copy' = copy /\ orig' = orig /\ touched' = touched
        /\ unseen' = unseen /\ act.pc \in {"call", "put", "confirm", "check", "limit", "verify"}
    BY DEF Break, world, ghosts, Resting, Phases
  <1>2. /\ act'.pc \in {"completed", "failed"} /\ act'.undo = act.undo /\ act'.kind = act.kind
        /\ act'.added = act.added /\ act'.write = act.write /\ act'.stored = act.stored
        /\ act'.pc = "completed" => act.undo
    BY PhaseType, GiveUpType DEF Break, GiveUp
  <1>3. Kinds' /\ Marked' /\ Informed' /\ Restorable' /\ Reserved'
    BY <1>1, <1>2 DEF Kinds, Marked, Informed, Restorable, Reserved, Tagging, At
  <1>4. Undoing'
    BY <1>1, <1>2 DEF Undoing, Kinds, Tagging, At
  <1> QED
    BY <1>3, <1>4 DEF Rest

LEMMA InitRest == Init => Rest
  BY MarkerIsATag DEF Init, Rest, Kinds, Marked, Informed, Restorable, Undoing, Reserved, Tagging, At

LEMMA Invariant == Spec => []IInv
  <1>1. Init => IInv
    BY InitTypes, InitRest DEF IInv, Rest
  <1>2. IInv /\ [Next]_vars => IInv'
    <2> SUFFICES ASSUME IInv, [Next]_vars PROVE IInv'
      OBVIOUS
    <2>1. TypeOK'
      BY TypesKept DEF IInv
    <2>2. Rest'
      BY StutterKept, EditKept, RefreshKept, BeginLimitKept, BeginTagsKept, BeginUndoTagsKept, ReadSetKept,
         WriteKeysKept, PutSetKept, PutLimitKept, UndoLimitKept, ConfirmTagsKept, CheckLimitKept,
         VerifyLimitKept, ConfirmLimitKept, BreakKept
      DEF Next, Step
    <2> QED
      BY <2>1, <2>2 DEF IInv, Rest
  <1> QED
    BY <1>1, <1>2, PTL DEF Spec

----
\* What the invariant says of the two properties.

\* WriteKeys and PutSet change no tag but those they mean to, or one that was not read as it is.
LEMMA WritesAreInformed ==
    ASSUME IInv, act.pc \in {"call", "put"}, NEW base \in TagSets,
           At("call") => base = tags, At("put") => base = act.seen,
           tags' = Written(base), conc' = conc
    PROVE  /\ \A k \in Tags : tags'[k] # tags[k] /\ (k \notin act.write \/ tags[k] = "human") => k \in unseen
           /\ ~Looser(conc', conc)
  <1>1. \A k \in Tags : k \notin act.write => tags'[k] = base[k]
    BY DEF Written
  <1>2. \A k \in Tags : k \in act.write /\ tags[k] = "human" => k \in unseen
    BY DEF IInv, Informed
  <1>3. \A k \in Tags : k \notin act.write /\ base[k] # tags[k] => k \in unseen
    BY DEF IInv, Informed, At
  <1>4. ~Looser(conc, conc)
    BY DEF Looser, IInv, TypeOK, Concurrency
  <1> QED
    BY <1>1, <1>2, <1>3, <1>4

LEMMA Survives ==
    ASSUME IInv, [Next]_vars, edits' = edits
    PROVE  /\ \A k \in Tags : tags'[k] # tags[k] /\ (k \notin act.write \/ tags[k] = "human") => k \in unseen
           /\ Looser(conc', conc) => "conc" \in unseen \/ (At("completed") /\ conc' = orig.conc)
  <1> USE DEF IInv
  <1>1. ~Looser(conc, conc)
    BY DEF Looser, TypeOK, Concurrency
  <1>2. CASE WriteKeys
    BY <1>2, WritesAreInformed DEF WriteKeys, TypeOK, At
  <1>3. CASE PutSet
    BY <1>3, WritesAreInformed, ActType DEF PutSet, At
  <1>4. CASE PutLimit
    BY <1>4 DEF PutLimit, Informed
  <1>5. CASE UndoLimit
    BY <1>5 DEF UndoLimit, Informed, Tagging
  <1>6. CASE tags' = tags /\ conc' = conc
    BY <1>1, <1>6
  <1>7. ~Edit
    BY DEF Edit, TypeOK
  <1>8. \/ WriteKeys \/ PutSet \/ PutLimit \/ UndoLimit
        \/ tags' = tags /\ conc' = conc
    BY <1>7 DEF Next, Step, vars, world, Refresh, BeginLimit, CheckLimit, VerifyLimit, ConfirmLimit, BeginTags,
                BeginUndoTags, ReadSet, ConfirmTags, Break
  <1> QED
    BY <1>2, <1>3, <1>4, <1>5, <1>6, <1>8

\* "A limit must never loosen", "a tag a human has since set to a real value is kept"
\* (action_runner.py): whatever people change and whatever fails, the agent destroys no value a
\* person gave a setting unless it had no chance to see it.
THEOREM HumanSettingsAreKept == Spec => HumanSettingsSurvive
  <1>1. IInv /\ [Next]_vars => [edits' = edits =>
          /\ \A k \in Tags : tags'[k] # tags[k] /\ (k \notin act.write \/ tags[k] = "human") => k \in unseen
          /\ Looser(conc', conc) => "conc" \in unseen \/ (At("completed") /\ conc' = orig.conc)]_vars
    BY Survives
  <1> QED
    BY <1>1, Invariant, PTL DEF Spec, HumanSettingsSurvive

LEMMA PutsBack ==
    ASSUME IInv, [Next]_vars, ~At("undone"), act'.pc = "undone"
    PROVE  /\ \A k \in Tags \ touched : \/ tags[k] = orig.tags[k]
                                        \/ k \in act.added /\ orig.row[k] # "human" /\ tags[k] = "absent"
           /\ conc = orig.conc \/ "conc" \in touched \cup unseen
  <1> USE ActType DEF IInv
  <1>1. CASE BeginUndoTags
    <2>1. act.added = {} /\ Tagging
      BY <1>1, BeginUndoTagsAct DEF BeginUndoTags, Tagging
    <2> QED
      BY <2>1 DEF Restorable, Reserved
  <1>2. CASE ConfirmTags
    <2>1. act.undo /\ At("confirm") /\ Tagging
      <3>1. ~To("failed") /\ ~To("completed")
        BY PhaseType DEF Phases
      <3> QED
        BY <1>2, <3>1 DEF ConfirmTags, GiveUp, Tagging
    <2>2. \A k \in act.added \ touched : tags[k] = "absent"
      BY <2>1 DEF Undoing
    <2> QED
      BY <2>1, <2>2 DEF Restorable, Reserved
  <1>3. CASE ConfirmLimit
    <2>1. ~Tagging /\ At("confirm") /\ act.added = {}
      BY <1>3 DEF ConfirmLimit, Tagging, TypeOK
    <2>2. conc = act.stored \/ "conc" \in touched
      BY <2>1 DEF Reserved
    <2>3. act.stored = orig.conc \/ "conc" \in unseen
      BY <2>1 DEF Informed
    <2> QED
      BY <2>1, <2>2, <2>3 DEF Restorable
  <1>4. CASE UNCHANGED act
    BY <1>4 DEF At
  <1>5. ~BeginLimit /\ ~BeginTags /\ ~ReadSet /\ ~UndoLimit
    BY BeginLimitAct, BeginTagsAct, ReadSetAct, UndoLimitAct
  <1>6. ~CheckLimit /\ ~VerifyLimit /\ ~Break
    BY CheckLimitMoves, VerifyLimitMoves, BreakMoves, MovesAct
  <1>7. ~WriteKeys /\ ~PutSet
    BY WriteMoves DEF WriteKeys, PutSet
  <1>8. ~PutLimit
    <2>1. "verify" \in Phases
      BY DEF Phases
    <2>2. ASSUME PutLimit PROVE act'.pc \in {"verify", GiveUp}
      <3>1. Moves({"verify", GiveUp}) /\ {"verify", GiveUp} \subseteq Phases
        BY <2>1, <2>2, AnswersMoves DEF PutLimit
      <3> QED
        BY <3>1, MovesAct
    <2> QED
      BY <2>2 DEF GiveUp
  <1> QED
    BY <1>1, <1>2, <1>3, <1>4, <1>5, <1>6, <1>7, <1>8 DEF Next, Step, Edit, Refresh, vars

\* An undo that is reported as done, at whichever try, has put back what the action found.
THEOREM UndosPutBack == Spec => UndoRestores
  <1>1. IInv /\ [Next]_vars => [~At("undone") /\ act'.pc = "undone" =>
          /\ \A k \in Tags \ touched : \/ tags[k] = orig.tags[k]
                                       \/ k \in act.added /\ orig.row[k] # "human" /\ tags[k] = "absent"
          /\ conc = orig.conc \/ "conc" \in touched \cup unseen]_vars
    BY PutsBack
  <1> QED
    BY <1>1, Invariant, PTL DEF Spec, UndoRestores
====
