---- MODULE TwoPerson ----
(***************************************************************************)
(* One switch that lets the agent do more: a policy's enabled flag, a      *)
(* policy that runs without approval, or a resource without protection.    *)
(* Translated from backend/app/services/two_person.py and its two callers, *)
(* update_policy (api/policies.py) and set_protection (api/resources.py),  *)
(* which follow the same steps: read the row; if the change loosens it,    *)
(* look for a request to confirm; audit; then record the request, or write *)
(* the row and delete the request.  Each database access is a step.        *)
(*                                                                         *)
(* Tightening is immediate.  A request that expired is like no request: it *)
(* is ignored by the lookup and overwritten by the next one.               *)
(***************************************************************************)
EXTENDS Naturals

CONSTANTS
    Operators,
    Calls,        \* concurrent calls, over all replicas
    Modes,        \* configurations to consider
    MaxFaults,    \* bound on crashes, failed audits and failed writes
    None

ASSUME ModesAssumption == Modes \subseteq {"two_person", "solo_delay", "off"}
ASSUME NoneAssumption == None \notin Operators
ASSUME FaultsAssumption == MaxFaults \in Nat

Pcs == {"idle", "read", "lookup", "auditRequest", "record", "audit", "apply", "clear"}

Idle == [pc |-> "idle", who |-> None, to |-> FALSE, by |-> None]
NoRequest == [by |-> None, ripe |-> FALSE]

VARIABLES
    mode,       \* TWO_PERSON_MODE, or "off" without REQUIRE_TWO_PERSON_CONFIG
    loose,      \* the switch's column in its row
    request,    \* the live PENDING: row; ripe once SOLO_CONFIRM_DELAY has passed
    call,       \* local state of each call: its operator, the value, whose request it confirms
    trail,      \* audited requests and confirmations
    hands,      \* operators who asked to loosen it since the switch was last at rest
    rested,     \* the switch has been at rest
    waited,     \* a request has become ripe since then
    faults

vars == <<mode, loose, request, call, trail, hands, rested, waited, faults>>
ghosts == <<hands, rested, waited>>

Call == [pc : Pcs, who : Operators \cup {None}, to : BOOLEAN, by : Operators \cup {None}]
Entry == [event : {"change_requested", "changed"}, who : Operators, by : Operators \cup {None}]

TypeOK ==
    /\ mode \in Modes
    /\ loose \in BOOLEAN
    /\ request \in [by : Operators \cup {None}, ripe : BOOLEAN]
    /\ call \in [Calls -> Call]
    /\ trail \subseteq Entry
    /\ hands \subseteq Operators
    /\ rested \in BOOLEAN /\ waited \in BOOLEAN
    /\ faults \in 0..MaxFaults

Init ==
    /\ mode \in Modes
    /\ loose \in BOOLEAN
    /\ request = NoRequest
    /\ call = [c \in Calls |-> Idle]
    /\ trail = {}
    /\ hands = {} /\ rested = ~loose /\ waited = FALSE
    /\ faults = 0

----
At(c, pc) == call[c].pc = pc
Goto(c, pc) == call' = [call EXCEPT ![c].pc = pc]
Done(c) == call' = [call EXCEPT ![c] = Idle]
Fault == faults < MaxFaults /\ faults' = faults + 1

\* Nothing says that the switch may become loose: not the row, no request, no call under way.
AtRest == ~loose /\ request = NoRequest /\ \A c \in Calls : At(c, "idle")

\* The operator's PATCH.
Begin(c, o, to) ==
    /\ At(c, "idle")
    /\ call' = [call EXCEPT ![c] = [pc |-> "read", who |-> o, to |-> to, by |-> None]]
    /\ hands' = (IF AtRest THEN {} ELSE hands) \cup (IF to THEN {o} ELSE {})
    /\ rested' = (AtRest \/ rested)
    /\ waited' = (waited /\ ~AtRest)
    /\ UNCHANGED <<mode, loose, request, trail, faults>>

\* _loosens, judged against the row as it is now.
Loosens(to) == to /\ ~loose

Read(c) ==
    /\ At(c, "read")
    /\ IF mode # "off" /\ Loosens(call[c].to) THEN Goto(c, "lookup") ELSE Goto(c, "audit")
    /\ UNCHANGED <<mode, loose, request, trail, ghosts, faults>>

\* Seeded fault: the requester may confirm at once.
MayConfirmAny(o) == TRUE

\* check_confirmer.
MayConfirm(o) == request.by # o \/ (mode = "solo_delay" /\ request.ripe)

\* live_request and check_confirmer; a requester who may not confirm gets 409.
Lookup(c) ==
    /\ At(c, "lookup")
    /\ \/ request = NoRequest /\ Goto(c, "auditRequest")
       \/ /\ request # NoRequest /\ MayConfirm(call[c].who)
          /\ call' = [call EXCEPT ![c].pc = "audit", ![c].by = request.by]
       \/ request # NoRequest /\ ~MayConfirm(call[c].who) /\ Done(c)
    /\ UNCHANGED <<mode, loose, request, trail, ghosts, faults>>

\* A failed audit is answered 503 and nothing is changed.
Audited(c, event, next) ==
    \/ /\ trail' = IF call[c].to
                   THEN trail \cup {[event |-> event, who |-> call[c].who, by |-> call[c].by]}
                   ELSE trail
       /\ Goto(c, next) /\ UNCHANGED faults
    \/ Fault /\ Done(c) /\ UNCHANGED trail

AuditRequest(c) ==
    /\ At(c, "auditRequest")
    /\ Audited(c, "change_requested", "record")
    /\ UNCHANGED <<mode, loose, request, ghosts>>

\* Seeded fault: the request is stored without the time it was made.
RecordUntimed(c) ==
    /\ At(c, "record")
    /\ request' = [by |-> call[c].who, ripe |-> None]
    /\ Done(c)
    /\ UNCHANGED <<mode, loose, trail, ghosts, faults>>

\* record_request: an upsert, over whatever request is there by now.
Record(c) ==
    /\ At(c, "record")
    /\ \/ request' = [by |-> call[c].who, ripe |-> FALSE] /\ UNCHANGED faults
       \/ Fault /\ UNCHANGED request
    /\ Done(c)
    /\ UNCHANGED <<mode, loose, trail, ghosts>>

\* Seeded fault: the change goes on although its audit failed.
AuditLax(c) ==
    /\ At(c, "audit")
    /\ \/ Audited(c, "changed", "apply")
       \/ Fault /\ Goto(c, "apply") /\ UNCHANGED trail
    /\ UNCHANGED <<mode, loose, request, ghosts>>

Audit(c) ==
    /\ At(c, "audit")
    /\ Audited(c, "changed", "apply")
    /\ UNCHANGED <<mode, loose, request, ghosts>>

Apply(c) ==
    /\ At(c, "apply")
    /\ \/ /\ loose' = call[c].to
          /\ IF call[c].by # None THEN Goto(c, "clear") ELSE Done(c)
          /\ UNCHANGED faults
       \/ Fault /\ Done(c) /\ UNCHANGED loose
    /\ UNCHANGED <<mode, request, trail, ghosts>>

\* clear: deletes by key, whatever request is there by now.
Clear(c) ==
    /\ At(c, "clear")
    /\ \/ request' = NoRequest /\ UNCHANGED faults
       \/ Fault /\ UNCHANGED request
    /\ Done(c)
    /\ UNCHANGED <<mode, loose, trail, ghosts>>

\* SOLO_CONFIRM_DELAY has passed since the request.
Ripen ==
    /\ request # NoRequest /\ ~request.ripe
    /\ request' = [request EXCEPT !.ripe = TRUE]
    /\ waited' = TRUE
    /\ UNCHANGED <<mode, loose, call, trail, hands, rested, faults>>

\* PENDING_TTL has passed, or an operator cancelled the request.
Withdraw ==
    /\ request # NoRequest /\ request' = NoRequest
    /\ UNCHANGED <<mode, loose, call, trail, ghosts, faults>>

Crash(c) ==
    /\ ~At(c, "idle") /\ Fault /\ Done(c)
    /\ UNCHANGED <<mode, loose, request, trail, ghosts>>

Proceed(c) ==
    \/ Read(c) \/ Lookup(c) \/ AuditRequest(c) \/ Record(c)
    \/ Audit(c) \/ Apply(c) \/ Clear(c)

Next ==
    \/ \E c \in Calls :
        Proceed(c) \/ Crash(c) \/ \E o \in Operators, to \in BOOLEAN : Begin(c, o, to)
    \/ Ripen \/ Withdraw

Spec == Init /\ [][Next]_vars

----
\* Properties.

\* What may stand behind a loose switch: two operators, or one and the wait of solo mode.
Backed ==
    \/ mode = "off"
    \/ \E o, q \in hands : o # q
    \/ mode = "solo_delay" /\ waited

\* Once a switch has been at rest (tight, no live request, no call under way), it is loose only if
\* two different operators have asked for that since, whatever calls overlapped, crashed or lost their
\* writes, and whatever requests were left over, overwritten or withdrawn on the way; in solo mode
\* only if a request has waited.
TwoHandsFromRest == rested /\ loose => Backed

\* A loosening on the audit trail that names both hands, each of which asked since the switch was at
\* rest; in two-person mode they differ.
BothHands(e) ==
    /\ e.event = "changed"
    /\ e.who \in hands /\ e.by \in hands
    /\ mode = "two_person" => e.who # e.by

Requested(o) == [event |-> "change_requested", who |-> o, by |-> None] \in trail

\* Once a switch has been at rest it is never loose without such a record, and one of the request it
\* confirmed, whatever audits and writes failed, whatever calls overlapped and whatever requests were
\* overwritten and deleted by key: the trail alone shows who loosened it with whom.
LooseIsOnRecord ==
    rested /\ loose /\ mode # "off" => \E e \in trail : BothHands(e) /\ Requested(e.by)
====
