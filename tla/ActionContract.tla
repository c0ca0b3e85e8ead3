---- MODULE ActionContract ----
(***************************************************************************)
(* What the action table promises, whatever the number of handlers,        *)
(* replicas and crashes: an action runs only once it is authorised, its    *)
(* cloud call is made at most once and only while it runs, an outcome is   *)
(* never rewritten, and an action counts as undone only when the one       *)
(* rollback it is linked to has succeeded.  One step may move several      *)
(* actions (a sweep, a rollback verified with its original).               *)
(***************************************************************************)
EXTENDS Naturals

CONSTANTS Forward, Reverse, None

VARIABLES
    phase,    \* phase[r]: how far action r has come
    calls,    \* calls[r]: mutating cloud calls made for r
    undo      \* undo[r]: the rollback r is linked to

Table == Forward \cup Reverse

Phases == {"none", "proposed", "authorised", "running", "done", "failed", "declined", "undone"}

Edges ==
    {<<"none", "proposed">>, <<"none", "authorised">>, <<"none", "running">>,
     <<"proposed", "authorised">>, <<"proposed", "declined">>, <<"proposed", "failed">>,
     <<"authorised", "declined">>, <<"authorised", "running">>, <<"authorised", "failed">>,
     <<"running", "done">>, <<"running", "failed">>, <<"done", "undone">>}

Init ==
    /\ phase = [r \in Table |-> "none"]
    /\ calls = [r \in Table |-> 0]
    /\ undo = [r \in Forward |-> None]

\* Table move along Edges only; a rollback alone starts without a proposal.
Moves ==
    \A r \in Table : \/ phase'[r] = phase[r]
                       \/ /\ <<phase[r], phase'[r]>> \in Edges
                          /\ phase[r] = "none" => (r \in Reverse <=> phase'[r] = "running")

\* One call per action, while it runs; a rollback's call only while the action it undoes is done.
Calls ==
    \A r \in Table : calls'[r] # calls[r] =>
        /\ calls[r] = 0 /\ calls'[r] = 1
        /\ phase[r] = "running"
        /\ r \in Reverse => \E f \in Forward : undo[f] = r /\ phase[f] = "done"

\* An undone action keeps its rollback, which is done; no rollback undoes two actions.
Undoes ==
    /\ \A f \in Forward : phase'[f] = "undone" =>
          undo'[f] \in Reverse /\ phase'[undo'[f]] = "done"
    /\ \A f, g \in Forward : undo'[f] = undo'[g] /\ undo'[f] # None => f = g

Next ==
    /\ phase' \in [Table -> Phases]
    /\ calls' \in [Table -> {0, 1}]
    /\ undo' \in [Forward -> Reverse \cup {None}]
    /\ Moves /\ Calls /\ Undoes

Spec == Init /\ [][Next]_<<phase, calls, undo>>
====
