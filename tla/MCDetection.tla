---- MODULE MCDetection ----
EXTENDS Detection, TLC

Symmetry == Permutations(Pipelines)

Row(state, untagged) == [state |-> state, untagged |-> untagged, unused |-> "no", protected |-> FALSE]
Calm == [fresh |-> TRUE, idle |-> "no", full |-> "no", runaway |-> FALSE, odd |-> None]
IsIdle == [Calm EXCEPT !.idle = "yes"]
IsOdd == [Calm EXCEPT !.odd = "statistical_anomaly"]
IsFull == [Calm EXCEPT !.full = "yes"]
IsIdleAndFull == [IsIdle EXCEPT !.full = "yes"]
RunsOff == [Calm EXCEPT !.runaway = TRUE]
Dark == [Calm EXCEPT !.fresh = FALSE]
World(k, r, l) == [kind |-> k, row |-> r, load |-> l]

\* An idle instance, for the overlap of pipelines; nothing is known of its tags.
IdleInstance == {World("ec2", Row("running", "unknown"), IsIdle)}

\* Each resource type in the views that lead to different writes, at most two findings at a time.
Views ==
    {World("ec2", Row("running", "no"), l) : l \in {Calm, IsIdle, IsOdd, Dark}}
    \cup {World("ec2", Row("stopped", "yes"), Dark), World("ec2", Row("gone", "no"), Dark)}
    \cup {World("rds", Row("running", "no"), l) : l \in {Calm, IsFull, IsIdleAndFull}}
    \cup {World("rds", Row("stopped", "unknown"), Calm)}
    \cup {World("lambda", Row("running", "no"), l) : l \in {Calm, IsOdd, RunsOff}}
    \cup {World("ebs", [Row("running", "yes") EXCEPT !.unused = u], Dark) : u \in {"yes", "no"}}

MCRemedy ==
    [t \in Types |-> IF t = "idle_compute" THEN "stop_ec2"
                     ELSE IF t = "runaway_lambda" THEN "limit_lambda"
                     ELSE IF t \in {"unused_volume", "idle_database", "low_storage"} THEN "recommend_review"
                     ELSE None]
====
