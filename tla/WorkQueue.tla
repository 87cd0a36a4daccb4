----------------------------- MODULE WorkQueue -----------------------------
(***************************************************************************)
(* What the job queue promises to the host it works on: a job is run only   *)
(* after it was queued and taken, and never more than once.  A job that was *)
(* taken may stay so for ever.                                              *)
(***************************************************************************)
CONSTANT Jobs

VARIABLE place  \* where each job is

Init == place = [j \in Jobs |-> "absent"]

Enqueue(j) ==
    /\ place[j] = "absent"
    /\ place' = [place EXCEPT ![j] = "queued"]

\* Jobs leave the queue together: handed to a worker, or withdrawn.
Take(taken) ==
    /\ \A j \in taken : place[j] = "queued"
    /\ place' = [j \in Jobs |-> IF j \in taken THEN "taken" ELSE place[j]]

Run(j) ==
    /\ place[j] = "taken"
    /\ place' = [place EXCEPT ![j] = "run"]

Next ==
    \/ \E j \in Jobs : Enqueue(j) \/ Run(j)
    \/ \E taken \in SUBSET Jobs : Take(taken)

Spec == Init /\ [][Next]_place
=============================================================================
