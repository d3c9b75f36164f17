---------------------------- MODULE DurableQueue ----------------------------
(***************************************************************************)
(* What a durable job queue with bounded retries promises its producers:   *)
(* every job is taken at most Limit times, by one holder at a time; a      *)
(* failed take puts it back only while tries are left, and it is buried    *)
(* only when none is; a finished or buried job is never taken again.       *)
(* UploadQueue implements it when a single worker process serves the queue.*)
(***************************************************************************)
EXTENDS Naturals

CONSTANTS Jobs, Limit

VARIABLES phase, tries

Phase == {"none", "open", "held", "done", "buried", "gone"}

Init ==
  /\ phase = [j \in Jobs |-> "none"]
  /\ tries = [j \in Jobs |-> 0]

Becomes(j, p, n) == phase'[j] = p /\ tries'[j] = n

Enqueue(j)  == phase[j] = "none" /\ Becomes(j, "open", 0)
Take(j)     == phase[j] = "open" /\ tries[j] < Limit /\ Becomes(j, "held", tries[j] + 1)
PutBack(j)  == phase[j] = "held" /\ tries[j] < Limit /\ Becomes(j, "open", tries[j])
Bury(j)     == phase[j] = "held" /\ tries[j] = Limit /\ Becomes(j, "buried", tries[j])
Finish(j)   == phase[j] = "held" /\ Becomes(j, "done", tries[j])
Withdraw(j) == phase[j] \in Phase \ {"none", "gone"} /\ Becomes(j, "gone", 0)
Stay(j)     == Becomes(j, phase[j], tries[j])

(* One transaction may move several jobs, each by a step of its own.       *)
Next ==
  \A j \in Jobs :
    Enqueue(j) \/ Take(j) \/ PutBack(j) \/ Bury(j) \/ Finish(j) \/ Withdraw(j) \/ Stay(j)

Spec == Init /\ [][Next]_<<phase, tries>>
=============================================================================
