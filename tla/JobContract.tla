------------------------------ MODULE JobContract ------------------------------
(***************************************************************************)
(* What the control plane promises about a piece of work (a compilation, a  *)
(* check, a repair), seen by whoever asked for it: it is tried at most      *)
(* MaxAttempts times, one try at a time, and has one outcome that stays.    *)
(* ControlPlane implements it with rows that replace each other, WorkQueue  *)
(* with messages that are published, delivered and answered at least once.  *)
(***************************************************************************)
EXTENDS Naturals

CONSTANTS
    Jobs,            \* pieces of work
    MaxAttempts      \* EXECUTION_MAX_ATTEMPTS

VARIABLE
    job              \* outcome and number of tries of each job

NotSubmitted == [outcome |-> "none", tries |-> 0]

Init == job = [j \in Jobs |-> NotSubmitted]

Submitted(old, new) ==
    old = NotSubmitted /\ new = [outcome |-> "open", tries |-> 1]

(* The try under way fails for a passing reason or is given up. *)
Retried(old, new) ==
    /\ old.outcome = "open" /\ old.tries < MaxAttempts
    /\ new = [outcome |-> "open", tries |-> old.tries + 1]

Finished(old, new) ==
    /\ old.outcome = "open"
    /\ new.outcome \in {"succeeded", "failed"} /\ new.tries = old.tries

(* Several jobs may move in one transaction: a check ends and opens a       *)
(* repair.                                                                   *)
Step(old, new) ==
    old = new \/ Submitted(old, new) \/ Retried(old, new) \/ Finished(old, new)

Next == \A j \in Jobs : Step(job[j], job'[j])

Spec == Init /\ [][Next]_job

===============================================================================
