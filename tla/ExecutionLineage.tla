--------------------------- MODULE ExecutionLineage ---------------------------
(***************************************************************************)
(* Executions that replace each other (recovery_of) are the tries of one    *)
(* job: the refinement of JobContract by ControlPlane.                      *)
(***************************************************************************)
EXTENDS ControlPlane, FiniteSets

(* The execution that each execution continues, directly or not. *)
Root ==
    LET root[e \in Ids] == IF executions[e].parent = 0 THEN e ELSE root[executions[e].parent]
    IN [e \in Ids |-> root[e]]

(* What a try is to achieve. *)
Work(e) ==
    LET x == executions[e] IN <<x.mon, x.kind, x.rev, x.trigger>>

JobOf(tries) ==
    LET open == {e \in tries : Live(e)}
        succeeded == {e \in tries : executions[e].state = "succeeded"}
    IN [outcome |-> IF tries = {} THEN "none"
                    ELSE IF \/ Cardinality(open \cup succeeded) > 1
                            \/ Cardinality({Work(e) : e \in tries}) > 1 THEN "forked"
                    ELSE IF open # {} THEN "open"
                    ELSE IF succeeded # {} THEN "succeeded"
                    ELSE "failed",
        tries |-> Cardinality(tries)]

Contract == INSTANCE JobContract WITH
    Jobs <- 1..MaxExecutions,
    job <- LET root == Root
           IN [j \in 1..MaxExecutions |-> JobOf({e \in Ids : root[e] = j})]

(* The tables implement the contract: replacements of swept and of failed   *)
(* executions, late results and repeated sweeps never give a job two tries  *)
(* at a time, a try too many, a try at other work or a second outcome.      *)
ExecutionsKeepContract == Contract!Spec

===============================================================================
