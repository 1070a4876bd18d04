----------------------------- MODULE OperatorViews -----------------------------
(***************************************************************************)
(* What the operator console derives from the tables of ControlPlane and    *)
(* offers to its operator: the monitor page (MonitorDetailPage.tsx) and the *)
(* review of a candidate (getReview in web/src/api/client.ts).  The views   *)
(* are functions of one consistent snapshot; that a snapshot may be old is  *)
(* the subject of Console.                                                   *)
(***************************************************************************)
EXTENDS ControlPlane

Highest(S) == CHOOSE g \in S : \A h \in S : h <= g

Generated(m) == 1..Len(revisions[m])

-------------------------------------------------------------------------------
(* The monitor page. *)

(* activated_at is set exactly when a revision becomes active. *)
Unactivated(m) == {g \in Generated(m) : revisions[m][g] # "active"}

(* The confirmation panel and the revision it would confirm. *)
latestCandidate(m) == Highest(Unactivated(m))

ConfirmationPanel(m) ==
    /\ monitors[m].status \in {"awaiting_confirmation", "needs_review"}
    /\ Unactivated(m) # {}

(* The Pause and Resume button. *)
togglePauseEnabled(m) == monitors[m].status \notin {"compiling", "awaiting_confirmation"}

-------------------------------------------------------------------------------
(* The review page. *)

Lower(m, g) == {h \in Generated(m) : h < g}

(* Faulty variant: the lower generations are sorted the other way. *)
oldest(m, g) == CHOOSE h \in Lower(m, g) : \A k \in Lower(m, g) : h <= k

(* What the candidate is compared with. *)
previous(m, g) == Highest(Lower(m, g))

source(g) == IF g = 1 THEN "compile" ELSE "repair"

(* The executions whose evidence is shown: the latest is chosen. *)
Evidence(m, g) ==
    {e \in Ids : /\ executions[e].mon = m /\ executions[e].kind = source(g)
                 /\ executions[e].state = "succeeded"}

candidateExecution(m, g) == Highest(Evidence(m, g))

-------------------------------------------------------------------------------
(* Properties. *)

(* The page of a monitor is never a dead end.  A monitor that awaits its    *)
(* first confirmation shows the panel, with a revision that ConfirmMonitor  *)
(* accepts; one that has a confirmed plan never falls back to a status in   *)
(* which it can be neither paused nor resumed.  (After a doubtful check the *)
(* panel may name a rejected revision, which the API refuses.)              *)
NoDeadEnd ==
    \A m \in Monitors :
        /\ monitors[m].status = "awaiting_confirmation" =>
              ConfirmationPanel(m) /\ Reviewable(m, latestCandidate(m))
        /\ monitors[m].rev # 0 => togglePauseEnabled(m)

(* The review of a repair shows what its texts promise: "Difference from    *)
(* the active generation" and evidence "captured by the browser that        *)
(* produced this candidate" (ReviewPage.tsx), although both are guessed     *)
(* from generation numbers and from the kind of the latest execution.       *)
ReviewShowsItsCandidate ==
    \A m \in Monitors : \A g \in Generated(m) :
        (Reviewable(m, g) /\ g > 1) =>
            /\ previous(m, g) = monitors[m].rev
            /\ \A h \in Generations :
                  repairs[m][h].candidate = g =>
                      repairs[m][h].execution = candidateExecution(m, g)

===============================================================================
