----------------------------- MODULE ControlPlane -----------------------------
(***************************************************************************)
(* The control plane of Price Scout: the Postgres state that internal/store *)
(* keeps about monitors, plan revisions, executions, repair attempts and    *)
(* alerts, and the transactions that the API, the scheduler and the workers *)
(* (through the internal API) run against it.                               *)
(*                                                                          *)
(* A transaction is one action: each takes the row locks it depends on      *)
(* before it writes.  The exception is ClaimDueMonitors, whose NOT EXISTS   *)
(* is evaluated on the statement's snapshot, before the row lock is taken;  *)
(* it is split into SnapshotDue and ClaimDue.  A batch (ClaimDueMonitors,   *)
(* SweepStaleExecutions) is modelled row by row: LIMIT and SKIP LOCKED let  *)
(* any subset of the eligible rows be taken by one call.                    *)
(*                                                                          *)
(* Inserting an execution always inserts its outbox row in the same         *)
(* transaction, so a "queued" execution stands for both rows.  Wall-clock   *)
(* time is abstracted: next_run_at is null, later or due, and a running     *)
(* execution may be found stale at any moment.                              *)
(***************************************************************************)
EXTENDS Naturals, Sequences

CONSTANTS
    Monitors,        \* identities of the monitors that may be created
    MaxAttempts,     \* EXECUTION_MAX_ATTEMPTS, shared by the API and the scheduler
    AutoPromote,     \* values of autoPromote that successful repairs report
    MaxExecutions,   \* bound: rows the executions table may grow to
    MaxGenerations   \* bound: plan generations of one monitor

ASSUME AttemptsAssumption == MaxAttempts \in Nat \ {0}
ASSUME PromoteAssumption == AutoPromote \subseteq BOOLEAN
ASSUME BoundsAssumption == MaxExecutions \in Nat /\ MaxGenerations \in Nat

VARIABLES
    monitors,        \* [Monitors -> Monitor]: the monitors table
    revisions,       \* monitor_revisions: validation states, by generation
    executions,      \* the executions table; an execution's id is its index
    repairs,         \* repair_attempts, unique per (monitor, failed generation)
    alerts,          \* the executions whose observation raised an alert
    claiming         \* monitors in the row set of a scheduler statement

vars == <<monitors, revisions, executions, repairs, alerts, claiming>>

Generations == 1..MaxGenerations

(* 0 stands for a NULL revision, execution, trigger or parent. *)
Monitor ==
    [status: {"absent", "compiling", "awaiting_confirmation", "active",
              "needs_review", "paused", "blocked"},
     rev: {0} \cup Generations,
     matched: BOOLEAN,
     next: {"null", "later", "due"}]

RevisionState == {"candidate", "awaiting_confirmation", "active", "rejected"}

(* rev is both revision_id and requested_generation: generations are unique *)
(* within a monitor.  trigger is the execution whose observation asked for   *)
(* this confirmation, parent is recovery_of, and obs is the verdict of a     *)
(* check's verified observation ("none" when there is none).                 *)
Execution ==
    [mon: Monitors,
     kind: {"compile", "check", "repair"},
     rev: {0} \cup Generations,
     attempt: 1..MaxAttempts,
     state: {"queued", "running", "succeeded", "failed", "blocked", "needs_review"},
     trigger: Nat,
     parent: Nat,
     obs: {"none", "miss", "hit"}]

RepairAttempt ==
    [state: {"none", "queued", "running", "candidate", "activated", "rejected", "failed"},
     execution: Nat,
     candidate: {0} \cup Generations]

NoRepair == [state |-> "none", execution |-> 0, candidate |-> 0]

Ids == 1..Len(executions)

LiveStates == {"queued", "running"}

Live(e) == executions[e].state \in LiveStates

LiveExecutions(m) == {e \in Ids : executions[e].mon = m /\ Live(e)}

-------------------------------------------------------------------------------
(* Rows and row updates. *)

NewExecution(m, kind, rev, attempt, trigger, parent) ==
    [mon |-> m, kind |-> kind, rev |-> rev, attempt |-> attempt,
     state |-> "queued", trigger |-> trigger, parent |-> parent, obs |-> "none"]

HasRoom == Len(executions) < MaxExecutions

NextId == Len(executions) + 1

(* UPDATE executions SET state: the row of a finished execution. *)
Finished(e, state, obs) ==
    [executions EXCEPT ![e] = [@ EXCEPT !.state = state, !.obs = obs]]

(* UPDATE repair_attempts ... WHERE execution_id = e. *)
SetRepair(m, e, row) ==
    [repairs EXCEPT ![m] =
        [g \in Generations |->
            IF repairs[m][g].execution = e THEN row ELSE repairs[m][g]]]

SetMonitor(m, row) == monitors' = [monitors EXCEPT ![m] = row]

(* Rows of monitor m after the updates the transactions make. *)
WithStatus(m, status) == [monitors[m] EXCEPT !.status = status]

WithMatched(m, matched) == [monitors[m] EXCEPT !.matched = matched]

Scheduled(m, status, next) == [monitors[m] EXCEPT !.status = status, !.next = next]

(* Faulty variant: next_run_at is not set. *)
ActivatedUnscheduled(m, g) == [monitors[m] EXCEPT !.rev = g, !.status = "active"]

(* Faulty variant: the status is left as it was. *)
ActivatedSilently(m, g) == [monitors[m] EXCEPT !.rev = g, !.next = "later"]

(* A confirmed, accepted or promoted revision becomes current. *)
Activated(m, g) == [monitors[m] EXCEPT !.rev = g, !.status = "active", !.next = "later"]

(* A write of next_run_at makes the scheduler's recheck of the locked row *)
(* fail, so the monitor leaves the row set of the statement.              *)
KeepDueClaims == claiming' = {m \in claiming : monitors'[m].next = "due"}

-------------------------------------------------------------------------------
Init ==
    /\ monitors = [m \in Monitors |->
                     [status |-> "absent", rev |-> 0, matched |-> FALSE, next |-> "null"]]
    /\ revisions = [m \in Monitors |-> <<>>]
    /\ executions = <<>>
    /\ repairs = [m \in Monitors |-> [g \in Generations |-> NoRepair]]
    /\ alerts = {}
    /\ claiming = {}

-------------------------------------------------------------------------------
(* Operator requests: monitors.go and EnqueueCheck. *)

CreateMonitor(m) ==
    /\ monitors[m].status = "absent"
    /\ HasRoom
    /\ SetMonitor(m, WithStatus(m, "compiling"))
    /\ executions' = Append(executions, NewExecution(m, "compile", 0, 1, 0, 0))
    /\ UNCHANGED <<revisions, repairs, alerts, claiming>>

Reviewable(m, g) ==
    /\ g \in DOMAIN revisions[m]
    /\ revisions[m][g] \in {"candidate", "awaiting_confirmation"}

(* Faulty variant: the revision's validation state is not checked. *)
ConfirmAnyRevision(m, g) ==
    /\ g \in DOMAIN revisions[m]
    /\ revisions' = [revisions EXCEPT ![m][g] = "active"]
    /\ SetMonitor(m, Activated(m, g))
    /\ KeepDueClaims
    /\ UNCHANGED <<executions, repairs, alerts>>

(* The chosen revision is activated and every other pending one rejected. *)
(* Unlike ReviewRevision, no repair attempt is updated.                    *)
ConfirmMonitor(m, g) ==
    /\ Reviewable(m, g)
    /\ revisions' = [revisions EXCEPT ![m] =
                       [h \in 1..Len(revisions[m]) |->
                          IF h = g THEN "active"
                          ELSE IF Reviewable(m, h) THEN "rejected"
                          ELSE revisions[m][h]]]
    /\ SetMonitor(m, Activated(m, g))
    /\ KeepDueClaims
    /\ UNCHANGED <<executions, repairs, alerts>>

ReviewRevision(m, g, accept) ==
    /\ Reviewable(m, g)
    /\ revisions' = [revisions EXCEPT ![m][g] = IF accept THEN "active" ELSE "rejected"]
    /\ SetMonitor(m, IF accept THEN Activated(m, g)
                     ELSE WithStatus(m, IF monitors[m].rev = 0 THEN "blocked" ELSE "active"))
    /\ repairs' = [repairs EXCEPT ![m] =
                     [h \in Generations |->
                        IF repairs[m][h].candidate = g
                        THEN [repairs[m][h] EXCEPT
                                !.state = IF accept THEN "activated" ELSE "rejected"]
                        ELSE repairs[m][h]]]
    /\ KeepDueClaims
    /\ UNCHANGED <<executions, alerts>>

(* PatchMonitor has no guard on the monitor's state.  A patch of only the   *)
(* interval or the condition changes nothing represented here.              *)
Pause(m) ==
    /\ monitors[m].status # "absent"
    /\ SetMonitor(m, Scheduled(m, "paused", "null"))
    /\ KeepDueClaims
    /\ UNCHANGED <<revisions, executions, repairs, alerts>>

Resume(m) ==
    /\ monitors[m].status # "absent"
    /\ SetMonitor(m, Scheduled(m, "active", "due"))
    /\ KeepDueClaims
    /\ UNCHANGED <<revisions, executions, repairs, alerts>>

(* Faulty variant: an active monitor is taken to have a confirmed plan. *)
CheckableWhenActive(m) == monitors[m].status = "active"

Checkable(m) == monitors[m].status = "active" /\ monitors[m].rev # 0

InsertCheck(m) ==
    executions' = Append(executions, NewExecution(m, "check", monitors[m].rev, 1, 0, 0))

(* The monitor row is locked, not written, while the check is inserted.  A  *)
(* repeated idempotency key returns the existing row and changes nothing.   *)
EnqueueCheck(m) ==
    /\ Checkable(m)
    /\ LiveExecutions(m) = {}
    /\ HasRoom
    /\ InsertCheck(m)
    /\ UNCHANGED <<monitors, revisions, repairs, alerts, claiming>>

-------------------------------------------------------------------------------
(* The scheduler's ClaimDueMonitors. *)

NextRunArrives(m) ==
    /\ monitors[m].next = "later"
    /\ SetMonitor(m, Scheduled(m, monitors[m].status, "due"))
    /\ UNCHANGED <<revisions, executions, repairs, alerts, claiming>>

(* The WHERE clause, NOT EXISTS included, holds on the statement snapshot. *)
SnapshotDue(m) ==
    /\ m \notin claiming
    /\ Checkable(m)
    /\ monitors[m].next = "due"
    /\ LiveExecutions(m) = {}
    /\ claiming' = claiming \cup {m}
    /\ UNCHANGED <<monitors, revisions, executions, repairs, alerts>>

(* LockRows rechecks the columns of the locked row against its latest       *)
(* version; the executions subquery is not evaluated on a new snapshot.     *)
ClaimDue(m) ==
    /\ m \in claiming
    /\ Checkable(m)
    /\ HasRoom
    /\ InsertCheck(m)
    /\ SetMonitor(m, Scheduled(m, monitors[m].status, "later"))
    /\ KeepDueClaims
    /\ UNCHANGED <<revisions, repairs, alerts>>

(* SKIP LOCKED, LIMIT, a failed recheck or a rollback leaves the row alone. *)
SkipDue(m) ==
    /\ m \in claiming
    /\ claiming' = claiming \ {m}
    /\ UNCHANGED <<monitors, revisions, executions, repairs, alerts>>

-------------------------------------------------------------------------------
(* Workers: claim an execution's input, then report its result. *)

(* A queued execution starts.  Fetching the input of a running execution    *)
(* again only renews started_at, and of a finished one changes nothing.     *)
GetExecutionInput(e) ==
    LET m == executions[e].mon IN
    /\ executions[e].state = "queued"
    /\ executions' = [executions EXCEPT ![e].state = "running"]
    /\ repairs' = [repairs EXCEPT ![m] =
                     [g \in Generations |->
                        IF /\ executions[e].kind = "repair"
                           /\ repairs[m][g].execution = e
                           /\ repairs[m][g].state = "queued"
                        THEN [repairs[m][g] EXCEPT !.state = "running"]
                        ELSE repairs[m][g]]]
    /\ UNCHANGED <<monitors, revisions, alerts, claiming>>

(* Faulty variant: a late result revives an execution that was swept. *)
ReportableWhenSwept(e) == Live(e) \/ executions[e].state = "failed"

(* ApplyResult returns without effect when the execution is terminal. *)
Reportable(e) == Live(e)

(* Faulty variant: the repair attempt keeps naming the replaced execution. *)
HandOverLost(e) == repairs

(* enqueueExecutionReplacement: a new execution continues the lineage of e, *)
(* and the repair attempt of e is handed over to it; a repair that has no   *)
(* attempt row is an error, which rolls the transaction back.               *)
Replacement(e) ==
    LET x == executions[e] IN
    NewExecution(x.mon, x.kind, x.rev, x.attempt + 1, x.trigger, e)

HandOver(e) ==
    SetRepair(executions[e].mon, e,
              [state |-> "queued", execution |-> NextId, candidate |-> 0])

EnqueueReplacement(e, finished) ==
    /\ HasRoom
    /\ executions[e].kind = "repair" =>
          \E g \in Generations : repairs[executions[e].mon][g].execution = e
    /\ executions' = Append(finished, Replacement(e))
    /\ repairs' = IF executions[e].kind = "repair" THEN HandOver(e) ELSE repairs
    /\ UNCHANGED <<monitors, revisions, alerts, claiming>>

(* applyPlanResult for a compilation: generation 1 awaits confirmation. *)
CompileSucceeded(e) ==
    LET m == executions[e].mon IN
    /\ executions[e].kind = "compile"
    /\ Reportable(e)
    /\ Len(revisions[m]) < MaxGenerations
    /\ executions' = Finished(e, "succeeded", "none")
    /\ revisions' = [revisions EXCEPT ![m] = Append(@, "awaiting_confirmation")]
    /\ SetMonitor(m, WithStatus(m, "awaiting_confirmation"))
    /\ UNCHANGED <<repairs, alerts, claiming>>

(* The compare-and-swap of applyPlanResult. *)
Promotes(e, auto) ==
    auto /\ executions[e].rev # 0 /\ monitors[executions[e].mon].rev = executions[e].rev

(* applyPlanResult for a repair: the next generation is promoted over the   *)
(* repaired one, or waits for review.                                        *)
RepairSucceeded(e, auto) ==
    LET m == executions[e].mon
        g == Len(revisions[m]) + 1
    IN
    /\ executions[e].kind = "repair"
    /\ Reportable(e)
    /\ g <= MaxGenerations
    /\ executions' = Finished(e, "succeeded", "none")
    /\ revisions' = [revisions EXCEPT ![m] =
                       Append(@, IF Promotes(e, auto) THEN "active" ELSE "candidate")]
    /\ repairs' = SetRepair(m, e,
                     [state |-> IF Promotes(e, auto) THEN "activated" ELSE "candidate",
                      execution |-> e, candidate |-> g])
    /\ SetMonitor(m, IF Promotes(e, auto) THEN Activated(m, g)
                     ELSE WithStatus(m, "needs_review"))
    /\ KeepDueClaims
    /\ UNCHANGED alerts

(* Faulty variant: a confirmation that is still queued is overlooked. *)
ConfirmationRunning(m) ==
    \E c \in LiveExecutions(m) :
        executions[c].trigger # 0 /\ executions[c].state = "running"

ConfirmationPending(m) ==
    \E c \in LiveExecutions(m) : executions[c].kind = "check" /\ executions[c].trigger # 0

(* An ordinary check: a miss re-arms the condition, and a hit while armed   *)
(* asks for a confirmation by the same revision unless one is pending.      *)
(* "none" is an observation that needs review: stored, nothing else.        *)
OrdinaryCheckSucceeded(e, obs) ==
    LET m == executions[e].mon
        confirm == obs = "hit" /\ ~monitors[m].matched /\ ~ConfirmationPending(m)
        done == Finished(e, "succeeded", obs)
    IN
    /\ executions[e].kind = "check" /\ executions[e].trigger = 0
    /\ Reportable(e)
    /\ confirm => HasRoom
    /\ executions' = IF confirm
                     THEN Append(done, NewExecution(m, "check", executions[e].rev, 1, e, 0))
                     ELSE done
    /\ SetMonitor(m, IF obs = "miss" THEN WithMatched(m, FALSE)
                     ELSE monitors[m])
    /\ UNCHANGED <<revisions, repairs, alerts, claiming>>

(* Faulty variant: any matching check raises the alert. *)
UnconfirmedAlert(e, obs) ==
    LET m == executions[e].mon IN
    /\ executions[e].kind = "check"
    /\ Reportable(e)
    /\ executions' = Finished(e, "succeeded", obs)
    /\ SetMonitor(m, IF obs = "none" THEN monitors[m]
                     ELSE WithMatched(m, obs = "hit"))
    /\ alerts' = IF obs = "hit" /\ ~monitors[m].matched THEN alerts \cup {e} ELSE alerts
    /\ UNCHANGED <<revisions, repairs, claiming>>

(* A confirmation sets condition_matched, and a false-to-true transition    *)
(* creates an alert.                                                         *)
ConfirmationSucceeded(e, obs) ==
    LET m == executions[e].mon IN
    /\ executions[e].kind = "check" /\ executions[e].trigger # 0
    /\ Reportable(e)
    /\ executions' = Finished(e, "succeeded", obs)
    /\ SetMonitor(m, IF obs = "none" THEN monitors[m]
                     ELSE WithMatched(m, obs = "hit"))
    /\ alerts' = IF obs = "hit" /\ ~monitors[m].matched THEN alerts \cup {e} ELSE alerts
    /\ UNCHANGED <<revisions, repairs, claiming>>

-------------------------------------------------------------------------------
(* applyFailure.  class is the group of failure classifications the code    *)
(* tells apart: transient (transient_infrastructure, rate_limited), stale   *)
(* (stale_action, stale_extractor), blocked, doubtful (ambiguous_value,     *)
(* identity_drift) and other.                                                *)

FailureStatus == {"failed", "blocked", "needs_review"}
FailureClass == {"transient", "stale", "blocked", "doubtful", "other"}

(* Faulty variant: attempts are not bounded. *)
ShouldAlwaysRetry(e, status, class) ==
    /\ status = "failed"
    /\ executions[e].kind \in {"compile", "repair"}
    /\ class = "transient"

ShouldRetry(e, status, class) ==
    /\ status = "failed"
    /\ executions[e].attempt < MaxAttempts
    /\ executions[e].kind \in {"compile", "repair"}
    /\ class = "transient"

FailureRetried(e, status, class) ==
    /\ Reportable(e)
    /\ ShouldRetry(e, status, class)
    /\ EnqueueReplacement(e, Finished(e, status, "none"))

(* Faulty variant: the monitor of a failed compilation is not updated. *)
CompileForgotten(e, status, class) ==
    /\ executions[e].kind = "compile"
    /\ Reportable(e)
    /\ ~ShouldRetry(e, status, class)
    /\ executions' = Finished(e, status, "none")
    /\ UNCHANGED <<monitors, revisions, repairs, alerts, claiming>>

CompileFailed(e, status, class) ==
    LET m == executions[e].mon IN
    /\ executions[e].kind = "compile"
    /\ Reportable(e)
    /\ ~ShouldRetry(e, status, class)
    /\ executions' = Finished(e, status, "none")
    /\ SetMonitor(m, WithStatus(m, IF status = "needs_review" THEN "needs_review" ELSE "blocked"))
    /\ UNCHANGED <<revisions, repairs, alerts, claiming>>

(* The attempt fails and the monitor waits for review. *)
RepairGivesUp(e) ==
    LET m == executions[e].mon IN
    /\ repairs' = SetRepair(m, e, [state |-> "failed", execution |-> e, candidate |-> 0])
    /\ SetMonitor(m, Scheduled(m, "needs_review", "null"))
    /\ KeepDueClaims
    /\ UNCHANGED <<revisions, alerts>>

RepairFailed(e, status, class) ==
    /\ executions[e].kind = "repair"
    /\ Reportable(e)
    /\ ~ShouldRetry(e, status, class)
    /\ executions' = Finished(e, status, "none")
    /\ RepairGivesUp(e)

CheckFailed(e, status, class) ==
    LET m == executions[e].mon IN
    /\ executions[e].kind = "check"
    /\ class # "stale"
    /\ Reportable(e)
    /\ executions' = Finished(e, status, "none")
    /\ SetMonitor(m,
         IF status = "blocked" \/ class = "blocked"
         THEN WithStatus(m, "blocked")
         ELSE IF status = "needs_review" \/ class = "doubtful"
         THEN Scheduled(m, "needs_review", "null")
         ELSE monitors[m])
    /\ KeepDueClaims
    /\ UNCHANGED <<revisions, repairs, alerts>>

(* Faulty variant: a generation whose attempt is over is repaired again. *)
RepairReopened(e) ==
    repairs[executions[e].mon][executions[e].rev].state \notin LiveStates

(* The first stale check of a generation opens its repair. *)
RepairNeeded(e) == repairs[executions[e].mon][executions[e].rev].state = "none"

StaleCheckOpensRepair(e, status) ==
    LET m == executions[e].mon
        g == executions[e].rev
    IN
    /\ executions[e].kind = "check"
    /\ Reportable(e)
    /\ RepairNeeded(e)
    /\ HasRoom
    /\ executions' = Append(Finished(e, status, "none"), NewExecution(m, "repair", g, 1, 0, 0))
    /\ repairs' = [repairs EXCEPT ![m][g] =
                     [state |-> "queued", execution |-> NextId, candidate |-> 0]]
    /\ SetMonitor(m, Scheduled(m, "needs_review", "null"))
    /\ KeepDueClaims
    /\ UNCHANGED <<revisions, alerts>>

(* Any later one is only recorded: the monitor is left as it is. *)
StaleCheckRecorded(e, status) ==
    /\ executions[e].kind = "check"
    /\ Reportable(e)
    /\ ~RepairNeeded(e)
    /\ executions' = Finished(e, status, "none")
    /\ UNCHANGED <<monitors, revisions, repairs, alerts, claiming>>

ApplyFailure(e) ==
    \E status \in FailureStatus :
        \/ StaleCheckOpensRepair(e, status)
        \/ StaleCheckRecorded(e, status)
        \/ \E class \in FailureClass :
              \/ FailureRetried(e, status, class)
              \/ CompileFailed(e, status, class)
              \/ RepairFailed(e, status, class)
              \/ CheckFailed(e, status, class)

ApplyResult(e) ==
    \/ CompileSucceeded(e)
    \/ \E auto \in AutoPromote : RepairSucceeded(e, auto)
    \/ \E obs \in {"none", "miss", "hit"} :
          OrdinaryCheckSucceeded(e, obs) \/ ConfirmationSucceeded(e, obs)
    \/ ApplyFailure(e)

-------------------------------------------------------------------------------
(* The scheduler's SweepStaleExecutions. *)

(* Faulty variant: the state of the execution is not checked. *)
SweepableInAnyState(e) == \A c \in Ids : executions[c].parent # e

(* Faulty variant: a failed execution is recovered as well. *)
SweepableWhenFailed(e) ==
    /\ executions[e].state \in {"running", "failed"}
    /\ \A c \in Ids : executions[c].parent # e

(* state='running', old enough, and no child yet. *)
Sweepable(e) ==
    /\ executions[e].state = "running"
    /\ \A c \in Ids : executions[c].parent # e

SweepRequeues(e) ==
    /\ Sweepable(e)
    /\ executions[e].attempt < MaxAttempts
    /\ EnqueueReplacement(e, Finished(e, "failed", "none"))

(* terminalizeStaleExecution. *)
SweepTerminates(e) ==
    LET m == executions[e].mon IN
    /\ Sweepable(e)
    /\ executions[e].attempt >= MaxAttempts
    /\ executions' = Finished(e, "failed", "none")
    /\ \/ /\ executions[e].kind = "compile"
          /\ SetMonitor(m, WithStatus(m, "blocked"))
          /\ UNCHANGED <<revisions, repairs, alerts, claiming>>
       \/ /\ executions[e].kind = "repair"
          /\ RepairGivesUp(e)
       \/ /\ executions[e].kind = "check"
          /\ UNCHANGED <<monitors, revisions, repairs, alerts, claiming>>

-------------------------------------------------------------------------------
OperatorStep(m) ==
    \/ CreateMonitor(m)
    \/ Pause(m)
    \/ Resume(m)
    \/ EnqueueCheck(m)
    \/ \E g \in Generations :
          ConfirmMonitor(m, g) \/ \E accept \in BOOLEAN : ReviewRevision(m, g, accept)

SchedulerStep(m) ==
    NextRunArrives(m) \/ SnapshotDue(m) \/ ClaimDue(m) \/ SkipDue(m)

ExecutionStep(e) ==
    GetExecutionInput(e) \/ ApplyResult(e) \/ SweepRequeues(e) \/ SweepTerminates(e)

Next ==
    \/ \E m \in Monitors : OperatorStep(m) \/ SchedulerStep(m)
    \/ \E e \in Ids : ExecutionStep(e)

Spec == Init /\ [][Next]_vars

-------------------------------------------------------------------------------
(* Properties. *)

(* Every table holds rows of its type; the references between tables are    *)
(* the subject of the other invariants.                                      *)
TypeOK ==
    /\ monitors \in [Monitors -> Monitor]
    /\ revisions \in [Monitors -> Seq(RevisionState)]
    /\ executions \in Seq(Execution)
    /\ repairs \in [Monitors -> [Generations -> RepairAttempt]]
    /\ alerts \subseteq Nat
    /\ claiming \subseteq Monitors

(* A repair attempt is the lease of its generation: the live repair         *)
(* execution is exactly the one the open attempt names, in the same state,  *)
(* whatever replacements, sweeps and late results happened in between.  In  *)
(* particular enqueueExecutionReplacement never finds a repair without row. *)
RepairLease ==
    /\ \A e \in Ids :
          (executions[e].kind = "repair" /\ Live(e)) =>
              \E g \in Generations :
                 /\ g = executions[e].rev
                 /\ repairs[executions[e].mon][g].execution = e
                 /\ repairs[executions[e].mon][g].state = executions[e].state
    /\ \A m \in Monitors, g \in Generations :
          repairs[m][g].state \in LiveStates =>
              \E e \in LiveExecutions(m) :
                 /\ e = repairs[m][g].execution
                 /\ executions[e].kind = "repair" /\ executions[e].rev = g

(* While a repair is in flight its base revision stays current and newest   *)
(* and nothing waits for review, so the compare-and-swap of applyPlanResult *)
(* always finds the revision it repaired, whatever operators do meanwhile.  *)
PromotionNeverStale ==
    \A e \in Ids :
        (executions[e].kind = "repair" /\ Live(e)) =>
            LET m == executions[e].mon IN
            /\ monitors[m].rev = executions[e].rev
            /\ Len(revisions[m]) = executions[e].rev
            /\ \A h \in Generations : ~Reviewable(m, h)

(* At most one confirmation of a monitor is in flight. *)
OneLiveConfirmation ==
    \A m \in Monitors : \A c, d \in LiveExecutions(m) :
        (executions[c].trigger # 0 /\ executions[d].trigger # 0) => c = d

(* An alert rests on two sightings: a confirmation check that matched, and  *)
(* the earlier ordinary check, of the same monitor and revision, whose      *)
(* verified observation matched and triggered it.                            *)
AlertsAreConfirmed ==
    \A a \in alerts :
        /\ a \in Ids /\ executions[a].trigger \in 1..(a - 1)
        /\ LET t == executions[executions[a].trigger] IN
             /\ t.kind = "check" /\ t.trigger = 0 /\ t.state = "succeeded"
             /\ t.obs = "hit" /\ executions[a].obs = "hit"
             /\ t.mon = executions[a].mon /\ t.rev = executions[a].rev

(* A sighting raises at most one alert, although its confirmation may be    *)
(* swept and replaced and the abandoned worker may still report.            *)
OneAlertPerSighting ==
    \A a, b \in alerts : executions[a].trigger = executions[b].trigger => a = b

(* A monitor that is compiling has its compilation queued or running: the   *)
(* work is never lost between attempts.                                      *)
CompilingHasWork ==
    \A m \in Monitors : monitors[m].status = "compiling" =>
        \E e \in LiveExecutions(m) : executions[e].kind = "compile"

(* An active monitor with a plan has a next run: it cannot drop out of the  *)
(* schedule, except by the rejection of a repair candidate, which makes the *)
(* monitor active without setting next_run_at.  The shipped worker always   *)
(* asks for promotion and leaves no candidates to reject.                   *)
ActiveIsScheduled ==
    \A m \in Monitors : Checkable(m) =>
        \/ monitors[m].next # "null"
        \/ \E g \in Generations : repairs[m][g].state = "rejected"

(* A finished execution never changes again: a late or repeated result, and *)
(* a sweep, leave its row as it is.                                          *)
TerminalIsFinal ==
    [][\A e \in Ids : ~Live(e) => executions'[e] = executions[e]]_vars

(* The plan a monitor runs never goes back to an older generation, through  *)
(* confirmation, review or promotion, in any order.                          *)
GenerationNeverRegresses ==
    [][\A m \in Monitors : monitors'[m].rev >= monitors[m].rev]_vars

(* docs/architecture.md:26: "Scheduler and API rules serialize normal       *)
(* executions for each monitor."                                             *)
SingleInFlight ==
    \A m \in Monitors : \A c, d \in LiveExecutions(m) : c = d

-------------------------------------------------------------------------------
(* The inductive invariant behind the repair and promotion properties. *)

(* Generations are numbered without gaps, the current one exists, and a     *)
(* monitor that was not created has none.                                    *)
CurrentExists ==
    \A m \in Monitors :
        /\ monitors[m].rev <= Len(revisions[m])
        /\ Len(revisions[m]) <= MaxGenerations
        /\ monitors[m].status = "absent" => Len(revisions[m]) = 0

(* Checks and repairs run a generation that is, or was, current: pausing    *)
(* and resuming a monitor that was never confirmed makes it active, yet     *)
(* nothing is checked before a plan is approved.                            *)
ExecutionsRunKnownPlans ==
    \A e \in Ids :
        /\ monitors[executions[e].mon].status # "absent"
        /\ executions[e].kind # "compile" =>
              executions[e].rev \in 1..monitors[executions[e].mon].rev

(* Only the newest generation can wait for review, and it is newer than the *)
(* current one.                                                              *)
PendingIsNewest ==
    \A m \in Monitors : \A h \in 1..Len(revisions[m]) :
        Reviewable(m, h) => (h = Len(revisions[m]) /\ h > monitors[m].rev)

RepairDone == {"candidate", "activated", "rejected"}

(* A repair attempt names a repair execution of its own generation and is   *)
(* open exactly while that execution is live; every generation but the      *)
(* newest has been repaired.                                                 *)
RepairRowOK(m, g) ==
    LET r == repairs[m][g] IN
    /\ r.state = "none" <=> r.execution = 0
    /\ r.candidate # 0 => r.state \in RepairDone
    /\ r.state # "none" =>
          /\ r.execution \in Ids
          /\ executions[r.execution].mon = m
          /\ executions[r.execution].kind = "repair"
          /\ executions[r.execution].rev = g
          /\ IF Live(r.execution) THEN r.state = executions[r.execution].state
             ELSE r.state \notin LiveStates
    /\ g < Len(revisions[m]) => r.state \in RepairDone

RepairRows == \A m \in Monitors, g \in Generations : RepairRowOK(m, g)

(* A live repair holds the attempt of its generation. *)
LiveRepairHoldsRow ==
    \A e \in Ids :
        (executions[e].kind = "repair" /\ Live(e)) =>
            repairs[executions[e].mon][executions[e].rev].execution = e

(* A compilation is live only before the first generation, and alone. *)
OneLiveCompile ==
    \A e \in Ids :
        (executions[e].kind = "compile" /\ Live(e)) =>
            /\ Len(revisions[executions[e].mon]) = 0
            /\ \A d \in Ids :
                  (/\ executions[d].mon = executions[e].mon
                   /\ executions[d].kind = "compile" /\ Live(d)) => d = e

RepairInv ==
    /\ TypeOK
    /\ CurrentExists
    /\ ExecutionsRunKnownPlans
    /\ PendingIsNewest
    /\ RepairRows
    /\ LiveRepairHoldsRow
    /\ OneLiveCompile

===============================================================================
