-------------------------- MODULE ControlPlaneProofs --------------------------
(* Proofs about ControlPlane, for every set of monitors and every bound. *)
EXTENDS ControlPlane, SequenceTheorems, TLAPS

(* An update of one entry keeps a sequence a sequence of the same length. *)
LEMMA UpdatedSeq ==
    ASSUME NEW S, NEW s \in Seq(S), NEW i \in 1..Len(s), NEW x \in S
    PROVE  /\ [s EXCEPT ![i] = x] \in Seq(S)
           /\ Len([s EXCEPT ![i] = x]) = Len(s)
           /\ \A j \in 1..Len(s) :
                 [s EXCEPT ![i] = x][j] = IF j = i THEN x ELSE s[j]
  BY ExceptSeq

(* Appending adds one entry and keeps the others. *)
LEMMA AppendedSeq ==
    ASSUME NEW S, NEW s \in Seq(S), NEW x \in S
    PROVE  /\ Append(s, x) \in Seq(S)
           /\ Len(Append(s, x)) = Len(s) + 1
           /\ \A j \in 1..Len(s) : Append(s, x)[j] = s[j]
           /\ Append(s, x)[Len(s) + 1] = x
  OBVIOUS

(* Finishing an execution changes only its state and its observation. *)
LEMMA FinishedRow ==
    ASSUME executions \in Seq(Execution), NEW e \in Ids,
           NEW st \in {"succeeded", "failed", "blocked", "needs_review"},
           NEW obs \in {"none", "miss", "hit"}
    PROVE  /\ Finished(e, st, obs) \in Seq(Execution)
           /\ Len(Finished(e, st, obs)) = Len(executions)
           /\ \A j \in Ids : j # e => Finished(e, st, obs)[j] = executions[j]
           /\ LET y == Finished(e, st, obs)[e] IN
                /\ y.mon = executions[e].mon
                /\ y.kind = executions[e].kind
                /\ y.rev = executions[e].rev
                /\ y.attempt = executions[e].attempt
                /\ y.trigger = executions[e].trigger
                /\ y.parent = executions[e].parent
                /\ y.state = st
                /\ y.obs = obs
  <1> DEFINE x == [executions[e] EXCEPT !.state = st, !.obs = obs]
  <1>1. executions[e] \in Execution
    BY ElementOfSeq DEF Ids
  <1>2. /\ x \in Execution
        /\ x.mon = executions[e].mon /\ x.kind = executions[e].kind
        /\ x.rev = executions[e].rev /\ x.attempt = executions[e].attempt
        /\ x.trigger = executions[e].trigger /\ x.parent = executions[e].parent
        /\ x.state = st /\ x.obs = obs
    BY <1>1 DEF Execution
  <1>3. Finished(e, st, obs) = [executions EXCEPT ![e] = x]
    BY DEF Finished
  <1> HIDE DEF x
  <1>4. /\ [executions EXCEPT ![e] = x] \in Seq(Execution)
        /\ Len([executions EXCEPT ![e] = x]) = Len(executions)
        /\ \A j \in Ids : [executions EXCEPT ![e] = x][j] = IF j = e THEN x ELSE executions[j]
    BY <1>2, UpdatedSeq DEF Ids
  <1> QED
    BY <1>2, <1>3, <1>4

(* A new execution is queued with the fields it is given. *)
LEMMA NewRow ==
    ASSUME NEW m \in Monitors, NEW k \in {"compile", "check", "repair"},
           NEW r \in {0} \cup Generations, NEW t \in Nat
    PROVE  NewExecution(m, k, r, 1, t, 0) \in Execution
  BY AttemptsAssumption DEF NewExecution, Execution

(* A replacement is the next attempt at the same work. *)
LEMMA ReplacementRow ==
    ASSUME executions \in Seq(Execution), NEW e \in Ids,
           executions[e].attempt < MaxAttempts
    PROVE  /\ Replacement(e) \in Execution
           /\ Replacement(e).mon = executions[e].mon
           /\ Replacement(e).kind = executions[e].kind
           /\ Replacement(e).rev = executions[e].rev
           /\ Replacement(e).attempt = executions[e].attempt + 1
           /\ Replacement(e).trigger = executions[e].trigger
           /\ Replacement(e).parent = e
           /\ Replacement(e).state = "queued"
  <1>1. executions[e] \in Execution
    BY ElementOfSeq DEF Ids
  <1>2. Len(executions) \in Nat
    OBVIOUS
  <1>3. QED
    BY <1>1, <1>2, AttemptsAssumption DEF Replacement, NewExecution, Execution, Ids

Status == {"absent", "compiling", "awaiting_confirmation", "active",
           "needs_review", "paused", "blocked"}

(* The updated rows of a monitor: their types and what they keep. *)
LEMMA MonitorRows ==
    ASSUME TypeOK, NEW m \in Monitors
    PROVE  /\ monitors[m] \in Monitor
           /\ \A st \in Status :
                /\ WithStatus(m, st) \in Monitor
                /\ WithStatus(m, st).rev = monitors[m].rev
                /\ WithStatus(m, st).status = st
           /\ \A b \in BOOLEAN :
                /\ WithMatched(m, b) \in Monitor
                /\ WithMatched(m, b).rev = monitors[m].rev
                /\ WithMatched(m, b).status = monitors[m].status
           /\ \A st \in Status, n \in {"null", "later", "due"} :
                /\ Scheduled(m, st, n) \in Monitor
                /\ Scheduled(m, st, n).rev = monitors[m].rev
                /\ Scheduled(m, st, n).status = st
           /\ \A g \in Generations :
                /\ Activated(m, g) \in Monitor
                /\ Activated(m, g).rev = g
                /\ Activated(m, g).status = "active"
  <1>1. monitors[m] \in Monitor
    BY DEF TypeOK
  <1>2. ASSUME NEW st \in Status
        PROVE  /\ WithStatus(m, st) \in Monitor
               /\ WithStatus(m, st).rev = monitors[m].rev
               /\ WithStatus(m, st).status = st
    BY <1>1 DEF Monitor, Status, WithStatus
  <1>3. ASSUME NEW b \in BOOLEAN
        PROVE  /\ WithMatched(m, b) \in Monitor
               /\ WithMatched(m, b).rev = monitors[m].rev
               /\ WithMatched(m, b).status = monitors[m].status
    BY <1>1 DEF Monitor, WithMatched
  <1>4. ASSUME NEW st \in Status, NEW n \in {"null", "later", "due"}
        PROVE  /\ Scheduled(m, st, n) \in Monitor
               /\ Scheduled(m, st, n).rev = monitors[m].rev
               /\ Scheduled(m, st, n).status = st
    BY <1>1 DEF Monitor, Status, Scheduled
  <1>5. ASSUME NEW g \in Generations
        PROVE  /\ Activated(m, g) \in Monitor
               /\ Activated(m, g).rev = g
               /\ Activated(m, g).status = "active"
    BY <1>1 DEF Monitor, Activated
  <1>6. QED
    BY <1>1, <1>2, <1>3, <1>4, <1>5

LEMMA SetRepairType ==
    ASSUME TypeOK, NEW m \in Monitors, NEW e, NEW row \in RepairAttempt
    PROVE  SetRepair(m, e, row) \in [Monitors -> [Generations -> RepairAttempt]]
  <1>1. \A g \in Generations : repairs[m][g] \in RepairAttempt
    BY DEF TypeOK
  <1>2. [g \in Generations |-> IF repairs[m][g].execution = e THEN row ELSE repairs[m][g]]
            \in [Generations -> RepairAttempt]
    BY <1>1
  <1>3. QED
    BY <1>2 DEF TypeOK, SetRepair

LEMMA ClaimsType ==
    ASSUME TypeOK, KeepDueClaims
    PROVE  claiming' \subseteq Monitors
  BY DEF TypeOK, KeepDueClaims

LEMMA TypeInit == Init => TypeOK
  <1> SUFFICES ASSUME Init PROVE TypeOK
    OBVIOUS
  <1>1. NoRepair \in RepairAttempt
    BY DEF NoRepair, RepairAttempt
  <1>2. QED
    BY <1>1 DEF Init, TypeOK, Monitor

LEMMA SetMonitorRow ==
    ASSUME TypeOK, NEW m \in Monitors, NEW row \in Monitor, SetMonitor(m, row)
    PROVE  /\ monitors' \in [Monitors -> Monitor]
           /\ monitors'[m] = row
           /\ \A n \in Monitors : n # m => monitors'[n] = monitors[n]
  BY DEF TypeOK, SetMonitor

(* Operator requests keep every table well typed. *)
LEMMA OperatorType ==
    ASSUME TypeOK, NEW m \in Monitors, OperatorStep(m)
    PROVE  TypeOK'
  <1>0. monitors[m].rev \in {0} \cup Generations
    BY DEF TypeOK, Monitor
  <1>1. CASE CreateMonitor(m)
    <2>1. monitors' \in [Monitors -> Monitor]
      BY <1>1, MonitorRows, SetMonitorRow DEF CreateMonitor, Status
    <2>2. executions' \in Seq(Execution)
      BY <1>1, NewRow, AppendedSeq DEF CreateMonitor, TypeOK
    <2>3. QED
      BY <1>1, <2>1, <2>2 DEF CreateMonitor, TypeOK
  <1>2. CASE Pause(m) \/ Resume(m)
    <2>1. monitors' \in [Monitors -> Monitor]
      BY <1>2, MonitorRows, SetMonitorRow DEF Pause, Resume, Status
    <2>2. QED
      BY <1>2, <2>1, ClaimsType DEF Pause, Resume, TypeOK
  <1>3. CASE EnqueueCheck(m)
    <2>1. executions' \in Seq(Execution)
      BY <1>0, <1>3, NewRow, AppendedSeq DEF EnqueueCheck, InsertCheck, TypeOK
    <2>2. QED
      BY <1>3, <2>1 DEF EnqueueCheck, TypeOK
  <1>4. ASSUME NEW g \in Generations, ConfirmMonitor(m, g) PROVE TypeOK'
    <2>1. monitors' \in [Monitors -> Monitor]
      BY <1>4, MonitorRows, SetMonitorRow DEF ConfirmMonitor
    <2>2. revisions' \in [Monitors -> Seq(RevisionState)]
      <3> DEFINE n == Len(revisions[m])
                 f(h) == IF h = g THEN "active"
                         ELSE IF Reviewable(m, h) THEN "rejected" ELSE revisions[m][h]
      <3>1. revisions[m] \in Seq(RevisionState) /\ n \in Nat
        BY DEF TypeOK
      <3>2. \A h \in 1..n : f(h) \in RevisionState
        BY <3>1 DEF RevisionState
      <3> HIDE DEF f, n
      <3>3. [h \in 1..n |-> f(h)] \in Seq(RevisionState)
        BY <3>1, <3>2, IsASeq
      <3>4. QED
        BY <1>4, <3>3 DEF ConfirmMonitor, TypeOK, f, n
    <2>3. QED
      BY <1>4, <2>1, <2>2, ClaimsType DEF ConfirmMonitor, TypeOK
  <1>5. ASSUME NEW g \in Generations, NEW accept \in BOOLEAN, ReviewRevision(m, g, accept)
        PROVE  TypeOK'
    <2>1. monitors' \in [Monitors -> Monitor]
      BY <1>5, MonitorRows, SetMonitorRow DEF ReviewRevision, Status
    <2>2. revisions' \in [Monitors -> Seq(RevisionState)]
      <3>1. revisions[m] \in Seq(RevisionState) /\ g \in 1..Len(revisions[m])
        BY <1>5 DEF TypeOK, ReviewRevision, Reviewable
      <3>2. [revisions[m] EXCEPT ![g] = IF accept THEN "active" ELSE "rejected"] \in Seq(RevisionState)
        BY <3>1, UpdatedSeq DEF RevisionState
      <3>3. QED
        BY <1>5, <3>2 DEF ReviewRevision, TypeOK
    <2>3. repairs' \in [Monitors -> [Generations -> RepairAttempt]]
      <3> DEFINE f(h) == IF repairs[m][h].candidate = g
                         THEN [repairs[m][h] EXCEPT
                                 !.state = IF accept THEN "activated" ELSE "rejected"]
                         ELSE repairs[m][h]
      <3>1. \A h \in Generations : repairs[m][h] \in RepairAttempt
        BY DEF TypeOK
      <3>2. \A h \in Generations : f(h) \in RepairAttempt
        BY <3>1 DEF RepairAttempt
      <3>3. repairs' = [repairs EXCEPT ![m] = [h \in Generations |-> f(h)]]
        BY <1>5 DEF ReviewRevision
      <3> HIDE DEF f
      <3>4. QED
        BY <3>2, <3>3 DEF TypeOK
    <2>4. QED
      BY <1>5, <2>1, <2>2, <2>3, ClaimsType DEF ReviewRevision, TypeOK
  <1>6. QED
    BY <1>1, <1>2, <1>3, <1>4, <1>5 DEF OperatorStep

(* The scheduler's claims keep every table well typed. *)
LEMMA SchedulerType ==
    ASSUME TypeOK, NEW m \in Monitors, SchedulerStep(m)
    PROVE  TypeOK'
  <1>0. monitors[m].rev \in {0} \cup Generations /\ monitors[m].status \in Status
    BY DEF TypeOK, Monitor, Status
  <1>1. CASE NextRunArrives(m)
    <2>1. monitors' \in [Monitors -> Monitor]
      BY <1>0, <1>1, MonitorRows, SetMonitorRow DEF NextRunArrives
    <2>2. QED
      BY <1>1, <2>1 DEF NextRunArrives, TypeOK
  <1>2. CASE SnapshotDue(m) \/ SkipDue(m)
    BY <1>2 DEF SnapshotDue, SkipDue, TypeOK
  <1>3. CASE ClaimDue(m)
    <2>1. monitors' \in [Monitors -> Monitor]
      BY <1>0, <1>3, MonitorRows, SetMonitorRow DEF ClaimDue
    <2>2. executions' \in Seq(Execution)
      BY <1>0, <1>3, NewRow, AppendedSeq DEF ClaimDue, InsertCheck, TypeOK
    <2>3. QED
      BY <1>3, <2>1, <2>2, ClaimsType DEF ClaimDue, TypeOK
  <1>4. QED
    BY <1>1, <1>2, <1>3 DEF SchedulerStep

(* The row of an execution. *)
LEMMA ExecutionRow ==
    ASSUME TypeOK, NEW e \in Ids
    PROVE  /\ executions \in Seq(Execution) /\ Len(executions) \in Nat
           /\ e \in Nat /\ e >= 1 /\ e <= Len(executions)
           /\ executions[e] \in Execution
           /\ executions[e].mon \in Monitors
           /\ executions[e].rev \in {0} \cup Generations
           /\ executions[e].kind \in {"compile", "check", "repair"}
  <1>1. executions \in Seq(Execution) /\ Len(executions) \in Nat
    BY DEF TypeOK
  <1>2. executions[e] \in Execution
    BY <1>1, ElementOfSeq DEF Ids
  <1>3. QED
    BY <1>1, <1>2 DEF Ids, Execution

(* A replacement keeps every table well typed. *)
LEMMA ReplacementType ==
    ASSUME TypeOK, NEW e \in Ids, executions[e].attempt < MaxAttempts,
           NEW st \in FailureStatus,
           EnqueueReplacement(e, Finished(e, st, "none"))
    PROVE  TypeOK'
  <1>1. executions[e].mon \in Monitors /\ Len(executions) \in Nat
    BY ExecutionRow
  <1>2. executions' \in Seq(Execution)
    BY ReplacementRow, FinishedRow, AppendedSeq DEF EnqueueReplacement, TypeOK, FailureStatus
  <1>3. [state |-> "queued", execution |-> NextId, candidate |-> 0] \in RepairAttempt
    BY <1>1 DEF RepairAttempt, NextId
  <1>4. repairs' \in [Monitors -> [Generations -> RepairAttempt]]
    BY <1>1, <1>3, SetRepairType DEF EnqueueReplacement, HandOver, TypeOK
  <1>5. QED
    BY <1>2, <1>4 DEF EnqueueReplacement, TypeOK

(* Giving a repair up keeps the other tables well typed. *)
LEMMA GiveUpType ==
    ASSUME TypeOK, NEW e \in Ids, RepairGivesUp(e), executions' \in Seq(Execution)
    PROVE  TypeOK'
  <1>1. executions[e].mon \in Monitors /\ Len(executions) \in Nat
    BY ExecutionRow
  <1>2. monitors' \in [Monitors -> Monitor]
    BY <1>1, MonitorRows, SetMonitorRow DEF RepairGivesUp, Status
  <1>3. [state |-> "failed", execution |-> e, candidate |-> 0] \in RepairAttempt
    BY <1>1 DEF RepairAttempt, Ids
  <1>4. repairs' \in [Monitors -> [Generations -> RepairAttempt]]
    BY <1>1, <1>3, SetRepairType DEF RepairGivesUp
  <1>5. QED
    BY <1>2, <1>4, ClaimsType DEF RepairGivesUp, TypeOK

(* Claiming, reporting and sweeping an execution keep every table well typed. *)
LEMMA ExecutionType ==
    ASSUME TypeOK, NEW e \in Ids, ExecutionStep(e)
    PROVE  TypeOK'
  <1> DEFINE m == executions[e].mon
  <1>0. /\ executions \in Seq(Execution) /\ executions[e] \in Execution
        /\ m \in Monitors /\ Len(executions) \in Nat /\ e \in Nat
        /\ executions[e].rev \in {0} \cup Generations
        /\ monitors[m] \in Monitor /\ monitors[m].rev \in {0} \cup Generations
        /\ revisions[m] \in Seq(RevisionState) /\ Len(revisions[m]) \in Nat
    <2>1. executions[e] \in Execution /\ m \in Monitors
      BY ExecutionRow
    <2>2. monitors[m] \in Monitor /\ revisions[m] \in Seq(RevisionState)
      BY <2>1 DEF TypeOK
    <2>3. monitors[m].rev \in {0} \cup Generations
      BY <2>2 DEF Monitor
    <2>4. QED
      BY <2>1, <2>2, <2>3, ExecutionRow
  <1> HIDE DEF m
  <1>1. CASE GetExecutionInput(e)
    <2> DEFINE x == [executions[e] EXCEPT !.state = "running"]
               f(g) == IF /\ executions[e].kind = "repair"
                          /\ repairs[m][g].execution = e
                          /\ repairs[m][g].state = "queued"
                       THEN [repairs[m][g] EXCEPT !.state = "running"]
                       ELSE repairs[m][g]
    <2>1. executions' = [executions EXCEPT ![e] = x]
      BY <1>1 DEF GetExecutionInput
    <2>2. x \in Execution
      BY <1>0 DEF Execution
    <2>3. \A g \in Generations : repairs[m][g] \in RepairAttempt
      BY <1>0 DEF TypeOK
    <2>4. \A g \in Generations : f(g) \in RepairAttempt
      BY <2>3 DEF RepairAttempt
    <2>5. repairs' = [repairs EXCEPT ![m] = [g \in Generations |-> f(g)]]
      BY <1>1 DEF GetExecutionInput, m
    <2> HIDE DEF x, f
    <2>6. executions' \in Seq(Execution)
      BY <1>0, <2>1, <2>2, UpdatedSeq DEF Ids
    <2>7. repairs' \in [Monitors -> [Generations -> RepairAttempt]]
      BY <1>0, <2>4, <2>5 DEF TypeOK
    <2>8. QED
      BY <1>1, <2>6, <2>7 DEF GetExecutionInput, TypeOK
  <1>2. CASE CompileSucceeded(e)
    <2>1. executions' \in Seq(Execution)
      BY <1>0, <1>2, FinishedRow DEF CompileSucceeded
    <2>2. monitors' \in [Monitors -> Monitor]
      BY <1>0, <1>2, MonitorRows, SetMonitorRow DEF CompileSucceeded, Status, m
    <2>3. Append(revisions[m], "awaiting_confirmation") \in Seq(RevisionState)
      BY <1>0, AppendedSeq DEF RevisionState
    <2>4. revisions' \in [Monitors -> Seq(RevisionState)]
      BY <1>2, <2>3 DEF CompileSucceeded, TypeOK, m
    <2>5. QED
      BY <1>2, <2>1, <2>2, <2>4 DEF CompileSucceeded, TypeOK
  <1>3. ASSUME NEW auto \in AutoPromote, RepairSucceeded(e, auto) PROVE TypeOK'
    <2> DEFINE g == Len(revisions[m]) + 1
               p == Promotes(e, auto)
    <2>1. executions' \in Seq(Execution)
      BY <1>0, <1>3, FinishedRow DEF RepairSucceeded
    <2>2. g \in Generations
      BY <1>0, <1>3, BoundsAssumption DEF RepairSucceeded, Generations, m
    <2>3. monitors' \in [Monitors -> Monitor]
      BY <1>0, <1>3, <2>2, MonitorRows, SetMonitorRow DEF RepairSucceeded, Status, m
    <2>4. Append(revisions[m], IF p THEN "active" ELSE "candidate") \in Seq(RevisionState)
      BY <1>0, AppendedSeq DEF RevisionState
    <2>5. revisions' \in [Monitors -> Seq(RevisionState)]
      BY <1>3, <2>4 DEF RepairSucceeded, TypeOK, m
    <2>6. [state |-> IF p THEN "activated" ELSE "candidate",
           execution |-> e, candidate |-> g] \in RepairAttempt
      BY <1>0, <2>2 DEF RepairAttempt
    <2>7. repairs' \in [Monitors -> [Generations -> RepairAttempt]]
      BY <1>0, <1>3, <2>6, SetRepairType DEF RepairSucceeded, m
    <2>8. QED
      BY <1>3, <2>1, <2>3, <2>5, <2>7, ClaimsType DEF RepairSucceeded, TypeOK
  <1>4. ASSUME NEW obs \in {"none", "miss", "hit"}, OrdinaryCheckSucceeded(e, obs)
        PROVE  TypeOK'
    <2>1. Finished(e, "succeeded", obs) \in Seq(Execution)
      BY <1>0, FinishedRow
    <2>2. executions' \in Seq(Execution)
      BY <1>0, <1>4, <2>1, NewRow, AppendedSeq DEF OrdinaryCheckSucceeded, m
    <2>3. monitors' \in [Monitors -> Monitor]
      BY <1>0, <1>4, MonitorRows, SetMonitorRow DEF OrdinaryCheckSucceeded, m
    <2>4. QED
      BY <1>4, <2>2, <2>3 DEF OrdinaryCheckSucceeded, TypeOK
  <1>5. ASSUME NEW obs \in {"none", "miss", "hit"}, ConfirmationSucceeded(e, obs)
        PROVE  TypeOK'
    <2>1. executions' \in Seq(Execution)
      BY <1>0, <1>5, FinishedRow DEF ConfirmationSucceeded
    <2>2. monitors' \in [Monitors -> Monitor]
      BY <1>0, <1>5, MonitorRows, SetMonitorRow DEF ConfirmationSucceeded, m
    <2>3. QED
      BY <1>0, <1>5, <2>1, <2>2 DEF ConfirmationSucceeded, TypeOK
  <1>6. ASSUME NEW st \in FailureStatus, StaleCheckOpensRepair(e, st) PROVE TypeOK'
    <2>1. executions' \in Seq(Execution)
      <3>1. Finished(e, st, "none") \in Seq(Execution)
        BY <1>0, FinishedRow DEF FailureStatus
      <3>2. NewExecution(m, "repair", executions[e].rev, 1, 0, 0) \in Execution
        BY <1>0, NewRow
      <3>3. QED
        BY <1>6, <3>1, <3>2, AppendedSeq DEF StaleCheckOpensRepair, m
    <2>2. monitors' \in [Monitors -> Monitor]
      BY <1>0, <1>6, MonitorRows, SetMonitorRow DEF StaleCheckOpensRepair, Status, m
    <2>3. [state |-> "queued", execution |-> NextId, candidate |-> 0] \in RepairAttempt
      BY <1>0 DEF RepairAttempt, NextId
    <2>4. repairs' \in [Monitors -> [Generations -> RepairAttempt]]
      BY <1>0, <1>6, <2>3 DEF StaleCheckOpensRepair, TypeOK, m
    <2>5. QED
      BY <1>6, <2>1, <2>2, <2>4, ClaimsType DEF StaleCheckOpensRepair, TypeOK
  <1>7. ASSUME NEW st \in FailureStatus, StaleCheckRecorded(e, st) PROVE TypeOK'
    BY <1>0, <1>7, FinishedRow DEF StaleCheckRecorded, FailureStatus, TypeOK
  <1>8. ASSUME NEW st \in FailureStatus, NEW class \in FailureClass,
               FailureRetried(e, st, class)
        PROVE  TypeOK'
    BY <1>8, ReplacementType DEF FailureRetried, ShouldRetry
  <1>9. ASSUME NEW st \in FailureStatus, NEW class \in FailureClass,
               CompileFailed(e, st, class)
        PROVE  TypeOK'
    <2>1. executions' \in Seq(Execution)
      BY <1>0, <1>9, FinishedRow DEF CompileFailed, FailureStatus
    <2>2. monitors' \in [Monitors -> Monitor]
      BY <1>0, <1>9, MonitorRows, SetMonitorRow DEF CompileFailed, Status, m
    <2>3. QED
      BY <1>9, <2>1, <2>2 DEF CompileFailed, TypeOK
  <1>10. ASSUME NEW st \in FailureStatus, NEW class \in FailureClass,
                RepairFailed(e, st, class)
         PROVE  TypeOK'
    BY <1>0, <1>10, FinishedRow, GiveUpType DEF RepairFailed, FailureStatus
  <1>11. ASSUME NEW st \in FailureStatus, NEW class \in FailureClass,
                CheckFailed(e, st, class)
         PROVE  TypeOK'
    <2>1. executions' \in Seq(Execution)
      BY <1>0, <1>11, FinishedRow DEF CheckFailed, FailureStatus
    <2>2. monitors' \in [Monitors -> Monitor]
      BY <1>0, <1>11, MonitorRows, SetMonitorRow DEF CheckFailed, Status, m
    <2>3. QED
      BY <1>11, <2>1, <2>2, ClaimsType DEF CheckFailed, TypeOK
  <1>12. CASE SweepRequeues(e)
    BY <1>12, ReplacementType DEF SweepRequeues, FailureStatus
  <1>13. CASE SweepTerminates(e)
    <2>1. executions' \in Seq(Execution)
      BY <1>0, <1>13, FinishedRow DEF SweepTerminates
    <2>2. CASE executions[e].kind = "compile"
      <3>1. monitors' \in [Monitors -> Monitor]
        BY <1>0, <1>13, <2>2, MonitorRows, SetMonitorRow DEF SweepTerminates, Status, m
      <3>2. QED
        BY <1>13, <2>1, <2>2, <3>1 DEF SweepTerminates, TypeOK
    <2>3. CASE executions[e].kind = "repair"
      BY <1>13, <2>1, <2>3, GiveUpType DEF SweepTerminates
    <2>4. CASE executions[e].kind = "check"
      BY <1>13, <2>1, <2>4 DEF SweepTerminates, TypeOK
    <2>5. QED
      BY <1>13, <2>2, <2>3, <2>4 DEF SweepTerminates
  <1>14. QED
    BY <1>1, <1>2, <1>3, <1>4, <1>5, <1>6, <1>7, <1>8, <1>9, <1>10, <1>11, <1>12, <1>13
    DEF ExecutionStep, ApplyResult, ApplyFailure

LEMMA TypeNext == TypeOK /\ [Next]_vars => TypeOK'
  <1> SUFFICES ASSUME TypeOK, [Next]_vars PROVE TypeOK'
    OBVIOUS
  <1>1. CASE UNCHANGED vars
    BY <1>1 DEF vars, TypeOK
  <1>2. QED
    BY <1>1, OperatorType, SchedulerType, ExecutionType DEF Next

(* Type correctness: no transaction of the store writes an ill-typed row. *)
THEOREM TypeCorrect == Spec => []TypeOK
  BY TypeInit, TypeNext, PTL DEF Spec

-------------------------------------------------------------------------------
(* Repairs and promotion. *)

(* A live repair works on the newest generation, which is current. *)
LEMMA LiveRepairIsNewest ==
    ASSUME RepairInv, NEW e \in Ids, executions[e].kind = "repair", Live(e)
    PROVE  LET m == executions[e].mon
               g == executions[e].rev
           IN  /\ m \in Monitors /\ g \in Generations
               /\ g = Len(revisions[m]) /\ g = monitors[m].rev
               /\ repairs[m][g].execution = e
               /\ repairs[m][g].state = executions[e].state
               /\ \A h \in Generations : repairs[m][h].execution = e => h = g
  <1> DEFINE m == executions[e].mon
             g == executions[e].rev
  <1>1. /\ m \in Monitors /\ g \in {0} \cup Generations /\ e # 0
        /\ monitors[m].rev \in {0} \cup Generations /\ Len(revisions[m]) \in Nat
    <2>1. TypeOK /\ m \in Monitors
      BY ExecutionRow DEF RepairInv
    <2>2. monitors[m] \in Monitor /\ revisions[m] \in Seq(RevisionState)
      BY <2>1 DEF TypeOK
    <2>3. QED
      BY <2>1, <2>2, ExecutionRow DEF Monitor
  <1>2. g \in 1..monitors[m].rev /\ monitors[m].rev <= Len(revisions[m])
    BY <1>1 DEF RepairInv, ExecutionsRunKnownPlans, CurrentExists
  <1>3. g \in Generations
    BY <1>1, <1>2, BoundsAssumption DEF Generations
  <1>4. repairs[m][g].execution = e
    BY DEF RepairInv, LiveRepairHoldsRow
  <1>5. /\ repairs[m][g].state = executions[e].state
        /\ g < Len(revisions[m]) => repairs[m][g].state \in RepairDone
    BY <1>1, <1>3, <1>4 DEF RepairInv, RepairRows, RepairRowOK
  <1>6. ~(g < Len(revisions[m]))
    BY <1>5 DEF Live, LiveStates, RepairDone
  <1>7. \A h \in Generations : repairs[m][h].execution = e => h = g
    BY <1>1 DEF RepairInv, RepairRows, RepairRowOK
  <1>8. QED
    BY <1>1, <1>2, <1>3, <1>4, <1>5, <1>6, <1>7, BoundsAssumption DEF Generations

(* No monitor changes its current generation or is created. *)
QuietMonitors ==
    \A n \in Monitors :
        /\ monitors'[n].rev = monitors[n].rev
        /\ monitors'[n].status = "absent" <=> monitors[n].status = "absent"

(* Steps that finish compilations and checks or insert checks of current or *)
(* past generations, and leave revisions and repair attempts alone.         *)
CheckStep ==
    /\ QuietMonitors
    /\ UNCHANGED <<revisions, repairs>>
    /\ Len(executions') >= Len(executions)
    /\ \A i \in Ids :
          /\ executions'[i].mon = executions[i].mon
          /\ executions'[i].kind = executions[i].kind
          /\ executions'[i].rev = executions[i].rev
          /\ executions'[i].kind = "repair" => executions'[i].state = executions[i].state
          /\ executions'[i].state \in LiveStates => executions[i].state \in LiveStates
    /\ \A i \in 1..Len(executions') : i \notin Ids =>
          /\ executions'[i].kind = "check"
          /\ monitors[executions'[i].mon].status # "absent"
          /\ executions'[i].rev \in 1..monitors[executions'[i].mon].rev

LEMMA CheckStepKeepsInv ==
    ASSUME RepairInv, TypeOK', CheckStep
    PROVE  RepairInv'
  <1>1. /\ Len(executions) \in Nat /\ Len(executions') \in Nat
        /\ \A i \in 1..Len(executions) : executions[i].mon \in Monitors
        /\ \A i \in 1..Len(executions') : executions'[i].mon \in Monitors
    <2>1. \A x \in Execution : x.mon \in Monitors
      BY DEF Execution
    <2>2. QED
      BY <2>1, ElementOfSeq DEF RepairInv, TypeOK
  <1>2. CurrentExists'
    BY DEF RepairInv, CurrentExists, CheckStep, QuietMonitors
  <1>3. ExecutionsRunKnownPlans'
    BY <1>1 DEF RepairInv, ExecutionsRunKnownPlans, CheckStep, QuietMonitors, Ids
  <1>4. PendingIsNewest'
    BY DEF RepairInv, PendingIsNewest, Reviewable, CheckStep, QuietMonitors
  <1>5. RepairRows'
    BY <1>1 DEF RepairInv, RepairRows, RepairRowOK, CheckStep, Ids, Live
  <1>6. LiveRepairHoldsRow'
    BY <1>1 DEF RepairInv, LiveRepairHoldsRow, CheckStep, Ids, Live
  <1>7. OneLiveCompile'
    BY <1>1 DEF RepairInv, OneLiveCompile, CheckStep, Ids, Live
  <1>8. QED
    BY <1>2, <1>3, <1>4, <1>5, <1>6, <1>7 DEF RepairInv

(* A monitor row that keeps its generation and is not absent is quiet. *)
LEMMA QuietRow ==
    ASSUME TypeOK, NEW m \in Monitors, NEW row \in Monitor, SetMonitor(m, row),
           row.rev = monitors[m].rev, row.status # "absent", monitors[m].status # "absent"
    PROVE  QuietMonitors
  BY SetMonitorRow DEF QuietMonitors

(* What finishing an execution that is not a repair leaves as it was. *)
LEMMA FinishedKeepsWork ==
    ASSUME executions \in Seq(Execution), NEW e \in Ids, executions[e].kind # "repair",
           NEW st \in {"succeeded", "failed", "blocked", "needs_review"},
           NEW obs \in {"none", "miss", "hit"}, NEW i \in Ids
    PROVE  LET x == Finished(e, st, obs)[i] IN
           /\ x.mon = executions[i].mon
           /\ x.kind = executions[i].kind
           /\ x.rev = executions[i].rev
           /\ x.kind = "repair" => x.state = executions[i].state
           /\ x.state \in LiveStates => executions[i].state \in LiveStates
  <1>1. CASE i = e
    BY <1>1, FinishedRow DEF LiveStates
  <1>2. CASE i # e
    BY <1>2, FinishedRow
  <1>3. QED
    BY <1>1, <1>2

(* Executions that finish without a repair, possibly followed by a new check. *)
LEMMA FinishIsCheckStep ==
    ASSUME RepairInv, NEW e \in Ids, executions[e].kind # "repair",
           NEW st \in {"succeeded", "failed", "blocked", "needs_review"},
           NEW obs \in {"none", "miss", "hit"},
           executions' = Finished(e, st, obs),
           QuietMonitors, UNCHANGED <<revisions, repairs>>
    PROVE  CheckStep
  <1>1. executions \in Seq(Execution)
    BY DEF RepairInv, TypeOK
  <1>2. Len(executions') = Len(executions) /\ Len(executions) \in Nat
    BY <1>1, FinishedRow
  <1>3. \A i \in Ids :
          /\ executions'[i].mon = executions[i].mon
          /\ executions'[i].kind = executions[i].kind
          /\ executions'[i].rev = executions[i].rev
          /\ executions'[i].kind = "repair" => executions'[i].state = executions[i].state
          /\ executions'[i].state \in LiveStates => executions[i].state \in LiveStates
    BY <1>1, FinishedKeepsWork
  <1>4. QED
    BY <1>2, <1>3 DEF CheckStep, Ids

LEMMA InsertIsCheckStep ==
    ASSUME RepairInv, NEW m \in Monitors, NEW t \in Nat,
           NEW r \in {0} \cup Generations, NEW ex \in Seq(Execution),
           Len(ex) = Len(executions),
           \A i \in Ids : /\ ex[i].mon = executions[i].mon
                          /\ ex[i].kind = executions[i].kind
                          /\ ex[i].rev = executions[i].rev
                          /\ ex[i].kind = "repair" => ex[i].state = executions[i].state
                          /\ ex[i].state \in LiveStates => executions[i].state \in LiveStates,
           executions' = Append(ex, NewExecution(m, "check", r, 1, t, 0)),
           monitors[m].status # "absent", r \in 1..monitors[m].rev,
           QuietMonitors, UNCHANGED <<revisions, repairs>>
    PROVE  CheckStep
  <1> DEFINE x == NewExecution(m, "check", r, 1, t, 0)
  <1>1. x \in Execution
    BY NewRow
  <1>2. x.kind = "check" /\ x.mon = m /\ x.rev = r
    BY DEF NewExecution
  <1> HIDE DEF x
  <1>3. /\ Len(executions') = Len(executions) + 1
        /\ \A j \in Ids : executions'[j] = ex[j]
        /\ executions'[Len(executions) + 1] = x
    BY <1>1, AppendedSeq DEF Ids, x
  <1>4. Len(executions) \in Nat
    BY DEF RepairInv, TypeOK
  <1>5. QED
    BY <1>2, <1>3, <1>4 DEF CheckStep, Ids

(* A monitor that has a row or an execution exists. *)
LEMMA MonitorKnown ==
    ASSUME RepairInv, NEW m \in Monitors
    PROVE  /\ monitors[m].rev \in {0} \cup Generations
           /\ monitors[m].status \in Status
           /\ Len(revisions[m]) \in Nat
           /\ monitors[m].rev # 0 => monitors[m].status # "absent"
           /\ \A g \in DOMAIN revisions[m] : monitors[m].status # "absent"
  <1>1. monitors[m] \in Monitor /\ revisions[m] \in Seq(RevisionState)
    BY DEF RepairInv, TypeOK
  <1>2. monitors[m].rev \in {0} \cup Generations /\ monitors[m].status \in Status
    BY <1>1 DEF Monitor, Status
  <1>3. Len(revisions[m]) \in Nat /\ DOMAIN revisions[m] = 1..Len(revisions[m])
    BY <1>1, LenProperties
  <1>4. /\ monitors[m].rev <= Len(revisions[m])
        /\ monitors[m].status = "absent" => Len(revisions[m]) = 0
    BY DEF RepairInv, CurrentExists
  <1>5. monitors[m].rev \in Nat
    BY <1>2, BoundsAssumption DEF Generations
  <1>6. QED
    BY <1>2, <1>3, <1>4, <1>5

(* Requests and claims that touch no plan. *)
LEMMA ScheduleIsCheckStep ==
    ASSUME RepairInv, NEW m \in Monitors,
           \/ Pause(m) \/ Resume(m) \/ EnqueueCheck(m) \/ SchedulerStep(m)
    PROVE  CheckStep
  <1>0. /\ TypeOK /\ executions \in Seq(Execution) /\ Len(executions) \in Nat
        /\ monitors[m].rev \in {0} \cup Generations /\ monitors[m].status \in Status
        /\ monitors[m].rev # 0 => monitors[m].status # "absent"
    BY MonitorKnown DEF RepairInv, TypeOK
  <1>1. CASE Pause(m) \/ Resume(m)
    <2>1. QuietMonitors
      BY <1>0, <1>1, MonitorRows, QuietRow DEF Pause, Resume, Status
    <2>2. QED
      BY <1>0, <1>1, <2>1 DEF Pause, Resume, CheckStep, Ids
  <1>2. CASE NextRunArrives(m)
    <2>1. QuietMonitors
      BY <1>0, <1>2, MonitorRows, SetMonitorRow DEF NextRunArrives, QuietMonitors
    <2>2. QED
      BY <1>0, <1>2, <2>1 DEF NextRunArrives, CheckStep, Ids
  <1>3. CASE SnapshotDue(m) \/ SkipDue(m)
    BY <1>0, <1>3 DEF SnapshotDue, SkipDue, CheckStep, QuietMonitors, Ids
  <1>4. CASE EnqueueCheck(m)
    <2>1. QuietMonitors
      BY <1>4 DEF EnqueueCheck, QuietMonitors
    <2>2. monitors[m].rev \in 1..monitors[m].rev
      BY <1>0, <1>4, BoundsAssumption DEF EnqueueCheck, Checkable, Generations
    <2>3. QED
      BY <1>0, <1>4, <2>1, <2>2, InsertIsCheckStep
      DEF EnqueueCheck, Checkable, InsertCheck
  <1>5. CASE ClaimDue(m)
    <2>1. QuietMonitors
      BY <1>0, <1>5, MonitorRows, QuietRow DEF ClaimDue, Checkable
    <2>2. monitors[m].rev \in 1..monitors[m].rev
      BY <1>0, <1>5, BoundsAssumption DEF ClaimDue, Checkable, Generations
    <2>3. QED
      BY <1>0, <1>5, <2>1, <2>2, InsertIsCheckStep DEF ClaimDue, Checkable, InsertCheck
  <1>6. QED
    BY <1>1, <1>2, <1>3, <1>4, <1>5 DEF SchedulerStep

(* Results and sweeps of compilations and checks that produce no plan. *)
LEMMA ResultIsCheckStep ==
    ASSUME RepairInv, NEW e \in Ids,
           \/ \E obs \in {"none", "miss", "hit"} :
                 OrdinaryCheckSucceeded(e, obs) \/ ConfirmationSucceeded(e, obs)
           \/ \E st \in FailureStatus :
                 \/ StaleCheckRecorded(e, st)
                 \/ \E class \in FailureClass :
                       CompileFailed(e, st, class) \/ CheckFailed(e, st, class)
           \/ SweepTerminates(e) /\ executions[e].kind # "repair"
    PROVE  CheckStep
  <1> DEFINE m == executions[e].mon
  <1>0. /\ TypeOK /\ executions \in Seq(Execution) /\ Len(executions) \in Nat
        /\ m \in Monitors /\ monitors[m] \in Monitor
        /\ monitors[m].status # "absent" /\ e \in Nat
        /\ executions[e].rev \in {0} \cup Generations
        /\ executions[e].kind # "compile" => executions[e].rev \in 1..monitors[m].rev
    BY ExecutionRow, MonitorRows DEF RepairInv, ExecutionsRunKnownPlans
  <1> HIDE DEF m
  <1>1. ASSUME NEW obs \in {"none", "miss", "hit"}, OrdinaryCheckSucceeded(e, obs)
        PROVE  CheckStep
    <2>1. QuietMonitors
      <3>1. CASE obs = "miss"
        <4>1. SetMonitor(m, WithMatched(m, FALSE))
          BY <1>1, <3>1 DEF OrdinaryCheckSucceeded, m
        <4>2. /\ WithMatched(m, FALSE) \in Monitor
              /\ WithMatched(m, FALSE).rev = monitors[m].rev
              /\ WithMatched(m, FALSE).status = monitors[m].status
          BY <1>0, MonitorRows
        <4>3. QED
          BY <1>0, <4>1, <4>2, QuietRow
      <3>2. CASE obs # "miss"
        BY <1>0, <1>1, <3>2, QuietRow DEF OrdinaryCheckSucceeded, m
      <3>3. QED
        BY <3>1, <3>2
    <2>2. CASE executions' = Finished(e, "succeeded", obs)
      BY <1>1, <2>1, <2>2, FinishIsCheckStep DEF OrdinaryCheckSucceeded
    <2>3. CASE executions' = Append(Finished(e, "succeeded", obs),
                                    NewExecution(m, "check", executions[e].rev, 1, e, 0))
      <3> DEFINE ex == Finished(e, "succeeded", obs)
      <3>1. executions[e].kind = "check" /\ UNCHANGED <<revisions, repairs>>
        BY <1>1 DEF OrdinaryCheckSucceeded
      <3>a. "succeeded" \in {"succeeded", "failed", "blocked", "needs_review"}
        OBVIOUS
      <3>2. /\ ex \in Seq(Execution) /\ Len(ex) = Len(executions)
            /\ \A i \in Ids : /\ ex[i].mon = executions[i].mon
                              /\ ex[i].kind = executions[i].kind
                              /\ ex[i].rev = executions[i].rev
                              /\ ex[i].kind = "repair" => ex[i].state = executions[i].state
                              /\ ex[i].state \in LiveStates => executions[i].state \in LiveStates
        <4>0. executions \in Seq(Execution) /\ executions[e].kind # "repair"
          BY <1>0, <3>1
        <4>1. ex \in Seq(Execution) /\ Len(ex) = Len(executions)
          BY <4>0, <3>a, FinishedRow
        <4>2. ASSUME NEW i \in Ids
              PROVE  /\ ex[i].mon = executions[i].mon
                     /\ ex[i].kind = executions[i].kind
                     /\ ex[i].rev = executions[i].rev
                     /\ ex[i].kind = "repair" => ex[i].state = executions[i].state
                     /\ ex[i].state \in LiveStates => executions[i].state \in LiveStates
          BY <4>0, <3>a, FinishedKeepsWork
        <4>3. QED
          BY <4>1, <4>2
      <3> HIDE DEF ex
      <3>3. executions' = Append(ex, NewExecution(m, "check", executions[e].rev, 1, e, 0))
        BY <2>3 DEF ex
      <3>4. QED
        BY <1>0, <2>1, <3>1, <3>2, <3>3, InsertIsCheckStep
    <2>4. QED
      BY <1>1, <2>2, <2>3 DEF OrdinaryCheckSucceeded, m
  <1>2. ASSUME NEW obs \in {"none", "miss", "hit"}, ConfirmationSucceeded(e, obs)
        PROVE  CheckStep
    <2>1. QuietMonitors
      <3>1. CASE obs = "none"
        BY <1>0, <1>2, <3>1, QuietRow DEF ConfirmationSucceeded, m
      <3>2. CASE obs # "none"
        <4> DEFINE row == WithMatched(m, obs = "hit")
        <4>1. SetMonitor(m, row)
          BY <1>2, <3>2 DEF ConfirmationSucceeded, m
        <4>2. (obs = "hit") \in BOOLEAN
          OBVIOUS
        <4>3. /\ row \in Monitor
              /\ row.rev = monitors[m].rev
              /\ row.status = monitors[m].status
          BY <1>0, <4>2, MonitorRows
        <4> HIDE DEF row
        <4>4. QED
          BY <1>0, <4>1, <4>3, QuietRow
      <3>3. QED
        BY <3>1, <3>2
    <2>2. QED
      BY <1>2, <2>1, FinishIsCheckStep DEF ConfirmationSucceeded
  <1>3. ASSUME NEW st \in FailureStatus, StaleCheckRecorded(e, st) PROVE CheckStep
    <2>1. QuietMonitors
      BY <1>3 DEF StaleCheckRecorded, QuietMonitors
    <2>2. QED
      BY <1>3, <2>1, FinishIsCheckStep DEF StaleCheckRecorded, FailureStatus
  <1>4. ASSUME NEW st \in FailureStatus, NEW class \in FailureClass,
               CompileFailed(e, st, class)
        PROVE  CheckStep
    <2>1. QuietMonitors
      BY <1>0, <1>4, MonitorRows, QuietRow DEF CompileFailed, Status, m
    <2>2. QED
      BY <1>4, <2>1, FinishIsCheckStep DEF CompileFailed, FailureStatus
  <1>5. ASSUME NEW st \in FailureStatus, NEW class \in FailureClass,
               CheckFailed(e, st, class)
        PROVE  CheckStep
    <2>1. QuietMonitors
      BY <1>0, <1>5, MonitorRows, QuietRow DEF CheckFailed, Status, m
    <2>2. QED
      BY <1>5, <2>1, FinishIsCheckStep DEF CheckFailed, FailureStatus
  <1>6. CASE SweepTerminates(e) /\ executions[e].kind # "repair"
    <2>1. CASE executions[e].kind = "compile"
      <3>1. QuietMonitors
        BY <1>0, <1>6, <2>1, MonitorRows, QuietRow DEF SweepTerminates, Status, m
      <3>2. QED
        BY <1>6, <2>1, <3>1, FinishIsCheckStep DEF SweepTerminates
    <2>2. CASE executions[e].kind = "check"
      <3>1. QuietMonitors
        BY <1>6, <2>2 DEF SweepTerminates, QuietMonitors
      <3>2. QED
        BY <1>6, <2>2, <3>1, FinishIsCheckStep DEF SweepTerminates
    <2>3. QED
      BY <1>6, <2>1, <2>2 DEF SweepTerminates
  <1>7. QED
    BY <1>1, <1>2, <1>3, <1>4, <1>5, <1>6

(* A new monitor starts with one compilation and nothing else. *)
LEMMA CreateKeepsInv ==
    ASSUME RepairInv, TypeOK', NEW m \in Monitors, CreateMonitor(m)
    PROVE  RepairInv'
  <1> DEFINE x == NewExecution(m, "compile", 0, 1, 0, 0)
  <1>0. /\ TypeOK /\ executions \in Seq(Execution) /\ Len(executions) \in Nat
        /\ \A i \in Ids : executions[i].mon \in Monitors
    BY ExecutionRow DEF RepairInv, TypeOK
  <1>1. /\ monitors'[m].rev = monitors[m].rev /\ monitors'[m].status = "compiling"
        /\ \A n \in Monitors : n # m => monitors'[n] = monitors[n]
    BY <1>0, MonitorRows, SetMonitorRow DEF CreateMonitor, Status
  <1>2. /\ monitors[m].status = "absent" /\ UNCHANGED <<revisions, repairs>>
        /\ executions' = Append(executions, x)
    BY DEF CreateMonitor
  <1>3. x \in Execution /\ x.mon = m /\ x.kind = "compile" /\ x.state = "queued"
    BY NewRow DEF NewExecution
  <1> HIDE DEF x
  <1>4. /\ Len(executions') = Len(executions) + 1
        /\ \A j \in Ids : executions'[j] = executions[j]
        /\ executions'[Len(executions) + 1] = x
    BY <1>0, <1>2, <1>3, AppendedSeq DEF Ids
  <1>5. \A i \in Ids : executions[i].mon # m
    BY <1>2 DEF RepairInv, ExecutionsRunKnownPlans
  <1>6. Len(revisions[m]) = 0
    BY <1>2 DEF RepairInv, CurrentExists
  <1>7. CurrentExists'
    BY <1>1, <1>2 DEF RepairInv, CurrentExists
  <1>8. ExecutionsRunKnownPlans'
    BY <1>0, <1>1, <1>3, <1>4, <1>5 DEF RepairInv, ExecutionsRunKnownPlans, Ids
  <1>9. PendingIsNewest'
    BY <1>1, <1>2 DEF RepairInv, PendingIsNewest, Reviewable
  <1>10. RepairRows'
    BY <1>0, <1>2, <1>4 DEF RepairInv, RepairRows, RepairRowOK, Ids, Live
  <1>11. LiveRepairHoldsRow'
    BY <1>0, <1>2, <1>3, <1>4 DEF RepairInv, LiveRepairHoldsRow, Ids, Live
  <1>12. OneLiveCompile'
    BY <1>0, <1>2, <1>3, <1>4, <1>5, <1>6 DEF RepairInv, OneLiveCompile, Ids, Live
  <1>13. QED
    BY <1>7, <1>8, <1>9, <1>10, <1>11, <1>12 DEF RepairInv

(* Activating the pending generation g, by confirmation or by review. *)
LEMMA ActivationKeepsInv ==
    ASSUME RepairInv, TypeOK', NEW m \in Monitors, NEW g \in Generations, Reviewable(m, g),
           UNCHANGED executions, SetMonitor(m, Activated(m, g)),
           Len(revisions'[m]) = Len(revisions[m]),
           \A h \in 1..Len(revisions[m]) : h # g =>
               \/ revisions'[m][h] = revisions[m][h]
               \/ revisions'[m][h] = "rejected",
           revisions'[m][g] = "active",
           \A n \in Monitors : n # m => revisions'[n] = revisions[n],
           \A n \in Monitors, h \in Generations :
               \/ repairs'[n][h] = repairs[n][h]
               \/ /\ repairs[n][h].state \in RepairDone
                  /\ repairs'[n][h].state \in RepairDone
                  /\ repairs'[n][h].execution = repairs[n][h].execution
    PROVE  RepairInv'
  <1>0. /\ TypeOK /\ executions \in Seq(Execution) /\ Len(executions) \in Nat
        /\ \A i \in Ids : executions[i].mon \in Monitors
        /\ monitors[m].rev \in {0} \cup Generations
        /\ Len(revisions[m]) \in Nat
    BY ExecutionRow, MonitorKnown DEF RepairInv, TypeOK
  <1>1. /\ monitors'[m].rev = g /\ monitors'[m].status = "active"
        /\ \A n \in Monitors : n # m => monitors'[n] = monitors[n]
    BY <1>0, MonitorRows, SetMonitorRow
  <1>2. g \in 1..Len(revisions[m])
    BY <1>0, LenProperties DEF Reviewable, TypeOK
  <1>3. g = Len(revisions[m]) /\ g > monitors[m].rev
    BY <1>2 DEF RepairInv, PendingIsNewest
  <1>4. CurrentExists'
    <2>1. ASSUME NEW n \in Monitors
          PROVE  /\ monitors'[n].rev <= Len(revisions'[n])
                 /\ Len(revisions'[n]) <= MaxGenerations
                 /\ monitors'[n].status = "absent" => Len(revisions'[n]) = 0
      BY <1>0, <1>1, <1>3 DEF RepairInv, CurrentExists
    <2>2. QED
      BY <2>1 DEF CurrentExists
  <1>5. ExecutionsRunKnownPlans'
    <2>1. ASSUME NEW i \in Ids
          PROVE  /\ monitors'[executions[i].mon].status # "absent"
                 /\ executions[i].kind # "compile" =>
                       executions[i].rev \in 1..monitors'[executions[i].mon].rev
      BY <1>0, <1>1, <1>3, BoundsAssumption
      DEF RepairInv, ExecutionsRunKnownPlans, Generations
    <2>2. QED
      BY <2>1 DEF ExecutionsRunKnownPlans, Ids
  <1>6. PendingIsNewest'
    <2>1. \A h \in 1..Len(revisions[m]) :
             ~(revisions'[m][h] \in {"candidate", "awaiting_confirmation"})
      <3>1. \A h \in 1..Len(revisions[m]) : h # g => ~Reviewable(m, h)
        BY <1>3 DEF RepairInv, PendingIsNewest
      <3>2. DOMAIN revisions[m] = 1..Len(revisions[m])
        BY <1>0, LenProperties DEF TypeOK
      <3>3. QED
        BY <3>1, <3>2 DEF Reviewable
    <2>2. QED
      BY <1>1, <2>1 DEF RepairInv, PendingIsNewest, Reviewable
  <1>7. RepairRows'
    <2>1. ASSUME NEW n \in Monitors, NEW h \in Generations
          PROVE  LET r == repairs'[n][h] IN
                 /\ r.state = "none" <=> r.execution = 0
                 /\ r.candidate # 0 => r.state \in RepairDone
                 /\ r.state # "none" =>
                      /\ r.execution \in Ids
                      /\ executions[r.execution].mon = n
                      /\ executions[r.execution].kind = "repair"
                      /\ executions[r.execution].rev = h
                      /\ IF Live(r.execution) THEN r.state = executions[r.execution].state
                         ELSE r.state \notin LiveStates
                 /\ h < Len(revisions'[n]) => r.state \in RepairDone
      <3>1. Len(revisions'[n]) = Len(revisions[n])
        OBVIOUS
      <3>2. CASE repairs'[n][h] = repairs[n][h]
        BY <3>1, <3>2 DEF RepairInv, RepairRows, RepairRowOK
      <3>3. CASE /\ repairs[n][h].state \in RepairDone
                 /\ repairs'[n][h].state \in RepairDone
                 /\ repairs'[n][h].execution = repairs[n][h].execution
        <4>1. /\ repairs[n][h].execution \in Ids
              /\ repairs[n][h].execution # 0
              /\ executions[repairs[n][h].execution].mon = n
              /\ executions[repairs[n][h].execution].kind = "repair"
              /\ executions[repairs[n][h].execution].rev = h
              /\ ~Live(repairs[n][h].execution)
          BY <3>3 DEF RepairInv, RepairRows, RepairRowOK, RepairDone, LiveStates, Live
        <4>2. QED
          BY <3>3, <4>1 DEF RepairDone, LiveStates
      <3>4. QED
        BY <3>2, <3>3
    <2>2. QED
      BY <2>1 DEF RepairRows, RepairRowOK, Ids, Live
  <1>8. LiveRepairHoldsRow'
    <2>1. ASSUME NEW i \in Ids, executions[i].kind = "repair", Live(i)
          PROVE  repairs'[executions[i].mon][executions[i].rev].execution = i
      BY <2>1, LiveRepairIsNewest
    <2>2. QED
      BY <2>1 DEF LiveRepairHoldsRow, Ids, Live
  <1>9. OneLiveCompile'
    BY <1>0, <1>2 DEF RepairInv, OneLiveCompile, Ids, Live
  <1>10. QED
    BY <1>4, <1>5, <1>6, <1>7, <1>8, <1>9 DEF RepairInv

LEMMA ConfirmKeepsInv ==
    ASSUME RepairInv, TypeOK', NEW m \in Monitors, NEW g \in Generations, ConfirmMonitor(m, g)
    PROVE  RepairInv'
  <1> DEFINE n == Len(revisions[m])
             s == [h \in 1..n |-> IF h = g THEN "active"
                                  ELSE IF Reviewable(m, h) THEN "rejected"
                                  ELSE revisions[m][h]]
  <1>1. revisions' = [revisions EXCEPT ![m] = s] /\ revisions'[m] \in Seq(RevisionState)
    BY DEF ConfirmMonitor, TypeOK
  <1>2. revisions \in [Monitors -> Seq(RevisionState)] /\ n \in Nat
    BY DEF RepairInv, TypeOK
  <1>3. /\ revisions'[m] = s
        /\ \A k \in Monitors : k # m => revisions'[k] = revisions[k]
    BY <1>1, <1>2
  <1>4. Len(revisions'[m]) = n
    <2>1. DOMAIN revisions'[m] = 1..n /\ DOMAIN revisions'[m] = 1..Len(revisions'[m])
      BY <1>1, <1>3, LenProperties
    <2>2. Len(revisions'[m]) \in Nat
      BY <1>1
    <2>3. QED
      BY <1>2, <2>1, <2>2
  <1>5. g \in 1..n
    BY <1>2, LenProperties DEF ConfirmMonitor, Reviewable
  <1>6. /\ revisions'[m][g] = "active"
        /\ \A h \in 1..n : h # g => \/ revisions'[m][h] = revisions[m][h]
                                    \/ revisions'[m][h] = "rejected"
    BY <1>3, <1>5
  <1>7. Reviewable(m, g) /\ SetMonitor(m, Activated(m, g)) /\ UNCHANGED <<executions, repairs>>
    BY DEF ConfirmMonitor
  <1>8. QED
    BY <1>3, <1>4, <1>6, <1>7, ActivationKeepsInv

(* What a review does to the revisions and to the repair attempts. *)
LEMMA ReviewRows ==
    ASSUME RepairInv, TypeOK', NEW m \in Monitors, NEW g \in Generations,
           NEW accept \in BOOLEAN, ReviewRevision(m, g, accept)
    PROVE  /\ g \in 1..Len(revisions[m])
           /\ Len(revisions'[m]) = Len(revisions[m])
           /\ revisions'[m][g] = IF accept THEN "active" ELSE "rejected"
           /\ \A h \in 1..Len(revisions[m]) : h # g => revisions'[m][h] = revisions[m][h]
           /\ \A k \in Monitors : k # m => revisions'[k] = revisions[k]
           /\ \A k \in Monitors, h \in Generations :
                 \/ repairs'[k][h] = repairs[k][h]
                 \/ /\ repairs[k][h].state \in RepairDone
                    /\ repairs'[k][h].state \in RepairDone
                    /\ repairs'[k][h].execution = repairs[k][h].execution
  <1> DEFINE v == IF accept THEN "active" ELSE "rejected"
             s == [revisions[m] EXCEPT ![g] = v]
  <1>1. /\ revisions \in [Monitors -> Seq(RevisionState)]
        /\ repairs \in [Monitors -> [Generations -> RepairAttempt]]
    BY DEF RepairInv, TypeOK
  <1>2. g \in 1..Len(revisions[m])
    BY <1>1, LenProperties DEF ReviewRevision, Reviewable
  <1>3. v \in RevisionState
    BY DEF RevisionState
  <1>4. revisions' = [revisions EXCEPT ![m] = s]
    BY <1>1 DEF ReviewRevision
  <1>5. /\ Len(s) = Len(revisions[m]) /\ s[g] = v
        /\ \A h \in 1..Len(revisions[m]) : h # g => s[h] = revisions[m][h]
    <2> HIDE DEF v
    <2>1. QED
      BY <1>1, <1>2, <1>3, UpdatedSeq
  <1>6. /\ revisions'[m] = s
        /\ \A k \in Monitors : k # m => revisions'[k] = revisions[k]
    BY <1>1, <1>4
  <1>7. ASSUME NEW k \in Monitors, NEW h \in Generations
        PROVE  \/ repairs'[k][h] = repairs[k][h]
               \/ /\ repairs[k][h].state \in RepairDone
                  /\ repairs'[k][h].state \in RepairDone
                  /\ repairs'[k][h].execution = repairs[k][h].execution
    <2>1. CASE k = m /\ repairs[m][h].candidate = g
      <3>1. repairs[m][h] \in RepairAttempt
        BY <1>1
      <3>2. repairs[m][h].state \in RepairDone
        <4>1. repairs[m][h].candidate # 0
          BY <2>1, BoundsAssumption DEF Generations
        <4>2. QED
          BY <4>1 DEF RepairInv, RepairRows, RepairRowOK
      <3>3. repairs'[m][h] = [repairs[m][h] EXCEPT !.state =
                                IF accept THEN "activated" ELSE "rejected"]
        BY <1>1, <2>1 DEF ReviewRevision
      <3>4. /\ repairs'[m][h].state = IF accept THEN "activated" ELSE "rejected"
            /\ repairs'[m][h].execution = repairs[m][h].execution
        BY <3>1, <3>3 DEF RepairAttempt
      <3>5. QED
        BY <2>1, <3>2, <3>4 DEF RepairDone
    <2>2. CASE ~(k = m /\ repairs[m][h].candidate = g)
      BY <1>1, <2>2 DEF ReviewRevision
    <2>3. QED
      BY <2>1, <2>2
  <1>8. QED
    BY <1>2, <1>5, <1>6, <1>7

LEMMA ReviewKeepsInv ==
    ASSUME RepairInv, TypeOK', NEW m \in Monitors, NEW g \in Generations,
           NEW accept \in BOOLEAN, ReviewRevision(m, g, accept)
    PROVE  RepairInv'
  <1>1. CASE accept
    <2>1. /\ Reviewable(m, g) /\ SetMonitor(m, Activated(m, g)) /\ UNCHANGED executions
      BY <1>1 DEF ReviewRevision
    <2>2. revisions'[m][g] = "active"
      BY <1>1, ReviewRows
    <2>3. QED
      BY <2>1, <2>2, ReviewRows, ActivationKeepsInv
  <1>2. CASE ~accept
    <2>0. /\ TypeOK /\ executions \in Seq(Execution) /\ Len(executions) \in Nat
          /\ \A i \in Ids : executions[i].mon \in Monitors
          /\ UNCHANGED executions
          /\ \A n \in Monitors : /\ Len(revisions[n]) \in Nat
                                 /\ DOMAIN revisions[n] = 1..Len(revisions[n])
                                 /\ DOMAIN revisions'[n] = 1..Len(revisions'[n])
      BY ExecutionRow, LenProperties DEF RepairInv, TypeOK, ReviewRevision
    <2>1. QuietMonitors
      <3>1. monitors[m].status # "absent"
        BY MonitorKnown, ReviewRows, <2>0
      <3> DEFINE st == IF monitors[m].rev = 0 THEN "blocked" ELSE "active"
      <3>2. SetMonitor(m, WithStatus(m, st)) /\ st \in Status /\ st # "absent"
        BY <1>2 DEF ReviewRevision, Status
      <3> HIDE DEF st
      <3>3. QED
        BY <2>0, <3>1, <3>2, MonitorRows, QuietRow
    <2>2. \A n \in Monitors : Len(revisions'[n]) = Len(revisions[n])
      BY ReviewRows
    <2>3. CurrentExists'
      BY <2>1, <2>2 DEF RepairInv, CurrentExists, QuietMonitors
    <2>4. ExecutionsRunKnownPlans'
      BY <2>0, <2>1 DEF RepairInv, ExecutionsRunKnownPlans, QuietMonitors, Ids
    <2>5. PendingIsNewest'
      <3>1. ASSUME NEW n \in Monitors, NEW h \in 1..Len(revisions[n]),
                   revisions'[n][h] \in {"candidate", "awaiting_confirmation"}
            PROVE  Reviewable(n, h)
        <4>1. revisions'[n][h] = revisions[n][h]
          BY <1>2, <3>1, ReviewRows
        <4>2. QED
          BY <2>0, <3>1, <4>1 DEF Reviewable
      <3>2. QED
        BY <2>0, <2>1, <2>2, <3>1 DEF RepairInv, PendingIsNewest, Reviewable, QuietMonitors
    <2>6. RepairRows'
      <3>1. ASSUME NEW n \in Monitors, NEW h \in Generations
            PROVE  LET r == repairs'[n][h] IN
                   /\ r.state = "none" <=> r.execution = 0
                   /\ r.candidate # 0 => r.state \in RepairDone
                   /\ r.state # "none" =>
                        /\ r.execution \in Ids
                        /\ executions[r.execution].mon = n
                        /\ executions[r.execution].kind = "repair"
                        /\ executions[r.execution].rev = h
                        /\ IF Live(r.execution) THEN r.state = executions[r.execution].state
                           ELSE r.state \notin LiveStates
                   /\ h < Len(revisions'[n]) => r.state \in RepairDone
        <4>1. CASE repairs'[n][h] = repairs[n][h]
          BY <2>2, <4>1 DEF RepairInv, RepairRows, RepairRowOK
        <4>2. CASE /\ repairs[n][h].state \in RepairDone
                   /\ repairs'[n][h].state \in RepairDone
                   /\ repairs'[n][h].execution = repairs[n][h].execution
          <5>1. /\ repairs[n][h].execution \in Ids
                /\ repairs[n][h].execution # 0
                /\ executions[repairs[n][h].execution].mon = n
                /\ executions[repairs[n][h].execution].kind = "repair"
                /\ executions[repairs[n][h].execution].rev = h
                /\ ~Live(repairs[n][h].execution)
            BY <4>2 DEF RepairInv, RepairRows, RepairRowOK, RepairDone, LiveStates, Live
          <5>2. QED
            BY <4>2, <5>1 DEF RepairDone, LiveStates
        <4>3. QED
          BY <4>1, <4>2, ReviewRows
      <3>2. QED
        BY <2>0, <3>1 DEF RepairRows, RepairRowOK, Ids, Live
    <2>7. LiveRepairHoldsRow'
      <3>1. ASSUME NEW i \in Ids, executions[i].kind = "repair", Live(i)
            PROVE  repairs'[executions[i].mon][executions[i].rev].execution = i
        BY <3>1, LiveRepairIsNewest, ReviewRows
      <3>2. QED
        BY <2>0, <3>1 DEF LiveRepairHoldsRow, Ids, Live
    <2>8. OneLiveCompile'
      BY <2>0, <2>2 DEF RepairInv, OneLiveCompile, Ids, Live
    <2>9. QED
      BY <2>3, <2>4, <2>5, <2>6, <2>7, <2>8 DEF RepairInv
  <1>3. QED
    BY <1>1, <1>2

(* Claiming an execution moves a repair and its attempt to running together. *)
LEMMA InputKeepsInv ==
    ASSUME RepairInv, TypeOK', NEW e \in Ids, GetExecutionInput(e)
    PROVE  RepairInv'
  <1> DEFINE m == executions[e].mon
             x == [executions[e] EXCEPT !.state = "running"]
  <1>0. /\ TypeOK /\ executions \in Seq(Execution) /\ Len(executions) \in Nat
        /\ \A i \in Ids : executions[i].mon \in Monitors
        /\ m \in Monitors /\ executions[e] \in Execution /\ e # 0
        /\ repairs \in [Monitors -> [Generations -> RepairAttempt]]
        /\ UNCHANGED <<monitors, revisions>>
    BY ExecutionRow DEF RepairInv, TypeOK, GetExecutionInput
  <1>1. /\ x \in Execution /\ x.state = "running" /\ x.mon = m
        /\ x.kind = executions[e].kind /\ x.rev = executions[e].rev
    BY <1>0 DEF Execution
  <1>2. executions' = [executions EXCEPT ![e] = x] /\ executions[e].state = "queued"
    BY DEF GetExecutionInput
  <1> HIDE DEF x
  <1>3. Len(executions') = Len(executions)
    BY <1>0, <1>1, <1>2, UpdatedSeq DEF Ids
  <1>4. \A i \in Ids : executions'[i] = IF i = e THEN x ELSE executions[i]
    BY <1>0, <1>1, <1>2, UpdatedSeq DEF Ids
  <1>5. \A i \in Ids : /\ executions'[i].mon = executions[i].mon
                       /\ executions'[i].kind = executions[i].kind
                       /\ executions'[i].rev = executions[i].rev
                       /\ executions'[i].state =
                            IF i = e THEN "running" ELSE executions[i].state
                       /\ executions'[i].state \in LiveStates <=> executions[i].state \in LiveStates
    BY <1>1, <1>2, <1>4 DEF LiveStates
  <1>6. ASSUME NEW n \in Monitors, NEW h \in Generations
        PROVE  /\ repairs'[n][h].execution = repairs[n][h].execution
               /\ repairs'[n][h].candidate = repairs[n][h].candidate
               /\ repairs'[n][h].state =
                     IF /\ n = m /\ executions[e].kind = "repair"
                        /\ repairs[n][h].execution = e /\ repairs[n][h].state = "queued"
                     THEN "running" ELSE repairs[n][h].state
    <2>1. repairs[n][h] \in RepairAttempt
      BY <1>0
    <2>2. repairs'[n][h] =
            IF n = m THEN IF /\ executions[e].kind = "repair"
                             /\ repairs[m][h].execution = e
                             /\ repairs[m][h].state = "queued"
                          THEN [repairs[m][h] EXCEPT !.state = "running"]
                          ELSE repairs[m][h]
            ELSE repairs[n][h]
      BY <1>0 DEF GetExecutionInput
    <2>3. QED
      BY <2>1, <2>2 DEF RepairAttempt
  <1>7. CurrentExists' /\ PendingIsNewest'
    BY <1>0 DEF RepairInv, CurrentExists, PendingIsNewest, Reviewable
  <1>8. ExecutionsRunKnownPlans'
    BY <1>0, <1>3, <1>5 DEF RepairInv, ExecutionsRunKnownPlans, Ids
  <1>9. RepairRows'
    <2>1. ASSUME NEW n \in Monitors, NEW h \in Generations
          PROVE  LET r == repairs'[n][h] IN
                 /\ r.state = "none" <=> r.execution = 0
                 /\ r.candidate # 0 => r.state \in RepairDone
                 /\ r.state # "none" =>
                      /\ r.execution \in Ids
                      /\ executions'[r.execution].mon = n
                      /\ executions'[r.execution].kind = "repair"
                      /\ executions'[r.execution].rev = h
                      /\ IF executions'[r.execution].state \in LiveStates
                         THEN r.state = executions'[r.execution].state
                         ELSE r.state \notin LiveStates
                 /\ h < Len(revisions[n]) => r.state \in RepairDone
      <3>1. LET r == repairs[n][h] IN
                 /\ r.state = "none" <=> r.execution = 0
                 /\ r.candidate # 0 => r.state \in RepairDone
                 /\ r.state # "none" =>
                      /\ r.execution \in Ids
                      /\ executions[r.execution].mon = n
                      /\ executions[r.execution].kind = "repair"
                      /\ executions[r.execution].rev = h
                      /\ IF executions[r.execution].state \in LiveStates
                         THEN r.state = executions[r.execution].state
                         ELSE r.state \notin LiveStates
                 /\ h < Len(revisions[n]) => r.state \in RepairDone
        BY DEF RepairInv, RepairRows, RepairRowOK, Live
      <3>2. CASE repairs[n][h].execution = e
        <4>1. /\ repairs[n][h].state = "queued" /\ n = m /\ executions[e].kind = "repair"
          BY <1>0, <1>2, <3>1, <3>2 DEF LiveStates
        <4>2. /\ repairs'[n][h].state = "running" /\ repairs'[n][h].execution = e
              /\ repairs'[n][h].candidate = repairs[n][h].candidate
          BY <1>6, <3>2, <4>1
        <4>3. executions'[e].state = "running"
          BY <1>5
        <4>4. QED
          BY <1>0, <1>5, <3>1, <3>2, <4>1, <4>2, <4>3 DEF LiveStates, RepairDone
      <3>3. CASE repairs[n][h].execution # e
        <4>1. /\ repairs'[n][h].state = repairs[n][h].state
              /\ repairs'[n][h].execution = repairs[n][h].execution
              /\ repairs'[n][h].candidate = repairs[n][h].candidate
          BY <1>6, <3>3
        <4>2. QED
          BY <1>5, <3>1, <3>3, <4>1
      <3>4. QED
        BY <3>2, <3>3
    <2>2. QED
      BY <1>0, <1>3, <2>1 DEF RepairRows, RepairRowOK, Ids, Live
  <1>10. LiveRepairHoldsRow'
    <2>1. ASSUME NEW i \in Ids, executions'[i].kind = "repair",
                 executions'[i].state \in LiveStates
          PROVE  repairs'[executions'[i].mon][executions'[i].rev].execution = i
      <3>1. executions[i].kind = "repair" /\ Live(i)
        BY <1>5, <2>1 DEF Live
      <3>2. QED
        BY <1>5, <1>6, <3>1, LiveRepairIsNewest
    <2>2. QED
      BY <1>3, <2>1 DEF LiveRepairHoldsRow, Ids, Live
  <1>11. OneLiveCompile'
    BY <1>0, <1>3, <1>5 DEF RepairInv, OneLiveCompile, Ids, Live
  <1>12. QED
    BY <1>7, <1>8, <1>9, <1>10, <1>11 DEF RepairInv

(* The first generation of a monitor. *)
LEMMA CompileKeepsInv ==
    ASSUME RepairInv, TypeOK', NEW e \in Ids, CompileSucceeded(e)
    PROVE  RepairInv'
  <1> DEFINE m == executions[e].mon
  <1>0. /\ TypeOK /\ executions \in Seq(Execution) /\ Len(executions) \in Nat
        /\ \A i \in Ids : executions[i].mon \in Monitors
        /\ m \in Monitors /\ Len(revisions[m]) = 0 /\ monitors[m].rev = 0
        /\ monitors[m].status # "absent" /\ revisions[m] \in Seq(RevisionState)
        /\ UNCHANGED repairs /\ executions[e].kind = "compile" /\ Live(e)
        /\ Len(revisions[m]) < MaxGenerations
    <2>1. executions[e].kind = "compile" /\ Live(e) /\ UNCHANGED repairs
          /\ Len(revisions[m]) < MaxGenerations
      BY DEF CompileSucceeded, Reportable
    <2>2. Len(revisions[m]) = 0
      BY <2>1 DEF RepairInv, OneLiveCompile
    <2>3. m \in Monitors
      BY ExecutionRow DEF RepairInv
    <2>4. monitors[m].rev = 0
      BY <2>2, <2>3, MonitorKnown, BoundsAssumption DEF RepairInv, CurrentExists, Generations
    <2>5. QED
      BY <2>1, <2>2, <2>3, <2>4, ExecutionRow
      DEF RepairInv, TypeOK, ExecutionsRunKnownPlans
  <1>1. /\ Len(executions') = Len(executions)
        /\ \A i \in Ids : i # e => executions'[i] = executions[i]
        /\ executions'[e].mon = m /\ executions'[e].kind = "compile"
        /\ executions'[e].rev = executions[e].rev
        /\ executions'[e].state = "succeeded"
    <2>1. executions' = Finished(e, "succeeded", "none")
      BY DEF CompileSucceeded
    <2>2. executions \in Seq(Execution) /\ executions[e].kind = "compile"
      BY <1>0
    <2>3. QED
      BY <2>1, <2>2, FinishedRow
  <1>2. QuietMonitors
    BY <1>0, MonitorRows, QuietRow DEF CompileSucceeded, Status
  <1>3. /\ revisions'[m] = Append(revisions[m], "awaiting_confirmation")
        /\ \A n \in Monitors : n # m => revisions'[n] = revisions[n]
    BY <1>0 DEF CompileSucceeded, TypeOK
  <1>4. Len(revisions'[m]) = 1
    BY <1>0, <1>3, AppendedSeq DEF RevisionState
  <1>6. ExecutionsRunKnownPlans'
    <2>1. \A i \in Ids : /\ executions'[i].mon = executions[i].mon
                         /\ executions'[i].kind = executions[i].kind
                         /\ executions'[i].rev = executions[i].rev
      BY <1>0, <1>1
    <2>2. QED
      BY <1>0, <1>1, <1>2, <2>1 DEF RepairInv, ExecutionsRunKnownPlans, QuietMonitors, Ids
  <1> HIDE DEF m
  <1>5. CurrentExists'
    BY <1>0, <1>2, <1>3, <1>4, BoundsAssumption DEF RepairInv, CurrentExists, QuietMonitors
  <1>7. PendingIsNewest'
    <2>1. ASSUME NEW n \in Monitors, NEW h \in 1..Len(revisions'[n]), Reviewable(n, h)'
          PROVE  h = Len(revisions'[n]) /\ h > monitors'[n].rev
      <3>1. CASE n = m
        <4>1. Len(revisions'[n]) = 1 /\ monitors'[n].rev = 0
          BY <1>0, <1>2, <1>4, <3>1 DEF QuietMonitors
        <4>2. QED
          BY <2>1, <4>1
      <3>2. CASE n # m
        <4>1. revisions'[n] = revisions[n] /\ monitors'[n].rev = monitors[n].rev
          BY <1>2, <1>3, <3>2 DEF QuietMonitors
        <4>2. Reviewable(n, h) /\ h \in 1..Len(revisions[n])
          BY <2>1, <4>1 DEF Reviewable
        <4>3. QED
          BY <4>1, <4>2 DEF RepairInv, PendingIsNewest
      <3>3. QED
        BY <3>1, <3>2
    <2>2. QED
      BY <2>1 DEF PendingIsNewest
  <1>8. RepairRows'
    <2>1. ASSUME NEW n \in Monitors, NEW h \in Generations PROVE RepairRowOK(n, h)'
      <3>1. RepairRowOK(n, h)
        BY DEF RepairInv, RepairRows
      <3>2. h < Len(revisions'[n]) => h < Len(revisions[n])
        BY <1>3, <1>4, BoundsAssumption DEF Generations
      <3>3. QED
        BY <1>0, <1>1, <3>1, <3>2 DEF RepairRowOK, Ids, Live
    <2>2. QED
      BY <2>1 DEF RepairRows
  <1>9. LiveRepairHoldsRow'
    BY <1>0, <1>1 DEF RepairInv, LiveRepairHoldsRow, Ids, Live
  <1>10. OneLiveCompile'
    <2>1. \A i \in Ids : (executions'[i].kind = "compile" /\ executions'[i].state \in LiveStates)
                          => i # e /\ executions[i].mon # m
      BY <1>0, <1>1 DEF RepairInv, OneLiveCompile, Live, LiveStates, m
    <2>2. QED
      BY <1>0, <1>1, <1>3, <2>1 DEF RepairInv, OneLiveCompile, Ids, Live, LiveStates
  <1>11. QED
    BY <1>5, <1>6, <1>7, <1>8, <1>9, <1>10 DEF RepairInv

(* UPDATE repair_attempts ... WHERE execution_id = e, for a live repair e,  *)
(* touches exactly the attempt of its generation.                           *)
LEMMA RepairRowOfLive ==
    ASSUME RepairInv, NEW e \in Ids, executions[e].kind = "repair", Live(e), NEW row,
           repairs' = SetRepair(executions[e].mon, e, row)
    PROVE  LET m == executions[e].mon
               g == executions[e].rev
           IN  /\ repairs'[m][g] = row
               /\ \A n \in Monitors, h \in Generations :
                     ~(n = m /\ h = g) => repairs'[n][h] = repairs[n][h]
  <1> DEFINE m == executions[e].mon
             g == executions[e].rev
  <1>1. /\ m \in Monitors /\ g \in Generations /\ repairs[m][g].execution = e
        /\ \A h \in Generations : repairs[m][h].execution = e => h = g
    BY LiveRepairIsNewest
  <1>2. repairs \in [Monitors -> [Generations -> RepairAttempt]]
    BY DEF RepairInv, TypeOK
  <1>3. /\ \A n \in Monitors : n # m => repairs'[n] = repairs[n]
        /\ \A h \in Generations : repairs'[m][h] =
              IF repairs[m][h].execution = e THEN row ELSE repairs[m][h]
    BY <1>1, <1>2 DEF SetRepair
  <1> HIDE DEF m, g
  <1>4. QED
    BY <1>1, <1>3 DEF m, g

(* A live repair e ends: its execution and its attempt become terminal.  The *)
(* attempts stay consistent when at most the generation after its own is     *)
(* added, and then only by a repair that produced it.                        *)
LEMMA RepairEndsKeepsRows ==
    ASSUME RepairInv, NEW e \in Ids, executions[e].kind = "repair", Live(e),
           NEW st \in {"succeeded", "failed", "blocked", "needs_review"},
           executions' = Finished(e, st, "none"),
           NEW row \in RepairAttempt, row.execution = e,
           row.state \in RepairDone \cup {"failed"},
           row.candidate # 0 => row.state \in RepairDone,
           repairs' = SetRepair(executions[e].mon, e, row),
           \A n \in Monitors : n # executions[e].mon => revisions'[n] = revisions[n],
           \/ revisions'[executions[e].mon] = revisions[executions[e].mon]
           \/ /\ Len(revisions'[executions[e].mon]) = Len(revisions[executions[e].mon]) + 1
              /\ row.state \in RepairDone
    PROVE  /\ RepairRows' /\ LiveRepairHoldsRow' /\ OneLiveCompile'
           /\ Len(executions') = Len(executions)
           /\ \A i \in Ids : /\ executions'[i].mon = executions[i].mon
                             /\ executions'[i].kind = executions[i].kind
                             /\ executions'[i].rev = executions[i].rev
  <1> DEFINE m == executions[e].mon
             g == executions[e].rev
  <1>0. /\ executions \in Seq(Execution) /\ Len(executions) \in Nat
        /\ \A i \in Ids : executions[i].mon \in Monitors
        /\ e # 0
    BY ExecutionRow DEF RepairInv, TypeOK
  <1>1. /\ m \in Monitors /\ g \in Generations /\ g = Len(revisions[m])
        /\ g = monitors[m].rev
    BY LiveRepairIsNewest
  <1>2. /\ repairs'[m][g] = row
        /\ \A n \in Monitors, h \in Generations :
              ~(n = m /\ h = g) => repairs'[n][h] = repairs[n][h]
    BY RepairRowOfLive
  <1>3. /\ Len(executions') = Len(executions)
        /\ \A i \in Ids : i # e => executions'[i] = executions[i]
        /\ executions'[e].mon = m /\ executions'[e].kind = "repair"
        /\ executions'[e].rev = g /\ executions'[e].state = st
    BY <1>0, FinishedRow
  <1>4. st \notin LiveStates
    BY DEF LiveStates
  <1>5. \A h \in Generations : repairs[m][h].execution = e => h = g
    BY LiveRepairIsNewest
  <1>c. g # 0 /\ g \in Nat /\ Len(revisions[m]) = g
    <2>1. g \in Generations /\ g = Len(revisions[m])
      BY <1>1
    <2> HIDE DEF g, m
    <2>2. g # 0 /\ g \in Nat
      BY <2>1, BoundsAssumption DEF Generations
    <2>3. QED
      BY <2>1, <2>2
  <1>d. \/ Len(revisions'[m]) = g
        \/ Len(revisions'[m]) = g + 1 /\ row.state \in RepairDone
    <2>1. CASE revisions'[m] = revisions[m]
      BY <1>c, <2>1
    <2>2. CASE Len(revisions'[m]) = Len(revisions[m]) + 1 /\ row.state \in RepairDone
      BY <1>c, <2>2
    <2>3. QED
      BY <2>1, <2>2
  <1>a. /\ \A n \in Monitors : n # m => revisions'[n] = revisions[n]
        /\ \/ Len(revisions'[m]) = g
           \/ Len(revisions'[m]) = g + 1 /\ row.state \in RepairDone
        /\ g \in Nat /\ row.execution = e
        /\ row.state \in RepairDone \cup {"failed"}
        /\ row.candidate # 0 => row.state \in RepairDone
    BY <1>c, <1>d
  <1>b. repairs[m][g].execution = e
    BY LiveRepairIsNewest
  <1> HIDE DEF m, g
  <1>6. ASSUME NEW n \in Monitors, NEW h \in Generations PROVE RepairRowOK(n, h)'
    <2>1. RepairRowOK(n, h)
      BY DEF RepairInv, RepairRows
    <2>2. CASE n = m /\ h = g
      <3>1. repairs'[n][h].state \notin LiveStates \cup {"none"}
        BY <1>2, <2>2 DEF LiveStates, RepairDone
      <3>2. h < Len(revisions'[n]) => row.state \in RepairDone
        BY <1>a, <2>2
      <3>a. repairs'[n][h] = row
        BY <1>2, <2>2
      <3>b. /\ executions'[e].mon = n /\ executions'[e].kind = "repair"
            /\ executions'[e].rev = h /\ executions'[e].state \notin LiveStates
        BY <1>3, <1>4, <2>2
      <3>c. e \in Ids'
        BY <1>3 DEF Ids
      <3>3. QED
        BY <1>0, <1>a, <3>1, <3>2, <3>a, <3>b, <3>c DEF RepairRowOK, Live
    <2>3. CASE ~(n = m /\ h = g)
      <3>1. repairs'[n][h] = repairs[n][h]
        BY <1>2, <2>3
      <3>2. repairs[n][h].execution # e
        <4>1. ASSUME repairs[n][h].execution = e PROVE n = m /\ h = g
          <5>1. n = m
            BY <1>0, <2>1, <4>1 DEF RepairRowOK, m
          <5>2. QED
            BY <1>5, <4>1, <5>1
        <4>2. QED
          BY <2>3, <4>1
      <3>3. h < Len(revisions'[n]) => h < Len(revisions[n])
        <4>1. CASE n = m
          <5>1. h # g /\ h \in Nat
            BY <2>3, <4>1, BoundsAssumption DEF Generations
          <5>2. QED
            BY <1>a, <1>c, <4>1, <5>1
        <4>2. CASE n # m
          BY <1>a, <4>2
        <4>3. QED
          BY <4>1, <4>2
      <3>4. QED
        BY <1>3, <2>1, <3>1, <3>2, <3>3 DEF RepairRowOK, Ids, Live
    <2>4. QED
      BY <2>2, <2>3
  <1>7. LiveRepairHoldsRow'
    <2>1. ASSUME NEW i \in Ids, executions'[i].kind = "repair",
                 executions'[i].state \in LiveStates
          PROVE  repairs'[executions'[i].mon][executions'[i].rev].execution = i
      <3>1. i # e /\ executions'[i] = executions[i]
        BY <1>3, <1>4, <2>1
      <3>2. /\ executions[i].mon \in Monitors /\ executions[i].rev \in Generations
            /\ repairs[executions[i].mon][executions[i].rev].execution = i
        BY <2>1, <3>1, LiveRepairIsNewest DEF Live
      <3>3. ~(executions[i].mon = m /\ executions[i].rev = g)
        BY <1>b, <3>1, <3>2
      <3>4. QED
        BY <1>2, <3>1, <3>2, <3>3
    <2>2. QED
      BY <1>3, <2>1 DEF LiveRepairHoldsRow, Ids, Live
  <1>8. OneLiveCompile'
    <2>1. ASSUME NEW i \in Ids, executions'[i].kind = "compile",
                 executions'[i].state \in LiveStates
          PROVE  /\ executions'[i] = executions[i]
                 /\ Len(revisions'[executions[i].mon]) = 0
      <3>1. i # e /\ executions'[i] = executions[i]
        BY <1>3, <1>4, <2>1
      <3>2. Len(revisions[executions[i].mon]) = 0
        BY <2>1, <3>1 DEF RepairInv, OneLiveCompile, Live
      <3>3. executions[i].mon # m
        BY <1>c, <3>2
      <3>4. QED
        BY <1>0, <1>a, <3>1, <3>2, <3>3
    <2>2. QED
      BY <1>3, <2>1 DEF RepairInv, OneLiveCompile, Ids, Live
  <1>9. RepairRows'
    BY <1>6 DEF RepairRows
  <1>10. \A i \in Ids : /\ executions'[i].mon = executions[i].mon
                        /\ executions'[i].kind = executions[i].kind
                        /\ executions'[i].rev = executions[i].rev
    BY <1>3 DEF m, g
  <1>11. QED
    BY <1>3, <1>7, <1>8, <1>9, <1>10

(* A repair fails for good: the generation stays as it is. *)
LEMMA GiveUpKeepsInv ==
    ASSUME RepairInv, TypeOK', NEW e \in Ids, executions[e].kind = "repair", Live(e),
           NEW st \in {"succeeded", "failed", "blocked", "needs_review"},
           executions' = Finished(e, st, "none"), RepairGivesUp(e)
    PROVE  RepairInv'
  <1> DEFINE m == executions[e].mon
             row == [state |-> "failed", execution |-> e, candidate |-> 0]
  <1>0. /\ TypeOK /\ m \in Monitors /\ monitors[m].status # "absent" /\ e \in Nat
        /\ \A i \in Ids : executions[i].mon \in Monitors
    BY ExecutionRow DEF RepairInv, ExecutionsRunKnownPlans
  <1>1. /\ repairs' = SetRepair(m, e, row) /\ UNCHANGED revisions
        /\ SetMonitor(m, Scheduled(m, "needs_review", "null"))
    BY DEF RepairGivesUp
  <1>2. /\ row \in RepairAttempt /\ row.execution = e /\ row.state = "failed"
        /\ row.candidate = 0
    BY <1>0 DEF RepairAttempt
  <1>3. QuietMonitors
    BY <1>0, <1>1, MonitorRows, QuietRow DEF Status
  <1> HIDE DEF row
  <1>4. /\ RepairRows' /\ LiveRepairHoldsRow' /\ OneLiveCompile'
        /\ Len(executions') = Len(executions)
        /\ \A i \in Ids : /\ executions'[i].mon = executions[i].mon
                          /\ executions'[i].kind = executions[i].kind
                          /\ executions'[i].rev = executions[i].rev
    BY <1>1, <1>2, RepairEndsKeepsRows
  <1>5. CurrentExists' /\ PendingIsNewest'
    BY <1>1, <1>3 DEF RepairInv, CurrentExists, PendingIsNewest, Reviewable, QuietMonitors
  <1>6. ExecutionsRunKnownPlans'
    BY <1>0, <1>3, <1>4 DEF RepairInv, ExecutionsRunKnownPlans, QuietMonitors, Ids
  <1>7. QED
    BY <1>4, <1>5, <1>6 DEF RepairInv

(* A repair produces the next generation: promoted, or waiting for review. *)
LEMMA RepairedKeepsInv ==
    ASSUME RepairInv, TypeOK', NEW e \in Ids, NEW auto \in BOOLEAN, RepairSucceeded(e, auto)
    PROVE  RepairInv'
  <1> DEFINE m == executions[e].mon
             k == executions[e].rev
             g == Len(revisions[m]) + 1
             v == IF Promotes(e, auto) THEN "active" ELSE "candidate"
             row == [state |-> IF Promotes(e, auto) THEN "activated" ELSE "candidate",
                     execution |-> e, candidate |-> g]
  <1>0. /\ TypeOK /\ m \in Monitors /\ monitors[m].status # "absent" /\ e \in Nat
        /\ \A i \in Ids : executions[i].mon \in Monitors
    BY ExecutionRow DEF RepairInv, ExecutionsRunKnownPlans
  <1>1. /\ executions[e].kind = "repair" /\ Live(e) /\ g <= MaxGenerations
        /\ executions' = Finished(e, "succeeded", "none")
        /\ repairs' = SetRepair(m, e, row)
        /\ revisions' = [revisions EXCEPT ![m] = Append(@, v)]
    BY DEF RepairSucceeded, Reportable
  <1>2. k \in Generations /\ k = Len(revisions[m]) /\ k = monitors[m].rev
    BY <1>1, LiveRepairIsNewest
  <1>3. /\ monitors'[m].rev = k \/ (monitors'[m].rev = g /\ v = "active")
        /\ monitors'[m].status # "absent"
        /\ \A n \in Monitors : n # m => monitors'[n] = monitors[n]
    <2>1. g \in Generations
      BY <1>1, <1>2, BoundsAssumption DEF Generations
    <2> HIDE DEF g, m
    <2>2. CASE Promotes(e, auto)
      <3>1. SetMonitor(m, Activated(m, g))
        BY <2>2 DEF RepairSucceeded, g, m
      <3>2. QED
        BY <1>0, <2>1, <2>2, <3>1, MonitorRows, SetMonitorRow
    <2>3. CASE ~Promotes(e, auto)
      <3>1. SetMonitor(m, WithStatus(m, "needs_review"))
        BY <2>3 DEF RepairSucceeded, g, m
      <3>2. "needs_review" \in Status
        BY DEF Status
      <3>3. QED
        BY <1>0, <1>2, <3>1, <3>2, MonitorRows, SetMonitorRow
    <2>4. QED
      BY <2>2, <2>3
  <1>4. /\ row \in RepairAttempt /\ row.execution = e /\ row.state \in RepairDone
    BY <1>0, <1>1, <1>2, BoundsAssumption DEF RepairAttempt, RepairDone, Generations
  <1>5. /\ revisions'[m] = Append(revisions[m], v)
        /\ \A n \in Monitors : n # m => revisions'[n] = revisions[n]
        /\ revisions[m] \in Seq(RevisionState) /\ v \in RevisionState
    BY <1>0, <1>1 DEF TypeOK, RevisionState
  <1> HIDE DEF row, v
  <1>6. /\ Len(revisions'[m]) = k + 1 /\ k \in Nat /\ k + 1 <= MaxGenerations
        /\ revisions'[m][k + 1] = v
        /\ DOMAIN revisions[m] = 1..k /\ DOMAIN revisions'[m] = 1..(k + 1)
        /\ \A h \in 1..k : revisions'[m][h] = revisions[m][h]
    <2>1. /\ Len(revisions'[m]) = Len(revisions[m]) + 1
          /\ revisions'[m][Len(revisions[m]) + 1] = v
          /\ \A h \in 1..Len(revisions[m]) : revisions'[m][h] = revisions[m][h]
          /\ revisions'[m] \in Seq(RevisionState)
      BY <1>5, AppendedSeq
    <2>2. /\ DOMAIN revisions[m] = 1..Len(revisions[m])
          /\ DOMAIN revisions'[m] = 1..Len(revisions'[m])
      BY <1>5, <2>1, LenProperties
    <2>3. k \in Nat
      BY <1>2, BoundsAssumption DEF Generations
    <2>4. QED
      BY <1>1, <1>2, <2>1, <2>2, <2>3
  <1>7. /\ RepairRows' /\ LiveRepairHoldsRow' /\ OneLiveCompile'
        /\ Len(executions') = Len(executions)
        /\ \A i \in Ids : /\ executions'[i].mon = executions[i].mon
                          /\ executions'[i].kind = executions[i].kind
                          /\ executions'[i].rev = executions[i].rev
    <2>1. Len(revisions'[m]) = Len(revisions[m]) + 1
      BY <1>5, AppendedSeq
    <2>2. "succeeded" \in {"succeeded", "failed", "blocked", "needs_review"}
      OBVIOUS
    <2>3. QED
      BY <1>1, <1>4, <1>5, <2>1, <2>2, RepairEndsKeepsRows
  <1>8. g = k + 1
    BY <1>2
  <1>9. k = monitors[m].rev /\ k = Len(revisions[m])
    BY <1>2
  <1> HIDE DEF m, g, k
  <1>10. CurrentExists'
    <2>1. ASSUME NEW n \in Monitors
          PROVE  /\ monitors'[n].rev <= Len(revisions'[n])
                 /\ Len(revisions'[n]) <= MaxGenerations
                 /\ monitors'[n].status = "absent" => Len(revisions'[n]) = 0
      <3>1. CASE n = m
        BY <1>3, <1>6, <1>8, <3>1
      <3>2. CASE n # m
        BY <1>3, <1>5, <3>2 DEF RepairInv, CurrentExists
      <3>3. QED
        BY <3>1, <3>2
    <2>2. QED
      BY <2>1 DEF CurrentExists
  <1>11. ExecutionsRunKnownPlans'
    <2>1. ASSUME NEW i \in Ids
          PROVE  /\ monitors'[executions[i].mon].status # "absent"
                 /\ executions[i].kind # "compile" =>
                       executions[i].rev \in 1..monitors'[executions[i].mon].rev
      <3>1. /\ monitors[executions[i].mon].status # "absent"
            /\ executions[i].kind # "compile" =>
                  executions[i].rev \in 1..monitors[executions[i].mon].rev
        BY DEF RepairInv, ExecutionsRunKnownPlans
      <3>2. CASE executions[i].mon = m
        <4>1. executions[i].kind # "compile" => executions[i].rev \in 1..k
          BY <1>9, <3>1, <3>2
        <4>2. QED
          BY <1>3, <1>6, <1>8, <3>2, <4>1
      <3>3. CASE executions[i].mon # m
        BY <1>0, <1>3, <3>1, <3>3
      <3>4. QED
        BY <3>2, <3>3
    <2>2. QED
      BY <1>7, <2>1 DEF ExecutionsRunKnownPlans, Ids
  <1>12. PendingIsNewest'
    <2>1. ASSUME NEW n \in Monitors, NEW h \in 1..Len(revisions'[n]), Reviewable(n, h)'
          PROVE  h = Len(revisions'[n]) /\ h > monitors'[n].rev
      <3>1. CASE n = m
        <4>1. h \in 1..(k + 1)
          BY <1>6, <2>1, <3>1
        <4>2. h \notin 1..k
          <5>1. ASSUME h \in 1..k PROVE FALSE
            <6>1. Reviewable(m, h)
              BY <1>6, <2>1, <3>1, <5>1 DEF Reviewable
            <6>2. h > k
              BY <1>0, <1>9, <5>1, <6>1 DEF RepairInv, PendingIsNewest
            <6>3. QED
              BY <1>6, <5>1, <6>2
          <5>2. QED
            BY <5>1
        <4>3. h = k + 1
          BY <1>6, <4>1, <4>2
        <4>4. v # "active"
          BY <1>6, <2>1, <3>1, <4>3 DEF Reviewable
        <4>5. QED
          BY <1>3, <1>6, <3>1, <4>3, <4>4
      <3>2. CASE n # m
        <4>1. revisions'[n] = revisions[n] /\ monitors'[n].rev = monitors[n].rev
          BY <1>3, <1>5, <3>2
        <4>2. Reviewable(n, h) /\ h \in 1..Len(revisions[n])
          BY <2>1, <4>1 DEF Reviewable
        <4>3. QED
          BY <4>1, <4>2 DEF RepairInv, PendingIsNewest
      <3>3. QED
        BY <3>1, <3>2
    <2>2. QED
      BY <2>1 DEF PendingIsNewest
  <1>13. QED
    BY <1>7, <1>10, <1>11, <1>12 DEF RepairInv

(* An execution is finished and another one inserted in one transaction. *)
LEMMA FinishedAndInserted ==
    ASSUME TypeOK, NEW e \in Ids, NEW st \in FailureStatus, NEW x \in Execution,
           executions' = Append(Finished(e, st, "none"), x)
    PROVE  /\ Len(executions') = NextId /\ NextId \in Ids' /\ NextId \notin Ids
           /\ NextId \in Nat /\ NextId # 0
           /\ \A i \in Ids' : i \in Ids \/ i = NextId
           /\ \A i \in Ids : i \in Ids' /\ (i # e => executions'[i] = executions[i])
           /\ executions'[e].mon = executions[e].mon
           /\ executions'[e].kind = executions[e].kind
           /\ executions'[e].rev = executions[e].rev
           /\ executions'[e].state \notin LiveStates
           /\ executions'[NextId] = x
  <1> DEFINE ex == Finished(e, st, "none")
  <1>1. executions \in Seq(Execution) /\ Len(executions) \in Nat /\ e \in 1..Len(executions)
    BY ExecutionRow DEF Ids
  <1>2. st \in {"succeeded", "failed", "blocked", "needs_review"} /\ st \notin LiveStates
    BY DEF FailureStatus, LiveStates
  <1>3. /\ ex \in Seq(Execution) /\ Len(ex) = Len(executions)
        /\ \A j \in Ids : j # e => ex[j] = executions[j]
        /\ ex[e].mon = executions[e].mon /\ ex[e].kind = executions[e].kind
        /\ ex[e].rev = executions[e].rev /\ ex[e].state = st
    BY <1>1, <1>2, FinishedRow
  <1> HIDE DEF ex
  <1>4. /\ Len(executions') = Len(ex) + 1
        /\ \A j \in 1..Len(ex) : executions'[j] = ex[j]
        /\ executions'[Len(ex) + 1] = x
    BY <1>3, AppendedSeq DEF ex
  <1>5. /\ Len(executions') = NextId /\ executions'[NextId] = x
        /\ \A j \in Ids : executions'[j] = ex[j]
    BY <1>3, <1>4 DEF NextId, Ids
  <1>6. /\ NextId \in Ids' /\ NextId \notin Ids /\ NextId \in Nat /\ NextId # 0
        /\ \A i \in Ids' : i \in Ids \/ i = NextId
        /\ \A i \in Ids : i \in Ids'
    BY <1>1, <1>5 DEF NextId, Ids
  <1>7. QED
    BY <1>2, <1>3, <1>5, <1>6

(* A repair of the newest generation is opened, or handed over by the live  *)
(* execution e that held it.                                                 *)
LEMMA OpenedRepairKeepsInv ==
    ASSUME RepairInv, TypeOK', NEW e \in Ids, NEW st \in FailureStatus, NEW x \in Execution,
           executions' = Append(Finished(e, st, "none"), x),
           NEW m \in Monitors, NEW g \in Generations,
           executions[e].mon = m, executions[e].rev = g, executions[e].kind # "compile",
           x.mon = m, x.rev = g, x.kind = "repair", x.state = "queued",
           g = Len(revisions[m]),
           repairs'[m][g] = [state |-> "queued", execution |-> NextId, candidate |-> 0],
           \A n \in Monitors, h \in Generations :
               ~(n = m /\ h = g) =>
                   /\ repairs'[n][h] = repairs[n][h]
                   /\ repairs[n][h].execution # e,
           \A i \in Ids : (executions[i].kind = "repair" /\ Live(i) /\ i # e) =>
               ~(executions[i].mon = m /\ executions[i].rev = g),
           UNCHANGED revisions, QuietMonitors
    PROVE  RepairInv'
  <1>1. TypeOK /\ \A i \in Ids : executions[i].mon \in Monitors
    BY ExecutionRow DEF RepairInv
  <1>2. /\ NextId \in Ids' /\ NextId \notin Ids /\ NextId # 0
        /\ \A i \in Ids' : i \in Ids \/ i = NextId
        /\ \A i \in Ids : i \in Ids' /\ (i # e => executions'[i] = executions[i])
        /\ executions'[e].mon = executions[e].mon
        /\ executions'[e].kind = executions[e].kind
        /\ executions'[e].rev = executions[e].rev
        /\ executions'[e].state \notin LiveStates
        /\ executions'[NextId] = x
    BY <1>1, FinishedAndInserted
  <1>3. CurrentExists' /\ PendingIsNewest'
    BY DEF RepairInv, CurrentExists, PendingIsNewest, Reviewable, QuietMonitors
  <1>4. ExecutionsRunKnownPlans'
    <2>1. ASSUME NEW i \in Ids'
          PROVE  /\ monitors'[executions'[i].mon].status # "absent"
                 /\ executions'[i].kind # "compile" =>
                       executions'[i].rev \in 1..monitors'[executions'[i].mon].rev
      <3>1. PICK j \in Ids : /\ executions'[i].mon = executions[j].mon
                             /\ executions'[i].rev = executions[j].rev
                             /\ executions'[i].kind # "compile" => executions[j].kind # "compile"
        <4>1. CASE i = NextId
          BY <1>2, <4>1
        <4>2. CASE i # NextId
          <5>1. i \in Ids
            BY <1>2, <2>1, <4>2
          <5>2. /\ executions'[i].mon = executions[i].mon
                /\ executions'[i].rev = executions[i].rev
                /\ executions'[i].kind = executions[i].kind
            BY <1>2, <5>1
          <5>3. QED
            BY <5>1, <5>2
        <4>3. QED
          BY <4>1, <4>2
      <3>2. QED
        BY <1>1, <3>1 DEF RepairInv, ExecutionsRunKnownPlans, QuietMonitors
    <2>2. QED
      BY <2>1 DEF ExecutionsRunKnownPlans
  <1>5. RepairRows'
    <2>1. ASSUME NEW n \in Monitors, NEW h \in Generations PROVE RepairRowOK(n, h)'
      <3>1. CASE n = m /\ h = g
        <4>1. /\ repairs'[n][h].state = "queued" /\ repairs'[n][h].execution = NextId
              /\ repairs'[n][h].candidate = 0
          BY <3>1
        <4>2. ~(h < Len(revisions'[n]))
          BY <3>1, BoundsAssumption DEF Generations
        <4>3. /\ executions'[NextId].mon = n /\ executions'[NextId].kind = "repair"
              /\ executions'[NextId].rev = h /\ executions'[NextId].state = "queued"
          BY <1>2, <3>1
        <4>4. QED
          BY <1>2, <4>1, <4>2, <4>3 DEF RepairRowOK, Live, LiveStates
      <3>2. CASE ~(n = m /\ h = g)
        <4>1. repairs'[n][h] = repairs[n][h] /\ repairs[n][h].execution # e
          BY <3>2
        <4>2. RepairRowOK(n, h)
          BY DEF RepairInv, RepairRows
        <4>3. QED
          BY <1>2, <4>1, <4>2 DEF RepairRowOK, Live
      <3>3. QED
        BY <3>1, <3>2
    <2>2. QED
      BY <2>1 DEF RepairRows
  <1>6. LiveRepairHoldsRow'
    <2>1. ASSUME NEW i \in Ids', executions'[i].kind = "repair",
                 executions'[i].state \in LiveStates
          PROVE  repairs'[executions'[i].mon][executions'[i].rev].execution = i
      <3>1. CASE i = NextId
        <4>1. executions'[i].mon = m /\ executions'[i].rev = g
          BY <1>2, <3>1
        <4>2. repairs'[m][g].execution = NextId
          OBVIOUS
        <4>3. QED
          BY <3>1, <4>1, <4>2
      <3>2. CASE i # NextId
        <4>1. i \in Ids /\ i # e /\ executions'[i] = executions[i] /\ Live(i)
          BY <1>2, <2>1, <3>2 DEF Live
        <4>2. /\ executions[i].mon \in Monitors /\ executions[i].rev \in Generations
              /\ repairs[executions[i].mon][executions[i].rev].execution = i
          BY <2>1, <4>1, LiveRepairIsNewest
        <4>3. QED
          BY <2>1, <4>1, <4>2
      <3>3. QED
        BY <3>1, <3>2
    <2>2. QED
      BY <2>1 DEF LiveRepairHoldsRow, Live
  <1>7. OneLiveCompile'
    <2>1. ASSUME NEW i \in Ids', executions'[i].kind = "compile",
                 executions'[i].state \in LiveStates
          PROVE  i \in Ids /\ executions'[i] = executions[i] /\ Live(i)
      BY <1>2, <2>1 DEF Live
    <2>2. ASSUME NEW i \in Ids', executions'[i].kind = "compile",
                 executions'[i].state \in LiveStates
          PROVE  /\ Len(revisions'[executions'[i].mon]) = 0
                 /\ \A d \in Ids' : (/\ executions'[d].mon = executions'[i].mon
                                    /\ executions'[d].kind = "compile"
                                    /\ executions'[d].state \in LiveStates) => d = i
      <3>1. i \in Ids /\ executions'[i] = executions[i] /\ Live(i)
        BY <2>1, <2>2
      <3>2. /\ Len(revisions[executions[i].mon]) = 0
            /\ \A d \in Ids : (/\ executions[d].mon = executions[i].mon
                              /\ executions[d].kind = "compile" /\ Live(d)) => d = i
        BY <2>2, <3>1 DEF RepairInv, OneLiveCompile
      <3>3. QED
        BY <2>1, <3>1, <3>2
    <2>3. QED
      BY <2>2 DEF OneLiveCompile, Live
  <1>8. QED
    BY <1>3, <1>4, <1>5, <1>6, <1>7 DEF RepairInv

(* The first stale check of a generation finds it current and newest: every *)
(* older generation has been repaired.                                       *)
LEMMA StaleCheckKeepsInv ==
    ASSUME RepairInv, TypeOK', NEW e \in Ids, NEW st \in FailureStatus,
           StaleCheckOpensRepair(e, st)
    PROVE  RepairInv'
  <1> DEFINE m == executions[e].mon
             g == executions[e].rev
             x == NewExecution(m, "repair", g, 1, 0, 0)
             row == [state |-> "queued", execution |-> NextId, candidate |-> 0]
  <1>0. /\ TypeOK /\ m \in Monitors /\ monitors[m].status # "absent"
        /\ g \in {0} \cup Generations /\ e \in Nat /\ e # 0
    BY ExecutionRow DEF RepairInv, ExecutionsRunKnownPlans
  <1>1. /\ executions[e].kind = "check" /\ Live(e)
        /\ repairs[m][g].state = "none"
        /\ executions' = Append(Finished(e, st, "none"), x)
        /\ repairs' = [repairs EXCEPT ![m][g] = row]
        /\ SetMonitor(m, Scheduled(m, "needs_review", "null"))
        /\ UNCHANGED revisions
    BY DEF StaleCheckOpensRepair, Reportable, RepairNeeded
  <1>2. g \in 1..monitors[m].rev
    BY <1>1 DEF RepairInv, ExecutionsRunKnownPlans
  <1>3. g \in Generations /\ g \in Nat /\ g # 0
    BY <1>0, <1>2, MonitorKnown, BoundsAssumption DEF Generations
  <1>4. RepairRowOK(m, g)
    BY <1>0, <1>3 DEF RepairInv, RepairRows
  <1>5. repairs[m][g].execution = 0 /\ ~(g < Len(revisions[m]))
    BY <1>1, <1>4 DEF RepairRowOK, RepairDone
  <1>6. g = Len(revisions[m])
    <2>1. monitors[m].rev <= Len(revisions[m])
      BY <1>0 DEF RepairInv, CurrentExists
    <2>2. Len(revisions[m]) \in Nat /\ monitors[m].rev \in Nat
      BY <1>0, MonitorKnown, BoundsAssumption DEF Generations
    <2>3. QED
      BY <1>2, <1>3, <1>5, <2>1, <2>2
  <1>7. QuietMonitors
    BY <1>0, <1>1, MonitorRows, QuietRow DEF Status
  <1>8. x \in Execution /\ x.mon = m /\ x.rev = g /\ x.kind = "repair" /\ x.state = "queued"
    BY <1>0, <1>3, NewRow DEF NewExecution
  <1>9. repairs \in [Monitors -> [Generations -> RepairAttempt]]
    BY <1>0 DEF TypeOK
  <1> HIDE DEF x, row, m, g
  <1>10. /\ repairs'[m][g] = row
         /\ \A n \in Monitors, h \in Generations :
               ~(n = m /\ h = g) => repairs'[n][h] = repairs[n][h]
    BY <1>0, <1>1, <1>3, <1>9
  <1>11. \A n \in Monitors, h \in Generations : repairs[n][h].execution # e
    <2>1. ASSUME NEW n \in Monitors, NEW h \in Generations PROVE repairs[n][h].execution # e
      <3>1. RepairRowOK(n, h)
        BY DEF RepairInv, RepairRows
      <3>2. QED
        BY <1>0, <1>1, <3>1 DEF RepairRowOK
    <2>2. QED
      BY <2>1
  <1>12. \A i \in Ids : (executions[i].kind = "repair" /\ Live(i)) =>
            ~(executions[i].mon = m /\ executions[i].rev = g)
    BY <1>0, <1>5, ExecutionRow DEF RepairInv, LiveRepairHoldsRow
  <1>13. executions[e].mon = m /\ executions[e].rev = g
    BY DEF m, g
  <1>14. repairs'[m][g] = [state |-> "queued", execution |-> NextId, candidate |-> 0]
    BY <1>10 DEF row
  <1>15. QED
    BY <1>0, <1>1, <1>3, <1>6, <1>7, <1>8, <1>10, <1>11, <1>12, <1>13, <1>14,
       OpenedRepairKeepsInv

(* A retried or swept execution is replaced by the next attempt. *)
LEMMA ReplacementKeepsInv ==
    ASSUME RepairInv, TypeOK', NEW e \in Ids, Live(e), executions[e].attempt < MaxAttempts,
           NEW st \in FailureStatus, EnqueueReplacement(e, Finished(e, st, "none"))
    PROVE  RepairInv'
  <1> DEFINE m == executions[e].mon
             g == executions[e].rev
             x == Replacement(e)
  <1>0. /\ TypeOK /\ m \in Monitors /\ executions[e].kind \in {"compile", "check", "repair"}
        /\ \A i \in Ids : executions[i].mon \in Monitors
        /\ e # 0
    BY ExecutionRow DEF RepairInv
  <1>1. /\ executions' = Append(Finished(e, st, "none"), x)
        /\ UNCHANGED <<monitors, revisions>>
        /\ executions[e].kind = "repair" => repairs' = HandOver(e)
        /\ executions[e].kind # "repair" => repairs' = repairs
    BY DEF EnqueueReplacement
  <1>2. QuietMonitors
    BY <1>1 DEF QuietMonitors
  <1>3. /\ x \in Execution /\ x.mon = m /\ x.rev = g
        /\ x.kind = executions[e].kind /\ x.state = "queued"
    BY <1>0, ReplacementRow DEF TypeOK
  <1> HIDE DEF x
  <1>4. /\ NextId \in Ids' /\ NextId \notin Ids /\ NextId # 0
        /\ \A i \in Ids' : i \in Ids \/ i = NextId
        /\ \A i \in Ids : i \in Ids' /\ (i # e => executions'[i] = executions[i])
        /\ executions'[e].mon = executions[e].mon
        /\ executions'[e].kind = executions[e].kind
        /\ executions'[e].rev = executions[e].rev
        /\ executions'[e].state \notin LiveStates
        /\ executions'[NextId] = x
    BY <1>0, <1>1, <1>3, FinishedAndInserted
  <1>5. CASE executions[e].kind = "repair"
    <2> DEFINE row == [state |-> "queued", execution |-> NextId, candidate |-> 0]
    <2>1. repairs' = SetRepair(m, e, row)
      BY <1>1, <1>5 DEF HandOver
    <2>2. /\ repairs'[m][g] = row
          /\ \A n \in Monitors, h \in Generations :
                ~(n = m /\ h = g) => repairs'[n][h] = repairs[n][h]
      BY <1>5, <2>1, RepairRowOfLive
    <2>3. /\ g \in Generations /\ g = Len(revisions[m]) /\ repairs[m][g].execution = e
          /\ \A h \in Generations : repairs[m][h].execution = e => h = g
      BY <1>5, LiveRepairIsNewest
    <2>4. ASSUME NEW n \in Monitors, NEW h \in Generations, ~(n = m /\ h = g)
          PROVE  repairs[n][h].execution # e
      <3>1. RepairRowOK(n, h)
        BY DEF RepairInv, RepairRows
      <3>2. repairs[n][h].execution = e => n = m
        BY <1>0, <3>1 DEF RepairRowOK
      <3>3. QED
        BY <2>3, <2>4, <3>2
    <2>5. \A i \in Ids : (executions[i].kind = "repair" /\ Live(i) /\ i # e) =>
             ~(executions[i].mon = m /\ executions[i].rev = g)
      BY <2>3 DEF RepairInv, LiveRepairHoldsRow
    <2> HIDE DEF m, g
    <2>6. executions[e].mon = m /\ executions[e].rev = g
      BY DEF m, g
    <2>7. repairs'[m][g] = [state |-> "queued", execution |-> NextId, candidate |-> 0]
      BY <2>2
    <2>8. UNCHANGED revisions /\ x.kind = "repair" /\ executions[e].kind # "compile"
      BY <1>1, <1>3, <1>5
    <2> HIDE DEF row
    <2>9. \A n \in Monitors, h \in Generations :
             ~(n = m /\ h = g) =>
                 /\ repairs'[n][h] = repairs[n][h]
                 /\ repairs[n][h].execution # e
      BY <2>2, <2>4
    <2>10. /\ m \in Monitors /\ g \in Generations /\ g = Len(revisions[m])
           /\ executions' = Append(Finished(e, st, "none"), x)
           /\ x \in Execution /\ x.mon = m /\ x.rev = g /\ x.state = "queued"
      BY <1>0, <1>1, <1>3, <2>3
    <2>11. QED
      BY <1>2, <2>5, <2>6, <2>7, <2>8, <2>9, <2>10, OpenedRepairKeepsInv
  <1>6. CASE executions[e].kind # "repair"
    <2> HIDE DEF m, g
    <2>0. /\ UNCHANGED <<monitors, revisions, repairs>>
          /\ executions[e].mon = m /\ executions[e].rev = g
      BY <1>1, <1>6 DEF m, g
    <2>1. CurrentExists' /\ PendingIsNewest'
      BY <2>0 DEF RepairInv, CurrentExists, PendingIsNewest, Reviewable
    <2>2. ExecutionsRunKnownPlans'
      <3>1. ASSUME NEW i \in Ids'
            PROVE  /\ monitors[executions'[i].mon].status # "absent"
                   /\ executions'[i].kind # "compile" =>
                         executions'[i].rev \in 1..monitors[executions'[i].mon].rev
        <4>1. CASE i = NextId
          <5>1. /\ monitors[m].status # "absent"
                /\ executions[e].kind # "compile" => g \in 1..monitors[m].rev
            BY <2>0 DEF RepairInv, ExecutionsRunKnownPlans
          <5>2. QED
            BY <1>3, <1>4, <4>1, <5>1
        <4>2. CASE i # NextId
          <5>1. i \in Ids
            BY <1>4, <3>1, <4>2
          <5>2. /\ executions'[i].mon = executions[i].mon
                /\ executions'[i].rev = executions[i].rev
                /\ executions'[i].kind = executions[i].kind
            BY <1>4, <5>1
          <5>3. QED
            BY <5>1, <5>2 DEF RepairInv, ExecutionsRunKnownPlans
        <4>3. QED
          BY <4>1, <4>2
      <3>2. QED
        BY <2>0, <3>1 DEF ExecutionsRunKnownPlans
    <2>3. RepairRows'
      <3>1. ASSUME NEW n \in Monitors, NEW h \in Generations PROVE RepairRowOK(n, h)'
        <4>1. RepairRowOK(n, h)
          BY DEF RepairInv, RepairRows
        <4>2. repairs[n][h].execution # e
          BY <1>0, <1>6, <4>1 DEF RepairRowOK
        <4>3. repairs'[n][h] = repairs[n][h] /\ revisions'[n] = revisions[n]
          BY <2>0
        <4>4. QED
          BY <1>4, <4>1, <4>2, <4>3 DEF RepairRowOK, Live
      <3>2. QED
        BY <3>1 DEF RepairRows
    <2>4. LiveRepairHoldsRow'
      <3>1. ASSUME NEW i \in Ids', executions'[i].kind = "repair",
                   executions'[i].state \in LiveStates
            PROVE  repairs[executions'[i].mon][executions'[i].rev].execution = i
        <4>1. i # NextId
          BY <1>3, <1>4, <1>6, <3>1
        <4>2. i \in Ids /\ i # e
          BY <1>4, <3>1, <4>1
        <4>3. executions'[i] = executions[i] /\ Live(i)
          BY <1>4, <3>1, <4>2 DEF Live
        <4>4. QED
          BY <3>1, <4>2, <4>3 DEF RepairInv, LiveRepairHoldsRow
      <3>2. QED
        BY <2>0, <3>1 DEF LiveRepairHoldsRow, Live
    <2>5. OneLiveCompile'
      <3> DEFINE Compiling(i) == executions'[i].kind = "compile" /\ executions'[i].state \in LiveStates
      <3>1. ASSUME NEW i \in Ids', Compiling(i)
            PROVE  \/ i \in Ids /\ i # e /\ executions'[i] = executions[i] /\ Live(i)
                   \/ i = NextId /\ executions'[i].mon = m /\ executions[e].kind = "compile"
        BY <1>3, <1>4, <3>1 DEF Live
      <3>2. ASSUME NEW i \in Ids', Compiling(i)
            PROVE  /\ Len(revisions[executions'[i].mon]) = 0
                   /\ \A d \in Ids' : (executions'[d].mon = executions'[i].mon /\ Compiling(d)) => d = i
        <4>1. CASE i = NextId
          <5>1. executions'[i].mon = m /\ executions[e].kind = "compile"
            BY <1>4, <3>1, <3>2, <4>1
          <5>2. /\ Len(revisions[m]) = 0
                /\ \A d \in Ids : (/\ executions[d].mon = m
                                  /\ executions[d].kind = "compile" /\ Live(d)) => d = e
            BY <2>0, <5>1 DEF RepairInv, OneLiveCompile
          <5>3. QED
            BY <3>1, <4>1, <5>1, <5>2
        <4>2. CASE i # NextId
          <5>1. i \in Ids /\ i # e /\ executions'[i] = executions[i] /\ Live(i)
            BY <3>1, <3>2, <4>2
          <5>2. /\ Len(revisions[executions[i].mon]) = 0
                /\ \A d \in Ids : (/\ executions[d].mon = executions[i].mon
                                  /\ executions[d].kind = "compile" /\ Live(d)) => d = i
            BY <3>2, <5>1 DEF RepairInv, OneLiveCompile
          <5>3. ASSUME NEW d \in Ids', executions'[d].mon = executions'[i].mon, Compiling(d)
                PROVE  d = i
            <6>1. CASE d = NextId
              BY <2>0, <3>1, <5>1, <5>2, <5>3, <6>1
            <6>2. CASE d # NextId
              <7>1. d \in Ids /\ executions'[d] = executions[d] /\ Live(d)
                BY <3>1, <5>3, <6>2
              <7>2. QED
                BY <5>1, <5>2, <5>3, <7>1
            <6>3. QED
              BY <6>1, <6>2
          <5>4. QED
            BY <5>1, <5>2, <5>3
        <4>3. QED
          BY <4>1, <4>2
      <3>3. QED
        BY <2>0, <3>2 DEF OneLiveCompile, Live
    <2>6. QED
      BY <2>1, <2>2, <2>3, <2>4, <2>5 DEF RepairInv
  <1>7. QED
    BY <1>5, <1>6

LEMMA RepairInvInit == Init => RepairInv
  <1>1. SUFFICES ASSUME Init PROVE RepairInv
    OBVIOUS
  <1>2. TypeOK
    BY <1>1, TypeInit
  <1>3. /\ \A m \in Monitors : monitors[m].rev = 0 /\ revisions[m] = <<>>
        /\ \A m \in Monitors, g \in Generations :
              repairs[m][g] = [state |-> "none", execution |-> 0, candidate |-> 0]
        /\ executions = <<>>
    BY <1>1 DEF Init, NoRepair
  <1>4. Ids = {} /\ \A m \in Monitors : Len(revisions[m]) = 0
    BY <1>3 DEF Ids
  <1>5. CurrentExists
    <2>1. ASSUME NEW m \in Monitors
          PROVE  /\ monitors[m].rev <= Len(revisions[m])
                 /\ Len(revisions[m]) <= MaxGenerations
                 /\ monitors[m].status = "absent" => Len(revisions[m]) = 0
      <3>1. monitors[m].rev = 0 /\ Len(revisions[m]) = 0
        BY <1>3, <1>4
      <3>2. QED
        BY <3>1, BoundsAssumption
    <2>2. QED
      BY <2>1 DEF CurrentExists
  <1>6. PendingIsNewest
    BY <1>4 DEF PendingIsNewest
  <1>7. RepairRows
    <2>1. ASSUME NEW m \in Monitors, NEW g \in Generations PROVE RepairRowOK(m, g)
      <3>1. ~(g < Len(revisions[m]))
        BY <1>4, BoundsAssumption DEF Generations
      <3>2. /\ repairs[m][g].state = "none" /\ repairs[m][g].execution = 0
            /\ repairs[m][g].candidate = 0
        BY <1>3
      <3>3. QED
        BY <3>1, <3>2 DEF RepairRowOK
    <2>2. QED
      BY <2>1 DEF RepairRows
  <1>8. ExecutionsRunKnownPlans /\ LiveRepairHoldsRow /\ OneLiveCompile
    BY <1>4 DEF ExecutionsRunKnownPlans, LiveRepairHoldsRow, OneLiveCompile
  <1>9. QED
    BY <1>2, <1>5, <1>6, <1>7, <1>8 DEF RepairInv

LEMMA RepairInvNext == RepairInv /\ [Next]_vars => RepairInv'
  <1>1. SUFFICES ASSUME RepairInv, [Next]_vars PROVE RepairInv'
    OBVIOUS
  <1>2. TypeOK'
    BY <1>1, TypeNext DEF RepairInv
  <1>3. CASE UNCHANGED vars
    <2>1. QuietMonitors /\ UNCHANGED <<revisions, repairs, executions>>
      BY <1>3 DEF vars, QuietMonitors
    <2>2. Len(executions) \in Nat
      BY <1>1 DEF RepairInv, TypeOK
    <2>3. CheckStep
      BY <2>1, <2>2 DEF CheckStep, Ids
    <2>4. QED
      BY <1>1, <1>2, <2>3, CheckStepKeepsInv
  <1>4. ASSUME NEW m \in Monitors, OperatorStep(m) PROVE RepairInv'
    <2>1. CASE CreateMonitor(m)
      BY <1>1, <1>2, <2>1, CreateKeepsInv
    <2>2. CASE Pause(m) \/ Resume(m) \/ EnqueueCheck(m)
      BY <1>1, <1>2, <2>2, ScheduleIsCheckStep, CheckStepKeepsInv
    <2>3. ASSUME NEW g \in Generations, ConfirmMonitor(m, g) PROVE RepairInv'
      BY <1>1, <1>2, <2>3, ConfirmKeepsInv
    <2>4. ASSUME NEW g \in Generations, NEW accept \in BOOLEAN, ReviewRevision(m, g, accept)
          PROVE  RepairInv'
      BY <1>1, <1>2, <2>4, ReviewKeepsInv
    <2>5. QED
      BY <1>4, <2>1, <2>2, <2>3, <2>4 DEF OperatorStep
  <1>5. ASSUME NEW m \in Monitors, SchedulerStep(m) PROVE RepairInv'
    BY <1>1, <1>2, <1>5, ScheduleIsCheckStep, CheckStepKeepsInv
  <1>6. ASSUME NEW e \in Ids, GetExecutionInput(e) PROVE RepairInv'
    BY <1>1, <1>2, <1>6, InputKeepsInv
  <1>7. ASSUME NEW e \in Ids, ApplyFailure(e) PROVE RepairInv'
    <2>1. PICK st \in FailureStatus :
             \/ StaleCheckOpensRepair(e, st)
             \/ StaleCheckRecorded(e, st)
             \/ \E class \in FailureClass :
                   \/ FailureRetried(e, st, class)
                   \/ CompileFailed(e, st, class)
                   \/ RepairFailed(e, st, class)
                   \/ CheckFailed(e, st, class)
      BY <1>7 DEF ApplyFailure
    <2>2. CASE StaleCheckOpensRepair(e, st)
      BY <1>1, <1>2, <2>2, StaleCheckKeepsInv
    <2>3. CASE \/ StaleCheckRecorded(e, st)
               \/ \E class \in FailureClass : CompileFailed(e, st, class) \/ CheckFailed(e, st, class)
      BY <1>1, <1>2, <2>3, ResultIsCheckStep, CheckStepKeepsInv
    <2>4. ASSUME NEW class \in FailureClass, FailureRetried(e, st, class) PROVE RepairInv'
      BY <1>1, <1>2, <2>4, ReplacementKeepsInv DEF FailureRetried, Reportable, ShouldRetry
    <2>5. ASSUME NEW class \in FailureClass, RepairFailed(e, st, class) PROVE RepairInv'
      <3>1. st \in {"succeeded", "failed", "blocked", "needs_review"}
        BY DEF FailureStatus
      <3>2. QED
        BY <1>1, <1>2, <2>5, <3>1, GiveUpKeepsInv DEF RepairFailed, Reportable
    <2>6. QED
      BY <2>1, <2>2, <2>3, <2>4, <2>5
  <1>8. ASSUME NEW e \in Ids, ApplyResult(e) PROVE RepairInv'
    <2>1. CASE CompileSucceeded(e)
      BY <1>1, <1>2, <2>1, CompileKeepsInv
    <2>2. ASSUME NEW auto \in AutoPromote, RepairSucceeded(e, auto) PROVE RepairInv'
      BY <1>1, <1>2, <2>2, RepairedKeepsInv, PromoteAssumption
    <2>3. CASE \E obs \in {"none", "miss", "hit"} :
                  OrdinaryCheckSucceeded(e, obs) \/ ConfirmationSucceeded(e, obs)
      BY <1>1, <1>2, <2>3, ResultIsCheckStep, CheckStepKeepsInv
    <2>4. QED
      BY <1>7, <1>8, <2>1, <2>2, <2>3 DEF ApplyResult
  <1>9. ASSUME NEW e \in Ids, SweepRequeues(e) \/ SweepTerminates(e) PROVE RepairInv'
    <2>1. Live(e) /\ "failed" \in FailureStatus
      BY <1>9 DEF SweepRequeues, SweepTerminates, Sweepable, Live, LiveStates, FailureStatus
    <2>2. CASE SweepRequeues(e)
      BY <1>1, <1>2, <2>1, <2>2, ReplacementKeepsInv DEF SweepRequeues
    <2>3. CASE SweepTerminates(e) /\ executions[e].kind # "repair"
      BY <1>1, <1>2, <2>3, ResultIsCheckStep, CheckStepKeepsInv
    <2>4. CASE SweepTerminates(e) /\ executions[e].kind = "repair"
      BY <1>1, <1>2, <2>1, <2>4, GiveUpKeepsInv DEF SweepTerminates
    <2>5. QED
      BY <1>9, <2>2, <2>3, <2>4
  <1>10. QED
    BY <1>1, <1>3, <1>4, <1>5, <1>6, <1>8, <1>9 DEF Next, ExecutionStep

(* The attempts, the generations and the live repairs stay consistent under *)
(* every interleaving of operators, workers and the scheduler.              *)
THEOREM RepairsConsistent == Spec => []RepairInv
  BY RepairInvInit, RepairInvNext, PTL DEF Spec

(* EnqueueCheck, ClaimDueMonitors and applyFailure only ask for plans that  *)
(* an operator confirmed or a repair was promoted to, although Resume makes *)
(* a monitor without any such plan active.                                  *)
THEOREM KnownPlansOnly == Spec => []ExecutionsRunKnownPlans
  <1>1. RepairInv => ExecutionsRunKnownPlans
    BY DEF RepairInv
  <1>2. QED
    BY <1>1, RepairsConsistent, PTL

(* The open attempt of a generation and its live repair execution name each *)
(* other (ApplyResult, SweepStaleExecutions, GetExecutionInput).            *)
THEOREM RepairLeaseHolds == Spec => []RepairLease
  <1>1. ASSUME RepairInv PROVE RepairLease
    <2>1. ASSUME NEW e \in Ids, executions[e].kind = "repair", Live(e)
          PROVE  \E g \in Generations :
                    /\ g = executions[e].rev
                    /\ repairs[executions[e].mon][g].execution = e
                    /\ repairs[executions[e].mon][g].state = executions[e].state
      BY <1>1, <2>1, LiveRepairIsNewest
    <2>2. ASSUME NEW m \in Monitors, NEW g \in Generations, repairs[m][g].state \in LiveStates
          PROVE  \E e \in LiveExecutions(m) :
                    /\ e = repairs[m][g].execution
                    /\ executions[e].kind = "repair" /\ executions[e].rev = g
      <3>1. RepairRowOK(m, g)
        BY <1>1 DEF RepairInv, RepairRows
      <3>2. QED
        BY <2>2, <3>1 DEF RepairRowOK, LiveExecutions, LiveStates
    <2>3. QED
      BY <2>1, <2>2 DEF RepairLease
  <1>2. QED
    BY <1>1, RepairsConsistent, PTL

(* The compare-and-swap of applyPlanResult cannot lose: nothing moves the   *)
(* current revision while a repair of it is in flight.                      *)
THEOREM PromotionNeverStaleHolds == Spec => []PromotionNeverStale
  <1>1. ASSUME RepairInv PROVE PromotionNeverStale
    <2>1. ASSUME NEW e \in Ids, executions[e].kind = "repair", Live(e)
          PROVE  LET m == executions[e].mon IN
                 /\ monitors[m].rev = executions[e].rev
                 /\ Len(revisions[m]) = executions[e].rev
                 /\ \A h \in Generations : ~Reviewable(m, h)
      <3> DEFINE m == executions[e].mon
      <3>1. /\ m \in Monitors /\ executions[e].rev = Len(revisions[m])
            /\ executions[e].rev = monitors[m].rev
        BY <1>1, <2>1, LiveRepairIsNewest
      <3>2. DOMAIN revisions[m] = 1..Len(revisions[m]) /\ Len(revisions[m]) \in Nat
        BY <1>1, <3>1, LenProperties DEF RepairInv, TypeOK
      <3> HIDE DEF m
      <3>3. ASSUME NEW h \in Generations, Reviewable(m, h) PROVE FALSE
        <4>1. h \in 1..Len(revisions[m])
          BY <3>2, <3>3 DEF Reviewable
        <4>2. h = Len(revisions[m]) /\ h > monitors[m].rev
          BY <1>1, <3>1, <3>3, <4>1 DEF RepairInv, PendingIsNewest
        <4>3. QED
          BY <3>1, <3>2, <4>2
      <3>4. QED
        BY <3>1, <3>3 DEF m
    <2>2. QED
      BY <2>1 DEF PromotionNeverStale
  <1>2. QED
    BY <1>1, RepairsConsistent, PTL

-------------------------------------------------------------------------------
(* Action properties. *)

(* Rows of the monitors table after an update that keeps or raises the      *)
(* generation.                                                               *)
Advances == \A n \in Monitors : monitors'[n].rev >= monitors[n].rev

LEMMA AdvancingRow ==
    ASSUME RepairInv, NEW m \in Monitors, NEW row \in Monitor, SetMonitor(m, row),
           row.rev >= monitors[m].rev
    PROVE  Advances
  <1>1. \A n \in Monitors : monitors[n].rev \in Nat
    BY MonitorKnown, BoundsAssumption DEF Generations
  <1>2. TypeOK
    BY DEF RepairInv
  <1>3. QED
    BY <1>1, <1>2, SetMonitorRow DEF Advances

LEMMA QuietAdvances ==
    ASSUME RepairInv, QuietMonitors
    PROVE  Advances
  <1>1. \A n \in Monitors : monitors[n].rev \in Nat
    BY MonitorKnown, BoundsAssumption DEF Generations
  <1>2. QED
    BY <1>1 DEF QuietMonitors, Advances

(* A revision that can be reviewed is newer than the current one. *)
LEMMA ReviewAdvances ==
    ASSUME RepairInv, NEW m \in Monitors, NEW g \in Generations, Reviewable(m, g),
           SetMonitor(m, Activated(m, g))
    PROVE  Advances
  <1>1. TypeOK /\ monitors[m].rev \in Nat /\ g \in Nat
    BY MonitorKnown, BoundsAssumption DEF RepairInv, Generations
  <1>2. g \in 1..Len(revisions[m])
    BY <1>1, LenProperties DEF Reviewable, TypeOK
  <1>3. g > monitors[m].rev
    BY <1>2 DEF RepairInv, PendingIsNewest
  <1>4. Activated(m, g) \in Monitor /\ Activated(m, g).rev = g
    BY <1>1, MonitorRows
  <1>5. QED
    BY <1>1, <1>3, <1>4, AdvancingRow

LEMMA StatusAdvances ==
    ASSUME RepairInv, NEW m \in Monitors, NEW st \in Status, NEW n \in {"null", "later", "due"},
           SetMonitor(m, WithStatus(m, st)) \/ SetMonitor(m, Scheduled(m, st, n))
    PROVE  Advances
  <1>1. TypeOK /\ monitors[m].rev \in Nat
    BY MonitorKnown, BoundsAssumption DEF RepairInv, Generations
  <1>2. /\ WithStatus(m, st) \in Monitor /\ WithStatus(m, st).rev = monitors[m].rev
        /\ Scheduled(m, st, n) \in Monitor /\ Scheduled(m, st, n).rev = monitors[m].rev
    BY <1>1, MonitorRows
  <1>3. QED
    BY <1>1, <1>2, AdvancingRow

LEMMA RepairAdvances ==
    ASSUME RepairInv, NEW e \in Ids, NEW auto \in BOOLEAN, RepairSucceeded(e, auto)
    PROVE  Advances
  <1> DEFINE m == executions[e].mon
             g == Len(revisions[m]) + 1
  <1>1. m \in Monitors /\ TypeOK
    BY ExecutionRow DEF RepairInv
  <1>2. /\ monitors[m].rev <= Len(revisions[m]) /\ Len(revisions[m]) \in Nat
        /\ monitors[m].rev \in Nat
    BY <1>1, MonitorKnown, BoundsAssumption DEF RepairInv, CurrentExists, Generations
  <1>3. g \in Generations /\ g >= monitors[m].rev
    BY <1>2, BoundsAssumption DEF RepairSucceeded, Generations
  <1> HIDE DEF m, g
  <1>4. CASE Promotes(e, auto)
    <2>1. SetMonitor(m, Activated(m, g))
      BY <1>4 DEF RepairSucceeded, m, g
    <2>2. Activated(m, g) \in Monitor /\ Activated(m, g).rev = g
      BY <1>1, <1>3, MonitorRows
    <2>3. QED
      BY <1>1, <1>3, <2>1, <2>2, AdvancingRow
  <1>5. CASE ~Promotes(e, auto)
    BY <1>1, <1>5, StatusAdvances DEF RepairSucceeded, m, g, Status
  <1>6. QED
    BY <1>4, <1>5

(* The plan a monitor runs never goes back to an older generation: what can *)
(* be confirmed, accepted or promoted is always newer.                      *)
THEOREM GenerationMonotone == Spec => GenerationNeverRegresses
  <1>1. ASSUME RepairInv, [Next]_vars
        PROVE  [\A m \in Monitors : monitors'[m].rev >= monitors[m].rev]_vars
    <2>1. CASE UNCHANGED vars
      BY <2>1
    <2>2. ASSUME NEW m \in Monitors, OperatorStep(m) PROVE Advances
      <3>1. CASE CreateMonitor(m)
        BY <1>1, <3>1, StatusAdvances DEF CreateMonitor, Status
      <3>2. CASE Pause(m) \/ Resume(m) \/ EnqueueCheck(m)
        BY <1>1, <3>2, ScheduleIsCheckStep, QuietAdvances DEF CheckStep
      <3>3. ASSUME NEW g \in Generations, ConfirmMonitor(m, g) PROVE Advances
        BY <1>1, <3>3, ReviewAdvances DEF ConfirmMonitor
      <3>4. ASSUME NEW g \in Generations, NEW accept \in BOOLEAN, ReviewRevision(m, g, accept)
            PROVE  Advances
        <4>1. CASE accept
          BY <1>1, <3>4, <4>1, ReviewAdvances DEF ReviewRevision
        <4>2. CASE ~accept
          BY <1>1, <3>4, <4>2, StatusAdvances DEF ReviewRevision, Status
        <4>3. QED
          BY <4>1, <4>2
      <3>5. QED
        BY <2>2, <3>1, <3>2, <3>3, <3>4 DEF OperatorStep
    <2>3. ASSUME NEW m \in Monitors, SchedulerStep(m) PROVE Advances
      BY <1>1, <2>3, ScheduleIsCheckStep, QuietAdvances DEF CheckStep
    <2>4. ASSUME NEW e \in Ids, ExecutionStep(e) PROVE Advances
      <3>0. executions[e].mon \in Monitors
        BY <1>1, ExecutionRow DEF RepairInv
      <3>1. CASE GetExecutionInput(e) \/ SweepRequeues(e)
        BY <1>1, <3>1, QuietAdvances
        DEF GetExecutionInput, SweepRequeues, EnqueueReplacement, QuietMonitors
      <3>2. CASE CompileSucceeded(e)
        BY <1>1, <3>0, <3>2, StatusAdvances DEF CompileSucceeded, Status
      <3>3. ASSUME NEW auto \in AutoPromote, RepairSucceeded(e, auto) PROVE Advances
        BY <1>1, <3>3, RepairAdvances, PromoteAssumption
      <3>4. CASE \/ \E obs \in {"none", "miss", "hit"} :
                       OrdinaryCheckSucceeded(e, obs) \/ ConfirmationSucceeded(e, obs)
                 \/ \E st \in FailureStatus :
                       \/ StaleCheckRecorded(e, st)
                       \/ \E class \in FailureClass :
                             CompileFailed(e, st, class) \/ CheckFailed(e, st, class)
                 \/ SweepTerminates(e) /\ executions[e].kind # "repair"
        BY <1>1, <3>4, ResultIsCheckStep, QuietAdvances DEF CheckStep
      <3>5. ASSUME NEW st \in FailureStatus, StaleCheckOpensRepair(e, st) PROVE Advances
        BY <1>1, <3>0, <3>5, StatusAdvances DEF StaleCheckOpensRepair, Status
      <3>6. CASE RepairGivesUp(e)
        BY <1>1, <3>0, <3>6, StatusAdvances DEF RepairGivesUp, Status
      <3>7. ASSUME NEW st \in FailureStatus, NEW class \in FailureClass,
                   FailureRetried(e, st, class) \/ RepairFailed(e, st, class)
            PROVE  Advances
        <4>1. CASE FailureRetried(e, st, class)
          BY <1>1, <4>1, QuietAdvances DEF FailureRetried, EnqueueReplacement, QuietMonitors
        <4>2. CASE RepairFailed(e, st, class)
          BY <3>6, <4>2 DEF RepairFailed
        <4>3. QED
          BY <3>7, <4>1, <4>2
      <3>8. CASE SweepTerminates(e) /\ executions[e].kind = "repair"
        BY <3>6, <3>8 DEF SweepTerminates
      <3>9. CASE ApplyFailure(e)
        <4>1. PICK st \in FailureStatus :
                 \/ StaleCheckOpensRepair(e, st)
                 \/ StaleCheckRecorded(e, st)
                 \/ \E class \in FailureClass :
                       \/ FailureRetried(e, st, class)
                       \/ CompileFailed(e, st, class)
                       \/ RepairFailed(e, st, class)
                       \/ CheckFailed(e, st, class)
          BY <3>9 DEF ApplyFailure
        <4>2. QED
          BY <3>4, <3>5, <3>7, <4>1
      <3>10. QED
        BY <2>4, <3>1, <3>2, <3>3, <3>4, <3>8, <3>9 DEF ExecutionStep, ApplyResult
    <2>5. QED
      BY <1>1, <2>1, <2>2, <2>3, <2>4 DEF Next, Advances
  <1>2. QED
    BY <1>1, RepairsConsistent, PTL DEF Spec, GenerationNeverRegresses

(* Finished executions keep their rows. *)
FinishedStay == \A j \in Ids : ~Live(j) => executions'[j] = executions[j]

LEMMA FinishingStays ==
    ASSUME TypeOK, NEW e \in Ids, Live(e),
           NEW st \in {"succeeded", "failed", "blocked", "needs_review"},
           NEW obs \in {"none", "miss", "hit"}, NEW x \in Execution,
           \/ executions' = Finished(e, st, obs)
           \/ executions' = Append(Finished(e, st, obs), x)
    PROVE  FinishedStay
  <1> DEFINE ex == Finished(e, st, obs)
  <1>1. executions \in Seq(Execution)
    BY DEF TypeOK
  <1>2. /\ ex \in Seq(Execution) /\ Len(ex) = Len(executions)
        /\ \A j \in Ids : j # e => ex[j] = executions[j]
    BY <1>1, FinishedRow
  <1> HIDE DEF ex
  <1>3. \A j \in Ids : executions'[j] = ex[j]
    <2>1. CASE executions' = ex
      BY <2>1
    <2>2. CASE executions' = Append(ex, x)
      BY <1>2, <2>2, AppendedSeq DEF Ids
    <2>3. QED
      BY <2>1, <2>2 DEF ex
  <1>4. QED
    BY <1>2, <1>3 DEF FinishedStay

LEMMA InsertStays ==
    ASSUME TypeOK, NEW x \in Execution, executions' = Append(executions, x)
    PROVE  FinishedStay
  <1>1. executions \in Seq(Execution)
    BY DEF TypeOK
  <1>2. QED
    BY <1>1, AppendedSeq DEF FinishedStay, Ids

LEMMA ReplacementStays ==
    ASSUME TypeOK, NEW e \in Ids, Live(e), executions[e].attempt < MaxAttempts,
           NEW st \in FailureStatus, EnqueueReplacement(e, Finished(e, st, "none"))
    PROVE  FinishedStay
  <1>1. Replacement(e) \in Execution
    BY ReplacementRow DEF TypeOK
  <1>2. st \in {"succeeded", "failed", "blocked", "needs_review"}
    BY DEF FailureStatus
  <1>3. executions' = Append(Finished(e, st, "none"), Replacement(e))
    BY DEF EnqueueReplacement
  <1>4. QED
    BY <1>1, <1>2, <1>3, FinishingStays

LEMMA ExecutionStays ==
    ASSUME TypeOK, NEW e \in Ids, ExecutionStep(e)
    PROVE  FinishedStay
  <1>0. /\ executions[e].mon \in Monitors /\ executions[e].rev \in {0} \cup Generations
        /\ executions[e] \in Execution /\ e \in Nat /\ executions \in Seq(Execution)
    BY ExecutionRow
  <1>1. CASE GetExecutionInput(e)
    <2>1. /\ Live(e) /\ executions' = [executions EXCEPT ![e].state = "running"]
      BY <1>1 DEF GetExecutionInput, Live, LiveStates
    <2>2. \A j \in Ids : j # e => executions'[j] = executions[j]
      BY <1>0, <2>1 DEF Ids
    <2>3. QED
      BY <2>1, <2>2 DEF FinishedStay
  <1>2. ASSUME Live(e), NEW st \in {"succeeded", "failed", "blocked", "needs_review"},
               NEW obs \in {"none", "miss", "hit"}, executions' = Finished(e, st, obs)
        PROVE  FinishedStay
    BY <1>0, <1>2, FinishingStays
  <1>3. CASE CompileSucceeded(e)
    BY <1>2, <1>3 DEF CompileSucceeded, Reportable
  <1>4. ASSUME NEW auto \in AutoPromote, RepairSucceeded(e, auto) PROVE FinishedStay
    BY <1>2, <1>4 DEF RepairSucceeded, Reportable
  <1>5. ASSUME NEW obs \in {"none", "miss", "hit"}, OrdinaryCheckSucceeded(e, obs)
        PROVE  FinishedStay
    <2> DEFINE x == NewExecution(executions[e].mon, "check", executions[e].rev, 1, e, 0)
    <2>1. x \in Execution
      BY <1>0, NewRow
    <2>2. Live(e) /\ (\/ executions' = Finished(e, "succeeded", obs)
                      \/ executions' = Append(Finished(e, "succeeded", obs), x))
      BY <1>5 DEF OrdinaryCheckSucceeded, Reportable
    <2> HIDE DEF x
    <2>3. "succeeded" \in {"succeeded", "failed", "blocked", "needs_review"}
      OBVIOUS
    <2>4. QED
      BY <2>1, <2>2, <2>3, FinishingStays
  <1>6. ASSUME NEW obs \in {"none", "miss", "hit"}, ConfirmationSucceeded(e, obs)
        PROVE  FinishedStay
    BY <1>2, <1>6 DEF ConfirmationSucceeded, Reportable
  <1>7. CASE ApplyFailure(e)
    <2>1. PICK st \in FailureStatus :
             \/ StaleCheckOpensRepair(e, st)
             \/ StaleCheckRecorded(e, st)
             \/ \E class \in FailureClass :
                   \/ FailureRetried(e, st, class)
                   \/ CompileFailed(e, st, class)
                   \/ RepairFailed(e, st, class)
                   \/ CheckFailed(e, st, class)
      BY <1>7 DEF ApplyFailure
    <2>2. st \in {"succeeded", "failed", "blocked", "needs_review"}
      BY DEF FailureStatus
    <2>3. CASE StaleCheckOpensRepair(e, st)
      <3> DEFINE x == NewExecution(executions[e].mon, "repair", executions[e].rev, 1, 0, 0)
      <3>1. x \in Execution
        BY <1>0, NewRow
      <3>2. Live(e) /\ executions' = Append(Finished(e, st, "none"), x)
        BY <2>3 DEF StaleCheckOpensRepair, Reportable
      <3> HIDE DEF x
      <3>3. QED
        BY <2>2, <3>1, <3>2, FinishingStays
    <2>4. CASE StaleCheckRecorded(e, st)
      BY <1>2, <2>2, <2>4 DEF StaleCheckRecorded, Reportable
    <2>5. ASSUME NEW class \in FailureClass, FailureRetried(e, st, class) PROVE FinishedStay
      BY <2>5, ReplacementStays DEF FailureRetried, Reportable, ShouldRetry
    <2>6. ASSUME NEW class \in FailureClass,
                 \/ CompileFailed(e, st, class) \/ RepairFailed(e, st, class)
                 \/ CheckFailed(e, st, class)
          PROVE  FinishedStay
      BY <1>2, <2>2, <2>6 DEF CompileFailed, RepairFailed, CheckFailed, Reportable
    <2>7. QED
      BY <2>1, <2>3, <2>4, <2>5, <2>6
  <1>8. CASE SweepRequeues(e) \/ SweepTerminates(e)
    <2>1. Live(e) /\ "failed" \in FailureStatus
      BY <1>8 DEF SweepRequeues, SweepTerminates, Sweepable, Live, LiveStates, FailureStatus
    <2>2. CASE SweepRequeues(e)
      BY <2>1, <2>2, ReplacementStays DEF SweepRequeues
    <2>3. CASE SweepTerminates(e)
      BY <1>2, <2>1, <2>3 DEF SweepTerminates
    <2>4. QED
      BY <1>8, <2>2, <2>3
  <1>9. QED
    BY <1>1, <1>3, <1>4, <1>5, <1>6, <1>7, <1>8 DEF ExecutionStep, ApplyResult

(* The row of a finished execution never changes: the terminal guard of     *)
(* ApplyResult and the sweeper's WHERE clause absorb late results.          *)
THEOREM FinishedForGood == Spec => TerminalIsFinal
  <1>1. ASSUME TypeOK, [Next]_vars
        PROVE  [\A e \in Ids : ~Live(e) => executions'[e] = executions[e]]_vars
    <2>1. CASE UNCHANGED vars
      BY <2>1
    <2>3. ASSUME NEW m \in Monitors, OperatorStep(m) \/ SchedulerStep(m)
          PROVE  FinishedStay
      <3>1. CASE CreateMonitor(m)
        <4>1. NewExecution(m, "compile", 0, 1, 0, 0) \in Execution
          BY NewRow
        <4>2. QED
          BY <1>1, <3>1, <4>1, InsertStays DEF CreateMonitor
      <3>2. CASE InsertCheck(m)
        <4>1. monitors[m].rev \in {0} \cup Generations
          BY <1>1 DEF TypeOK, Monitor
        <4>2. NewExecution(m, "check", monitors[m].rev, 1, 0, 0) \in Execution
          BY <4>1, NewRow
        <4>3. QED
          BY <1>1, <3>2, <4>2, InsertStays DEF InsertCheck
      <3>3. CASE UNCHANGED executions
        BY <3>3 DEF FinishedStay
      <3>4. QED
        BY <2>3, <3>1, <3>2, <3>3
        DEF OperatorStep, SchedulerStep, Pause, Resume, EnqueueCheck, ConfirmMonitor,
            ReviewRevision, NextRunArrives, SnapshotDue, ClaimDue, SkipDue
    <2>4. ASSUME NEW e \in Ids, ExecutionStep(e) PROVE FinishedStay
      BY <1>1, <2>4, ExecutionStays
    <2>5. QED
      BY <1>1, <2>1, <2>3, <2>4, SMTT(60) DEF Next, FinishedStay
  <1>2. QED
    BY <1>1, TypeCorrect, PTL DEF Spec, TerminalIsFinal

===============================================================================
