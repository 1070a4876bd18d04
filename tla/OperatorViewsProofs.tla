-------------------------- MODULE OperatorViewsProofs --------------------------
(***************************************************************************)
(* Proofs about OperatorViews: the monitor page is never a dead end, and    *)
(* what the review page guesses from generation numbers and from the kinds  *)
(* of executions is right.                                                   *)
(***************************************************************************)
EXTENDS OperatorViews, LifecycleProofs

(* A greatest number is the one that Highest chooses. *)
LEMMA HighestIs ==
    ASSUME NEW S \in SUBSET Nat, NEW g \in S, \A h \in S : h <= g
    PROVE  Highest(S) = g
  <1>1. \E x \in S : \A h \in S : h <= x
    OBVIOUS
  <1>2. PICK x \in S : x = Highest(S) /\ \A h \in S : h <= x
    BY <1>1 DEF Highest
  <1>3. x <= g /\ g <= x /\ x \in Nat /\ g \in Nat
    BY <1>2
  <1>4. QED
    BY <1>2, <1>3

-------------------------------------------------------------------------------
(* The monitor page. *)

(* A monitor awaits confirmation of its first and only generation. *)
FirstPlanAwaits(m) ==
    monitors[m].status = "awaiting_confirmation" =>
        /\ monitors[m].rev = 0 /\ Len(revisions[m]) = 1
        /\ revisions[m][1] = "awaiting_confirmation"

FirstPlansAwait == \A m \in Monitors : FirstPlanAwaits(m)

PanelInv == RepairInv /\ CompilingInv /\ FirstPlansAwait

(* The transactions that write revisions. *)
RevisionStep(m) ==
    \/ \E g \in Generations : ConfirmMonitor(m, g)
    \/ \E g \in Generations, accept \in BOOLEAN : ReviewRevision(m, g, accept)
    \/ \E e \in Ids : executions[e].mon = m /\ CompileSucceeded(e)
    \/ \E e \in Ids, auto \in AutoPromote : executions[e].mon = m /\ RepairSucceeded(e, auto)

LEMMA RevisionsChange ==
    ASSUME TypeOK, Next
    PROVE  revisions' = revisions \/ \E m \in Monitors : RevisionStep(m)
  <1>1. ASSUME NEW m \in Monitors, OperatorStep(m) \/ SchedulerStep(m)
        PROVE  revisions' = revisions \/ RevisionStep(m)
    BY <1>1
    DEF RevisionStep, OperatorStep, SchedulerStep, CreateMonitor, Pause, Resume, EnqueueCheck,
        NextRunArrives, SnapshotDue, ClaimDue, SkipDue
  <1>2. ASSUME NEW e \in Ids, ApplyFailure(e) PROVE revisions' = revisions
    BY <1>2
    DEF ApplyFailure, StaleCheckOpensRepair, StaleCheckRecorded, FailureRetried,
        EnqueueReplacement, CompileFailed, RepairFailed, RepairGivesUp, CheckFailed
  <1>3. ASSUME NEW e \in Ids, ExecutionStep(e)
        PROVE  revisions' = revisions \/ RevisionStep(executions[e].mon)
    BY <1>2, <1>3
    DEF RevisionStep, ExecutionStep, GetExecutionInput, ApplyResult, OrdinaryCheckSucceeded,
        ConfirmationSucceeded, SweepRequeues, SweepTerminates, EnqueueReplacement, RepairGivesUp
  <1>4. \A e \in Ids : executions[e].mon \in Monitors
    BY ExecutionRow
  <1>5. QED
    BY <1>1, <1>3, <1>4 DEF Next

(* A transaction that writes revisions leaves other monitors alone, and     *)
(* gives its own another status unless it adds the first generation.        *)
LEMMA RevisionStepRows ==
    ASSUME TypeOK, NEW m \in Monitors, RevisionStep(m)
    PROVE  /\ \A n \in Monitors : n # m => monitors'[n] = monitors[n] /\ revisions'[n] = revisions[n]
           /\ \/ monitors'[m].status \in {"active", "blocked", "needs_review"}
              \/ \E e \in Ids : executions[e].mon = m /\ CompileSucceeded(e)
  <1>1. (\E row : SetMonitor(m, row)) /\ \E s : revisions' = [revisions EXCEPT ![m] = s]
    BY DEF RevisionStep, ConfirmMonitor, ReviewRevision, CompileSucceeded, RepairSucceeded
  <1>2. \A n \in Monitors : n # m => monitors'[n] = monitors[n] /\ revisions'[n] = revisions[n]
    BY <1>1 DEF SetMonitor, TypeOK
  <1>3. ASSUME NEW st \in {"active", "blocked", "needs_review"}, SetMonitor(m, WithStatus(m, st))
        PROVE  monitors'[m].status = st
    <2>1. PICK row \in Monitor : row = WithStatus(m, st) /\ row.status = st
      BY NewRows DEF Status
    <2>2. QED
      BY <1>3, <2>1, SetMonitorRow
  <1>4. ASSUME NEW g \in Generations, SetMonitor(m, Activated(m, g))
        PROVE  monitors'[m].status = "active"
    <2>1. PICK row \in Monitor : row = Activated(m, g) /\ row.status = "active"
      BY NewRows
    <2>2. QED
      BY <1>4, <2>1, SetMonitorRow
  <1>5. ASSUME NEW g \in Generations, ConfirmMonitor(m, g) PROVE monitors'[m].status = "active"
    BY <1>4, <1>5 DEF ConfirmMonitor
  <1>6. ASSUME NEW g \in Generations, NEW accept \in BOOLEAN, ReviewRevision(m, g, accept)
        PROVE  monitors'[m].status \in {"active", "blocked"}
    <2>1. CASE accept
      BY <1>4, <1>6, <2>1 DEF ReviewRevision
    <2>2. CASE ~accept
      BY <1>3, <1>6, <2>2 DEF ReviewRevision
    <2>3. QED
      BY <2>1, <2>2
  <1>7. ASSUME NEW e \in Ids, NEW auto \in AutoPromote, executions[e].mon = m, RepairSucceeded(e, auto)
        PROVE  monitors'[m].status \in {"active", "needs_review"}
    <2>1. Len(revisions[m]) + 1 \in Generations
      <3>1. Len(revisions[m]) \in Nat
        BY DEF TypeOK
      <3>2. QED
        BY <1>7, <3>1, BoundsAssumption DEF RepairSucceeded, Generations
    <2>2. CASE Promotes(e, auto)
      BY <1>4, <1>7, <2>1, <2>2 DEF RepairSucceeded
    <2>3. CASE ~Promotes(e, auto)
      BY <1>3, <1>7, <2>3 DEF RepairSucceeded
    <2>4. QED
      BY <2>2, <2>3
  <1>8. QED
    BY <1>2, <1>5, <1>6, <1>7 DEF RevisionStep

(* The first plan of a monitor. *)
LEMMA FirstPlan ==
    ASSUME RepairInv, NEW m \in Monitors, NEW e \in Ids, executions[e].mon = m, CompileSucceeded(e)
    PROVE  FirstPlanAwaits(m)'
  <1>1. TypeOK /\ "awaiting_confirmation" \in RevisionState
    BY DEF RepairInv, RevisionState
  <1>2. /\ executions[e].kind = "compile" /\ Live(e)
        /\ revisions' = [revisions EXCEPT ![m] = Append(@, "awaiting_confirmation")]
        /\ SetMonitor(m, WithStatus(m, "awaiting_confirmation"))
    BY DEF CompileSucceeded, Reportable
  <1>3. Len(revisions[m]) = 0
    BY <1>2 DEF RepairInv, OneLiveCompile
  <1>4. monitors[m].rev = 0
    BY <1>1, <1>3, MonitorKnown, BoundsAssumption DEF RepairInv, CurrentExists, Generations
  <1>5. monitors'[m].rev = 0
    BY <1>1, <1>2, <1>4, MonitorRows, SetMonitorRow DEF Status
  <1>6. revisions'[m] = Append(revisions[m], "awaiting_confirmation") /\ revisions[m] \in Seq(RevisionState)
    BY <1>1, <1>2 DEF TypeOK
  <1>7. Len(revisions'[m]) = 1 /\ revisions'[m][1] = "awaiting_confirmation"
    BY <1>1, <1>3, <1>6, AppendedSeq
  <1>8. QED
    BY <1>5, <1>7 DEF FirstPlanAwaits

LEMMA FirstPlansNext == PanelInv /\ [Next]_vars => FirstPlansAwait'
  <1> SUFFICES ASSUME PanelInv, [Next]_vars, NEW m \in Monitors PROVE FirstPlanAwaits(m)'
    BY DEF FirstPlansAwait
  <1>1. RepairInv /\ TypeOK /\ FirstPlanAwaits(m)
    BY DEF PanelInv, RepairInv, FirstPlansAwait
  <1>2. ASSUME NEW e \in Ids, CompileSucceeded(e), executions[e].mon = m PROVE FirstPlanAwaits(m)'
    BY <1>1, <1>2, FirstPlan
  <1>3. CASE monitors'[m].status # "awaiting_confirmation"
    BY <1>3 DEF FirstPlanAwaits
  <1>4. CASE monitors'[m] = monitors[m] /\ revisions'[m] = revisions[m]
    BY <1>1, <1>4 DEF FirstPlanAwaits
  <1>5. CASE Next
    <2>1. CASE \E n \in Monitors : RevisionStep(n)
      BY <1>1, <1>2, <1>3, <1>4, <2>1, RevisionStepRows
    <2>2. CASE revisions' = revisions
      <3>1. MonitorEvolves(m)
        BY <1>1, <1>5, MonitorsEvolve
      <3>2. CASE CreateMonitor(m)
        <4>1. PICK row \in Monitor : row = WithStatus(m, "compiling") /\ row.status = "compiling"
          BY <1>1, NewRows DEF Status
        <4>2. monitors'[m].status = "compiling"
          BY <1>1, <3>2, <4>1, SetMonitorRow DEF CreateMonitor
        <4>3. QED
          BY <1>3, <4>2
      <3>3. ASSUME NEW g \in Generations, ReviewRevision(m, g, FALSE) PROVE FirstPlanAwaits(m)'
        BY <1>1, <1>2, <1>3, <3>3, RevisionStepRows DEF RevisionStep
      <3>4. CASE \/ Untouched(monitors[m], monitors'[m])
                 \/ OutOfService(monitors'[m])
                 \/ HasNextRun(monitors[m], monitors'[m])
        BY <1>1, <2>2, <3>4 DEF Untouched, OutOfService, HasNextRun, FirstPlanAwaits
      <3>5. QED
        BY <1>2, <3>1, <3>2, <3>3, <3>4 DEF MonitorEvolves
    <2>3. QED
      BY <1>1, <1>5, <2>1, <2>2, RevisionsChange
  <1>6. CASE UNCHANGED vars
    BY <1>4, <1>6 DEF vars
  <1>7. QED
    BY <1>5, <1>6

(* A monitor with a plan is in no status without buttons, and the revision  *)
(* that the panel of a monitor without one offers is its only generation.   *)
LEMMA PanelHasButtons == PanelInv => NoDeadEnd
  <1> SUFFICES ASSUME PanelInv, NEW m \in Monitors
               PROVE  /\ monitors[m].status = "awaiting_confirmation" =>
                            ConfirmationPanel(m) /\ Reviewable(m, latestCandidate(m))
                      /\ monitors[m].rev # 0 => togglePauseEnabled(m)
    BY DEF NoDeadEnd
  <1>1. RepairInv /\ TypeOK /\ FirstPlanAwaits(m) /\ revisions[m] \in Seq(RevisionState)
    BY DEF PanelInv, FirstPlansAwait, RepairInv, TypeOK
  <1>2. ASSUME monitors[m].status = "awaiting_confirmation"
        PROVE  ConfirmationPanel(m) /\ Reviewable(m, latestCandidate(m))
    <2>1. Len(revisions[m]) = 1 /\ revisions[m][1] = "awaiting_confirmation"
      BY <1>1, <1>2 DEF FirstPlanAwaits
    <2>2. PICK S \in SUBSET Nat : S = Unactivated(m) /\ S = {1}
      BY <2>1 DEF Unactivated, Generated
    <2>3. latestCandidate(m) = 1
      BY <2>2, HighestIs DEF latestCandidate
    <2>4. 1 \in DOMAIN revisions[m]
      BY <1>1, <2>1, LenProperties
    <2>5. QED
      BY <1>2, <2>1, <2>2, <2>3, <2>4 DEF ConfirmationPanel, Reviewable
  <1>3. ASSUME monitors[m].rev # 0 PROVE togglePauseEnabled(m)
    <2>1. monitors[m].status # "awaiting_confirmation"
      BY <1>1, <1>3 DEF FirstPlanAwaits
    <2>2. ASSUME monitors[m].status = "compiling" PROVE FALSE
      <3>1. PICK e \in Ids : executions[e].mon = m /\ Live(e) /\ executions[e].kind = "compile"
        BY <2>2 DEF PanelInv, CompilingInv, CompilingHasWork, LiveExecutions
      <3>2. Len(revisions[m]) = 0
        BY <1>1, <3>1 DEF RepairInv, OneLiveCompile
      <3>3. QED
        BY <1>1, <1>3, <3>2, MonitorKnown, BoundsAssumption DEF RepairInv, CurrentExists, Generations
    <2>3. QED
      BY <2>1, <2>2 DEF togglePauseEnabled
  <1>4. QED
    BY <1>2, <1>3

(* The page of a monitor is never a dead end: whatever operators, workers   *)
(* and the scheduler did, the confirmation panel of a new monitor offers a  *)
(* revision that ConfirmMonitor accepts, and a monitor with a plan can be   *)
(* paused or resumed.                                                        *)
THEOREM MonitorPageHasAWayOn == Spec => []NoDeadEnd
  <1>1. Init => PanelInv
    <2> SUFFICES ASSUME Init PROVE PanelInv
      OBVIOUS
    <2>1. RepairInv /\ TypeOK /\ \A m \in Monitors : monitors[m].status = "absent"
      BY RepairInvInit, TypeInit DEF Init
    <2>2. QED
      BY <2>1 DEF PanelInv, CompilingInv, CompilingHasWork, FirstPlansAwait, FirstPlanAwaits
  <1>2. PanelInv /\ [Next]_vars => PanelInv'
    BY RepairInvNext, CompilingNext, FirstPlansNext DEF PanelInv
  <1>3. QED
    BY <1>1, <1>2, PanelHasButtons, PTL DEF Spec

-------------------------------------------------------------------------------
(* The review page. *)

(* What waits for review follows the current generation. *)
PendingFollows ==
    \A m \in Monitors : \A g \in 2..Len(revisions[m]) :
        Reviewable(m, g) => monitors[m].rev = g - 1

(* The candidate of a repair is the next generation and was made by the     *)
(* execution that the attempt names; ...                                     *)
CandidateRows ==
    \A m \in Monitors, h \in Generations : repairs[m][h].candidate # 0 =>
        /\ repairs[m][h].candidate = h + 1
        /\ executions[repairs[m][h].execution].state = "succeeded"

(* ... every repair that succeeded is named by the attempt of its           *)
(* generation; ...                                                           *)
SucceededRows ==
    \A e \in Ids : executions[e].kind = "repair" /\ executions[e].state = "succeeded" =>
        repairs[executions[e].mon][executions[e].rev].execution = e

(* ... and generations are repaired one after the other. *)
RowsAscend ==
    \A m \in Monitors : \A h, k \in Generations :
        h < k /\ repairs[m][h].execution # 0 /\ repairs[m][k].execution # 0 =>
            repairs[m][h].execution < repairs[m][k].execution

EvidenceInv == CandidateRows /\ SucceededRows /\ RowsAscend

ReviewInv == RepairInv /\ PendingFollows /\ EvidenceInv

(* The review of a repair compares it with the current plan and shows the   *)
(* evidence of the repair itself.                                            *)
LEMMA ReviewShows == ReviewInv => ReviewShowsItsCandidate
  <1> SUFFICES ASSUME ReviewInv, NEW m \in Monitors, NEW g \in Generated(m), Reviewable(m, g), g > 1
               PROVE  /\ previous(m, g) = monitors[m].rev
                      /\ \A h \in Generations : repairs[m][h].candidate = g =>
                            repairs[m][h].execution = candidateExecution(m, g)
    BY DEF ReviewShowsItsCandidate
  <1>1. RepairInv /\ TypeOK /\ Len(revisions[m]) \in Nat /\ Len(executions) \in Nat
    BY DEF ReviewInv, RepairInv, TypeOK
  <1>2. g \in 2..Len(revisions[m]) /\ g \in Nat /\ g - 1 \in Nat
    BY <1>1 DEF Generated
  <1>3. monitors[m].rev = g - 1
    BY <1>2 DEF ReviewInv, PendingFollows
  <1>4. previous(m, g) = g - 1
    <2>0. \A h \in Lower(m, g) : h \in Nat
      BY <1>1 DEF Lower, Generated
    <2>1. PICK S \in SUBSET Nat : S = Lower(m, g)
      BY <2>0
    <2>2. g - 1 \in S /\ \A h \in S : h <= g - 1
      BY <1>1, <1>2, <2>1 DEF Lower, Generated
    <2>3. QED
      BY <1>2, <2>1, <2>2, HighestIs DEF previous
  <1>5. ASSUME NEW h \in Generations, repairs[m][h].candidate = g
        PROVE  repairs[m][h].execution = candidateExecution(m, g)
    <2> DEFINE x == repairs[m][h].execution
    <2>1. h = g - 1 /\ executions[x].state = "succeeded" /\ h \in Nat
      BY <1>2, <1>5, BoundsAssumption DEF ReviewInv, EvidenceInv, CandidateRows, Generations
    <2>2. /\ x \in Ids /\ executions[x].mon = m /\ executions[x].kind = "repair" /\ x \in Nat
      <3>1. RepairRowOK(m, h) /\ repairs[m][h].candidate # 0
        BY <1>1, <1>2, <1>5 DEF RepairInv, RepairRows
      <3>2. QED
        BY <1>1, <3>1 DEF RepairRowOK, RepairDone, Ids
    <2>3. x \in Evidence(m, g)
      BY <1>2, <2>1, <2>2 DEF Evidence, source
    <2>4. ASSUME NEW e \in Evidence(m, g) PROVE e \in Nat /\ e <= x
      <3>1. /\ e \in Ids /\ e \in Nat /\ e # 0 /\ executions[e].mon = m /\ executions[e].kind = "repair"
            /\ executions[e].state = "succeeded"
        BY <1>1, <1>2, <2>4 DEF Evidence, source, Ids
      <3>2. PICK k : k = executions[e].rev
        OBVIOUS
      <3>3. k \in 1..(g - 1) /\ k \in Generations
        BY <1>1, <1>2, <1>3, <2>1, <3>1, <3>2, BoundsAssumption
        DEF RepairInv, ExecutionsRunKnownPlans, Generations
      <3>4. repairs[m][k].execution = e
        BY <3>1, <3>2 DEF ReviewInv, EvidenceInv, SucceededRows
      <3>5. CASE k = h
        BY <3>1, <3>4, <3>5
      <3>6. CASE k < h
        <4>1. x # 0
          BY <1>1, <2>2 DEF Ids
        <4>2. e < x
          BY <3>1, <3>3, <3>4, <3>6, <4>1 DEF ReviewInv, EvidenceInv, RowsAscend
        <4>3. QED
          BY <2>2, <3>1, <4>2
      <3>7. QED
        BY <2>1, <3>3, <3>5, <3>6
    <2> HIDE DEF x
    <2>5. PICK S \in SUBSET Nat : S = Evidence(m, g)
      BY <2>4
    <2>6. x \in S /\ \A e \in S : e <= x
      BY <2>3, <2>4, <2>5
    <2>7. QED
      BY <2>5, <2>6, HighestIs DEF candidateExecution, x
  <1>6. QED
    BY <1>3, <1>4, <1>5

(* How an attempt changes: it stays with its execution or, at the newest    *)
(* generation, is opened for or handed over to the execution inserted.      *)
RowMoves(n, h) ==
    /\ \/ repairs'[n][h].execution = repairs[n][h].execution
       \/ /\ repairs'[n][h].execution = NextId /\ h = Len(revisions[n])
          /\ repairs[n][h].execution = 0 \/ Live(repairs[n][h].execution)
    /\ \/ repairs'[n][h].candidate = repairs[n][h].candidate
       \/ repairs'[n][h].candidate = 0
       \/ /\ repairs'[n][h].candidate = h + 1
          /\ executions'[repairs'[n][h].execution].state = "succeeded"

RepairSucceeds(j) ==
    /\ executions[j].kind = "repair" /\ executions[j].state # "succeeded"
    /\ executions'[j].state = "succeeded"

AttemptsMove ==
    /\ Evolves
    /\ \A n \in Monitors, h \in Generations : RowMoves(n, h)
    /\ \A j \in Ids : RepairSucceeds(j) =>
          repairs'[executions[j].mon][executions[j].rev].execution = j

LEMMA EvidenceKept ==
    ASSUME RepairInv, EvidenceInv, AttemptsMove
    PROVE  EvidenceInv'
  <1>1. /\ TypeOK /\ Evolves /\ Len(executions) \in Nat
        /\ \A n \in Monitors, h \in Generations : RowMoves(n, h)
        /\ Ids \subseteq Ids' /\ (\A j \in Ids' : j \in Ids \/ j = NextId)
    BY OldRows DEF RepairInv, AttemptsMove
  <1>2. \A j \in Ids : Identity(executions'[j], executions[j])
    BY <1>1 DEF Evolves
  <1>3. \A j \in Ids : executions[j].state = "succeeded" => executions'[j] = executions[j]
    BY <1>1 DEF Evolves, Live, LiveStates
  <1>4. ASSUME NEW n \in Monitors, NEW h \in Generations, repairs[n][h].execution # 0
        PROVE  /\ repairs[n][h].execution \in Ids
               /\ executions[repairs[n][h].execution].rev = h /\ h <= Len(revisions[n])
    <2>1. PICK x : x = repairs[n][h].execution
      OBVIOUS
    <2>2. RepairRowOK(n, h)
      BY DEF RepairInv, RepairRows
    <2>3. x \in Ids /\ executions[x].mon = n /\ executions[x].kind = "repair" /\ executions[x].rev = h
      BY <1>4, <2>1, <2>2 DEF RepairRowOK
    <2>4. h \in 1..monitors[n].rev /\ monitors[n].rev <= Len(revisions[n])
      BY <2>3 DEF RepairInv, ExecutionsRunKnownPlans, CurrentExists
    <2>5. monitors[n].rev \in Nat /\ Len(revisions[n]) \in Nat /\ h \in Nat
      BY <1>1, MonitorKnown, BoundsAssumption DEF TypeOK, Generations
    <2>6. QED
      BY <2>1, <2>3, <2>4, <2>5
  <1>5. CandidateRows'
    <2> SUFFICES ASSUME NEW n \in Monitors, NEW h \in Generations, repairs'[n][h].candidate # 0
                 PROVE  /\ repairs'[n][h].candidate = h + 1
                        /\ executions'[repairs'[n][h].execution].state = "succeeded"
      BY DEF CandidateRows
    <2>1. RowMoves(n, h) /\ RepairRowOK(n, h)
      BY <1>1 DEF RepairInv, RepairRows
    <2>2. CASE repairs'[n][h].candidate = repairs[n][h].candidate
      <3>1. PICK x : x = repairs[n][h].execution
        OBVIOUS
      <3>2. /\ repairs[n][h].candidate = h + 1 /\ executions[x].state = "succeeded"
            /\ x \in Ids /\ x # 0
        BY <2>1, <2>2, <3>1 DEF EvidenceInv, CandidateRows, RepairRowOK, RepairDone
      <3>3. repairs'[n][h].execution = x
        BY <2>1, <3>1, <3>2 DEF RowMoves, Live, LiveStates
      <3>4. QED
        BY <1>3, <2>2, <3>2, <3>3
    <2>3. QED
      BY <2>1, <2>2 DEF RowMoves
  <1>6. SucceededRows'
    <2> SUFFICES ASSUME NEW e \in Ids', executions'[e].kind = "repair",
                        executions'[e].state = "succeeded"
                 PROVE  repairs'[executions'[e].mon][executions'[e].rev].execution = e
      BY DEF SucceededRows
    <2>1. e \in Ids
      <3>1. ASSUME e = NextId PROVE executions'[e].state = "queued"
        <4>1. Len(executions') # Len(executions)
          BY <1>1, <3>1 DEF Ids, NextId
        <4>2. QED
          BY <1>1, <3>1, <4>1 DEF Evolves
      <3>2. QED
        BY <1>1, <3>1
    <2>2. PICK n, h : n = executions[e].mon /\ h = executions[e].rev
      OBVIOUS
    <2>3. executions'[e].mon = n /\ executions'[e].rev = h /\ executions[e].kind = "repair"
      BY <1>2, <2>1, <2>2 DEF Identity
    <2>4. CASE executions[e].state # "succeeded"
      BY <2>1, <2>2, <2>3, <2>4 DEF AttemptsMove, RepairSucceeds
    <2>5. CASE executions[e].state = "succeeded"
      <3>1. repairs[n][h].execution = e
        BY <2>1, <2>2, <2>3, <2>5 DEF EvidenceInv, SucceededRows
      <3>2. n \in Monitors /\ h \in 1..monitors[n].rev
        BY <1>1, <2>1, <2>2, <2>3, ExecutionRow DEF RepairInv, ExecutionsRunKnownPlans
      <3>3. h \in Generations
        BY <1>1, <2>1, <2>2, <3>2, ExecutionRow, BoundsAssumption DEF Generations
      <3>4. RowMoves(n, h) /\ e # 0 /\ ~Live(e)
        BY <1>1, <2>1, <2>5, <3>2, <3>3 DEF Ids, Live, LiveStates
      <3>5. QED
        BY <2>3, <3>1, <3>4 DEF RowMoves
    <2>6. QED
      BY <2>4, <2>5
  <1>7. RowsAscend'
    <2> SUFFICES ASSUME NEW n \in Monitors, NEW h \in Generations, NEW k \in Generations, h < k,
                        repairs'[n][h].execution # 0, repairs'[n][k].execution # 0
                 PROVE  repairs'[n][h].execution < repairs'[n][k].execution
      BY DEF RowsAscend
    <2>1. RowMoves(n, h) /\ RowMoves(n, k) /\ Len(revisions[n]) \in Nat /\ h \in Nat /\ k \in Nat
      BY <1>1, BoundsAssumption DEF TypeOK, Generations
    <2>2. CASE /\ repairs'[n][h].execution = repairs[n][h].execution
               /\ repairs'[n][k].execution = repairs[n][k].execution
      BY <2>2 DEF EvidenceInv, RowsAscend
    <2>3. CASE /\ repairs'[n][h].execution = repairs[n][h].execution
               /\ repairs'[n][k].execution = NextId
      <3>1. repairs[n][h].execution \in Ids
        BY <1>4, <2>3
      <3>2. QED
        BY <1>1, <2>3, <3>1 DEF Ids, NextId
    <2>4. CASE h = Len(revisions[n])
      <3>1. repairs'[n][k].execution = repairs[n][k].execution
        BY <2>1, <2>4 DEF RowMoves
      <3>2. QED
        BY <1>4, <2>1, <2>4, <3>1
    <2>5. QED
      BY <2>1, <2>2, <2>3, <2>4 DEF RowMoves
  <1>8. QED
    BY <1>5, <1>6, <1>7 DEF EvidenceInv

(* The state a result or a sweep gives to its execution. *)
LEMMA FinishedState ==
    ASSUME TypeOK, NEW e \in Ids, NEW st \in FinalStates, NEW x \in Execution,
           \/ executions' = Finished(e, st, "none")
           \/ executions' = Append(Finished(e, st, "none"), x)
    PROVE  executions'[e].state = st
  <1>1. PICK done \in Seq(Execution) : /\ done = Finished(e, st, "none")
                                       /\ Len(done) = Len(executions) /\ done[e].state = st
    BY FinishedRow DEF TypeOK, FinalStates
  <1>2. CASE executions' = done
    BY <1>1, <1>2
  <1>3. CASE executions' = Append(done, x)
    BY <1>1, <1>3, AppendedSeq DEF Ids
  <1>4. QED
    BY <1>1, <1>2, <1>3

(* Steps in which no attempt changes hands and no repair succeeds. *)
LEMMA AttemptsStay ==
    ASSUME Evolves,
           \A n \in Monitors, h \in Generations :
              /\ repairs'[n][h].execution = repairs[n][h].execution
              /\ repairs'[n][h].candidate = repairs[n][h].candidate,
           \A j \in Ids : ~RepairSucceeds(j)
    PROVE  AttemptsMove
  BY DEF AttemptsMove, RowMoves

LEMMA CheckAttempts ==
    ASSUME RepairInv, Evolves, CheckStep
    PROVE  AttemptsMove
  BY AttemptsStay DEF CheckStep, RepairSucceeds

LEMMA OperatorAttempts ==
    ASSUME RepairInv, Evolves, NEW m \in Monitors, OperatorStep(m)
    PROVE  AttemptsMove
  <1>1. TypeOK /\ repairs \in [Monitors -> [Generations -> RepairAttempt]]
    BY DEF RepairInv, TypeOK
  <1>2. \A j \in Ids : ~RepairSucceeds(j)
    BY <1>1, OtherStepsStay DEF RepairSucceeds
  <1>3. CASE repairs' = repairs
    BY <1>2, <1>3, AttemptsStay
  <1>4. ASSUME NEW g \in Generations, NEW accept \in BOOLEAN, ReviewRevision(m, g, accept),
               NEW n \in Monitors, NEW h \in Generations
        PROVE  /\ repairs'[n][h].execution = repairs[n][h].execution
               /\ repairs'[n][h].candidate = repairs[n][h].candidate
    <2>1. PICK r \in RepairAttempt : r = repairs[n][h]
      BY <1>1
    <2>2. \/ repairs'[n][h] = r
          \/ \E st : repairs'[n][h] = [r EXCEPT !.state = st]
      BY <1>1, <1>4, <2>1 DEF ReviewRevision
    <2>3. \A st : /\ [r EXCEPT !.state = st].execution = r.execution
                  /\ [r EXCEPT !.state = st].candidate = r.candidate
      BY DEF RepairAttempt
    <2>4. QED
      BY <2>1, <2>2, <2>3
  <1>5. CASE \E g \in Generations, accept \in BOOLEAN : ReviewRevision(m, g, accept)
    BY <1>2, <1>4, <1>5, AttemptsStay
  <1>6. QED
    BY <1>3, <1>5
    DEF OperatorStep, CreateMonitor, Pause, Resume, EnqueueCheck, ConfirmMonitor

LEMMA InputAttempts ==
    ASSUME RepairInv, NEW e \in Ids, GetExecutionInput(e)
    PROVE  AttemptsMove
  <1>1. /\ TypeOK /\ repairs \in [Monitors -> [Generations -> RepairAttempt]]
        /\ executions \in Seq(Execution) /\ executions[e] \in Execution
    BY ExecutionRow DEF RepairInv, TypeOK
  <1>2. Moves(e)
    BY <1>1, ExecutionEvolves DEF ExecutionStep
  <1>3. executions'[e].state = "running"
    <2>1. executions' = [executions EXCEPT ![e].state = "running"]
      BY DEF GetExecutionInput
    <2>2. QED
      BY <1>1, <2>1 DEF Execution, Ids
  <1>4. \A j \in Ids : ~RepairSucceeds(j)
    BY <1>2, <1>3 DEF Moves, RepairSucceeds
  <1>5. ASSUME NEW n \in Monitors, NEW h \in Generations
        PROVE  /\ repairs'[n][h].execution = repairs[n][h].execution
               /\ repairs'[n][h].candidate = repairs[n][h].candidate
    <2>1. PICK r \in RepairAttempt : r = repairs[n][h]
      BY <1>1
    <2>2. repairs'[n][h] = r \/ repairs'[n][h] = [r EXCEPT !.state = "running"]
      BY <1>1, <2>1 DEF GetExecutionInput
    <2>3. /\ [r EXCEPT !.state = "running"].execution = r.execution
          /\ [r EXCEPT !.state = "running"].candidate = r.candidate
      BY DEF RepairAttempt
    <2>4. QED
      BY <2>1, <2>2, <2>3
  <1>6. QED
    BY <1>2, <1>4, <1>5, AttemptsStay DEF Moves

LEMMA CompileAttempts ==
    ASSUME RepairInv, NEW e \in Ids, CompileSucceeded(e)
    PROVE  AttemptsMove
  <1>1. TypeOK /\ executions[e].kind = "compile" /\ repairs' = repairs
    BY DEF RepairInv, CompileSucceeded
  <1>2. Moves(e)
    BY <1>1, ExecutionEvolves DEF ExecutionStep, ApplyResult
  <1>3. \A j \in Ids : ~RepairSucceeds(j)
    BY <1>1, <1>2 DEF Moves, RepairSucceeds
  <1>4. QED
    BY <1>1, <1>2, <1>3, AttemptsStay DEF Moves

(* A step of a live repair that rewrites its attempt. *)
LEMMA RewrittenAttempt ==
    ASSUME RepairInv, NEW e \in Ids, Moves(e), Live(e), executions[e].kind = "repair", NEW row,
           repairs' = SetRepair(executions[e].mon, e, row),
           row.execution = e \/ (row.execution = NextId /\ executions'[e].state # "succeeded"),
           \/ row.candidate = 0
           \/ /\ row.candidate = executions[e].rev + 1 /\ row.execution = e
              /\ executions'[e].state = "succeeded"
    PROVE  AttemptsMove
  <1>1. PICK m, g : m = executions[e].mon /\ g = executions[e].rev
    OBVIOUS
  <1>2. /\ m \in Monitors /\ g \in Generations /\ g = Len(revisions[m])
        /\ repairs[m][g].execution = e
    BY <1>1, LiveRepairIsNewest
  <1>3. /\ repairs'[m][g] = row
        /\ \A n \in Monitors, h \in Generations :
              ~(n = m /\ h = g) => repairs'[n][h] = repairs[n][h]
    BY <1>1, RepairRowOfLive
  <1>4. RowMoves(m, g)
    BY <1>1, <1>2, <1>3 DEF RowMoves
  <1>5. \A n \in Monitors, h \in Generations : RowMoves(n, h)
    BY <1>3, <1>4 DEF RowMoves
  <1>6. \A j \in Ids : RepairSucceeds(j) =>
           repairs'[executions[j].mon][executions[j].rev].execution = j
    <2>1. \A j \in Ids : RepairSucceeds(j) => j = e
      BY DEF Moves, RepairSucceeds
    <2>2. RepairSucceeds(e) => row.execution = e
      BY DEF RepairSucceeds
    <2>3. QED
      BY <1>1, <1>3, <2>1, <2>2
  <1>7. QED
    BY <1>5, <1>6 DEF AttemptsMove, Moves

LEMMA RepairedAttempts ==
    ASSUME RepairInv, NEW e \in Ids, NEW auto \in AutoPromote, RepairSucceeded(e, auto)
    PROVE  AttemptsMove
  <1>1. TypeOK /\ executions[e] \in Execution /\ executions[e].kind = "repair" /\ Live(e)
    BY ExecutionRow DEF RepairInv, RepairSucceeded, Reportable
  <1>2. Moves(e)
    BY <1>1, ExecutionEvolves DEF ExecutionStep, ApplyResult
  <1>3. executions'[e].state = "succeeded"
    BY <1>1, FinishedState DEF RepairSucceeded, FinalStates
  <1>4. executions[e].rev = Len(revisions[executions[e].mon])
    BY <1>1, LiveRepairIsNewest
  <1>5. PICK row : /\ repairs' = SetRepair(executions[e].mon, e, row)
                   /\ row.execution = e /\ row.candidate = executions[e].rev + 1
    BY <1>4 DEF RepairSucceeded
  <1>6. QED
    BY <1>1, <1>2, <1>3, <1>5, RewrittenAttempt

LEMMA GivenUpAttempts ==
    ASSUME RepairInv, NEW e \in Ids, Moves(e), Live(e), executions[e].kind = "repair", RepairGivesUp(e)
    PROVE  AttemptsMove
  <1>1. PICK row : /\ repairs' = SetRepair(executions[e].mon, e, row)
                   /\ row.execution = e /\ row.candidate = 0
    BY DEF RepairGivesUp
  <1>2. QED
    BY <1>1, RewrittenAttempt

LEMMA ReplacedAttempts ==
    ASSUME RepairInv, NEW e \in Ids, Moves(e), Live(e), executions[e].attempt < MaxAttempts,
           NEW st \in FailureStatus, EnqueueReplacement(e, Finished(e, st, "none"))
    PROVE  AttemptsMove
  <1>1. PICK x \in Execution : executions' = Append(Finished(e, st, "none"), x)
    <2>1. Replacement(e) \in Execution
      BY ReplacementRow DEF RepairInv, TypeOK
    <2>2. QED
      BY <2>1 DEF EnqueueReplacement
  <1>2. executions'[e].state = st /\ st # "succeeded"
    BY <1>1, FinishedState DEF RepairInv, FailureStatus, FinalStates
  <1>3. CASE executions[e].kind = "repair"
    <2>1. PICK row : /\ repairs' = SetRepair(executions[e].mon, e, row)
                     /\ row.execution = NextId /\ row.candidate = 0
      BY <1>3 DEF EnqueueReplacement, HandOver
    <2>2. QED
      BY <1>2, <1>3, <2>1, RewrittenAttempt
  <1>4. CASE executions[e].kind # "repair"
    <2>1. \A j \in Ids : ~RepairSucceeds(j)
      BY <1>4 DEF Moves, RepairSucceeds
    <2>2. repairs' = repairs
      BY <1>4 DEF EnqueueReplacement
    <2>3. QED
      BY <2>1, <2>2, AttemptsStay DEF Moves
  <1>5. QED
    BY <1>3, <1>4

(* The generation of an attempt that opens is the newest: the attempts of   *)
(* the others are over.                                                      *)
LEMMA OpenedAttempts ==
    ASSUME RepairInv, NEW e \in Ids, Moves(e), NEW st \in FailureStatus, StaleCheckOpensRepair(e, st)
    PROVE  AttemptsMove
  <1>1. PICK m, g : m = executions[e].mon /\ g = executions[e].rev
    OBVIOUS
  <1>2. /\ m \in Monitors /\ repairs \in [Monitors -> [Generations -> RepairAttempt]]
        /\ executions[e].kind = "check" /\ repairs[m][g].state = "none"
    BY <1>1, ExecutionRow DEF RepairInv, TypeOK, StaleCheckOpensRepair, RepairNeeded
  <1> DEFINE row == [state |-> "queued", execution |-> NextId, candidate |-> 0]
  <1>3. /\ repairs' = [repairs EXCEPT ![m][g] = row]
        /\ row.execution = NextId /\ row.candidate = 0
    BY <1>1 DEF StaleCheckOpensRepair
  <1> HIDE DEF row
  <1>4. g \in Generations /\ g = Len(revisions[m]) /\ repairs[m][g].execution = 0
    <2>1. g \in 1..monitors[m].rev /\ monitors[m].rev <= Len(revisions[m])
      BY <1>1, <1>2 DEF RepairInv, ExecutionsRunKnownPlans, CurrentExists
    <2>2. monitors[m].rev \in {0} \cup Generations /\ Len(revisions[m]) \in Nat
      BY <1>2, MonitorKnown
    <2>3. g \in Generations
      BY <2>1, <2>2, BoundsAssumption DEF Generations
    <2>4. RepairRowOK(m, g)
      BY <1>2, <2>3 DEF RepairInv, RepairRows
    <2>5. ~(g < Len(revisions[m])) /\ repairs[m][g].execution = 0
      BY <1>2, <2>4 DEF RepairRowOK, RepairDone
    <2>6. QED
      BY <2>1, <2>2, <2>3, <2>5, BoundsAssumption DEF Generations
  <1>5. \A n \in Monitors, h \in Generations :
           repairs'[n][h] = IF n = m /\ h = g THEN row ELSE repairs[n][h]
    BY <1>2, <1>3
  <1>6. \A n \in Monitors, h \in Generations : RowMoves(n, h)
    BY <1>3, <1>4, <1>5 DEF RowMoves
  <1>7. \A j \in Ids : ~RepairSucceeds(j)
    BY <1>2 DEF Moves, RepairSucceeds
  <1>8. QED
    BY <1>6, <1>7 DEF AttemptsMove, Moves

LEMMA AttemptsStep ==
    ASSUME RepairInv, Next
    PROVE  AttemptsMove
  <1>0. TypeOK /\ Evolves
    BY NextEvolves DEF RepairInv
  <1>1. ASSUME NEW m \in Monitors, OperatorStep(m) \/ SchedulerStep(m) PROVE AttemptsMove
    BY <1>0, <1>1, OperatorAttempts, ScheduleIsCheckStep, CheckAttempts
  <1>2. ASSUME NEW e \in Ids, ExecutionStep(e) PROVE Moves(e)
    BY <1>0, <1>2, ExecutionEvolves
  <1>3. ASSUME NEW e \in Ids, Moves(e), ApplyFailure(e) PROVE AttemptsMove
    <2>1. PICK st \in FailureStatus :
             \/ StaleCheckOpensRepair(e, st)
             \/ StaleCheckRecorded(e, st)
             \/ \E class \in FailureClass :
                   \/ FailureRetried(e, st, class)
                   \/ CompileFailed(e, st, class)
                   \/ RepairFailed(e, st, class)
                   \/ CheckFailed(e, st, class)
      BY <1>3 DEF ApplyFailure
    <2>2. CASE StaleCheckOpensRepair(e, st)
      BY <1>3, <2>2, OpenedAttempts
    <2>3. CASE \/ StaleCheckRecorded(e, st)
               \/ \E class \in FailureClass : CompileFailed(e, st, class) \/ CheckFailed(e, st, class)
      BY <1>0, <2>3, ResultIsCheckStep, CheckAttempts
    <2>4. ASSUME NEW class \in FailureClass, FailureRetried(e, st, class) PROVE AttemptsMove
      BY <1>3, <2>4, ReplacedAttempts DEF FailureRetried, ShouldRetry, Reportable
    <2>5. ASSUME NEW class \in FailureClass, RepairFailed(e, st, class) PROVE AttemptsMove
      BY <1>3, <2>5, GivenUpAttempts DEF RepairFailed, Reportable
    <2>6. QED
      BY <2>1, <2>2, <2>3, <2>4, <2>5
  <1>4. ASSUME NEW e \in Ids, Moves(e), ApplyResult(e) PROVE AttemptsMove
    <2>1. CASE \E obs \in {"none", "miss", "hit"} :
                  OrdinaryCheckSucceeded(e, obs) \/ ConfirmationSucceeded(e, obs)
      BY <1>0, <2>1, ResultIsCheckStep, CheckAttempts
    <2>2. QED
      BY <1>3, <1>4, <2>1, CompileAttempts, RepairedAttempts DEF ApplyResult
  <1>5. ASSUME NEW e \in Ids, Moves(e), SweepRequeues(e) \/ SweepTerminates(e) PROVE AttemptsMove
    <2>1. Live(e) /\ "failed" \in FailureStatus
      BY <1>5 DEF Moves, FailureStatus
    <2>2. CASE SweepRequeues(e)
      BY <1>5, <2>1, <2>2, ReplacedAttempts DEF SweepRequeues
    <2>3. CASE SweepTerminates(e) /\ executions[e].kind # "repair"
      BY <1>0, <2>3, ResultIsCheckStep, CheckAttempts
    <2>4. CASE SweepTerminates(e) /\ executions[e].kind = "repair"
      BY <1>5, <2>1, <2>4, GivenUpAttempts DEF SweepTerminates
    <2>5. QED
      BY <1>5, <2>2, <2>3, <2>4
  <1>6. ASSUME NEW e \in Ids, ExecutionStep(e) PROVE AttemptsMove
    BY <1>2, <1>4, <1>5, <1>6, InputAttempts DEF ExecutionStep
  <1>7. QED
    BY <1>1, <1>6 DEF Next

(* What starts to wait for review is a first plan, or the candidate of a    *)
(* repair of the current generation, which is the newest.                   *)
LEMMA NewlyWaiting ==
    ASSUME RepairInv, TypeOK', Next, NEW n \in Monitors, NEW k \in Nat, k > 1, Reviewable(n, k)'
    PROVE  Reviewable(n, k) \/ monitors[n].rev = k - 1
  <1>1. TypeOK /\ TypeOK'
    BY DEF RepairInv
  <1>2. CASE revisions'[n] = revisions[n]
    BY <1>2 DEF Reviewable
  <1>3. ASSUME NEW g \in Generations, ConfirmMonitor(n, g) PROVE Reviewable(n, k)
    <2> DEFINE s == [h \in 1..Len(revisions[n]) |->
                       IF h = g THEN "active"
                       ELSE IF Reviewable(n, h) THEN "rejected" ELSE revisions[n][h]]
    <2>1. revisions'[n] = s
      BY <1>1, <1>3 DEF TypeOK, ConfirmMonitor
    <2>2. k \in 1..Len(revisions[n])
      BY <2>1 DEF Reviewable
    <2>3. QED
      BY <2>1, <2>2 DEF Reviewable
  <1>4. ASSUME NEW g \in Generations, NEW accept \in BOOLEAN, ReviewRevision(n, g, accept)
        PROVE  Reviewable(n, k)
    <2>1. /\ revisions[n] \in Seq(RevisionState) /\ revisions'[n] \in Seq(RevisionState)
          /\ Len(revisions'[n]) = Len(revisions[n])
          /\ revisions'[n][g] = IF accept THEN "active" ELSE "rejected"
          /\ \A h \in 1..Len(revisions[n]) : h # g => revisions'[n][h] = revisions[n][h]
      BY <1>1, <1>4, ReviewRows DEF TypeOK
    <2>2. /\ DOMAIN revisions[n] = 1..Len(revisions[n])
          /\ DOMAIN revisions'[n] = 1..Len(revisions[n])
      BY <2>1, LenProperties
    <2>3. QED
      BY <2>1, <2>2 DEF Reviewable
  <1>5. ASSUME NEW v \in RevisionState, revisions' = [revisions EXCEPT ![n] = Append(@, v)]
        PROVE  Reviewable(n, k) \/ k = Len(revisions[n]) + 1
    BY <1>1, <1>5, AppendedPlans DEF Reviewable
  <1>6. ASSUME NEW e \in Ids, executions[e].mon = n, CompileSucceeded(e) PROVE Reviewable(n, k)
    <2>1. Len(revisions[n]) = 0
      BY <1>6 DEF CompileSucceeded, Reportable, RepairInv, OneLiveCompile
    <2>2. QED
      BY <1>5, <1>6, <2>1 DEF CompileSucceeded, RevisionState
  <1>7. ASSUME NEW e \in Ids, NEW auto \in AutoPromote, executions[e].mon = n, RepairSucceeded(e, auto)
        PROVE  Reviewable(n, k) \/ monitors[n].rev = k - 1
    <2>1. monitors[n].rev = Len(revisions[n]) /\ Len(revisions[n]) \in Nat
      BY <1>7, LiveRepairIsNewest, MonitorKnown DEF RepairSucceeded, Reportable
    <2>2. Reviewable(n, k) \/ k = Len(revisions[n]) + 1
      BY <1>5, <1>7 DEF RepairSucceeded, RevisionState
    <2>3. QED
      BY <2>1, <2>2
  <1>8. CASE \E m \in Monitors : RevisionStep(m)
    <2>1. PICK m \in Monitors : RevisionStep(m)
      BY <1>8
    <2>2. CASE m # n
      BY <1>1, <1>2, <2>1, <2>2, RevisionStepRows
    <2>3. CASE m = n
      BY <1>3, <1>4, <1>6, <1>7, <2>1, <2>3 DEF RevisionStep
    <2>4. QED
      BY <2>2, <2>3
  <1>9. QED
    BY <1>1, <1>2, <1>8, RevisionsChange

(* The current generation cannot fall behind (GenerationMonotone) and       *)
(* cannot pass what waits for review.                                        *)
LEMMA PendingStep ==
    ASSUME RepairInv, RepairInv', PendingFollows, [Next]_vars,
           [\A m \in Monitors : monitors'[m].rev >= monitors[m].rev]_vars
    PROVE  PendingFollows'
  <1> SUFFICES ASSUME NEW m \in Monitors, NEW g \in 2..Len(revisions'[m]), Reviewable(m, g)'
               PROVE  monitors'[m].rev = g - 1
    BY DEF PendingFollows
  <1>1. /\ TypeOK /\ TypeOK' /\ revisions[m] \in Seq(RevisionState)
        /\ revisions'[m] \in Seq(RevisionState)
    BY DEF RepairInv, TypeOK
  <1>2. monitors[m].rev \in Nat /\ monitors'[m].rev \in Nat
    <2>1. monitors[m] \in Monitor /\ monitors'[m] \in Monitor
      BY <1>1 DEF TypeOK
    <2>2. QED
      BY <2>1, BoundsAssumption DEF Monitor, Generations
  <1>3. monitors'[m].rev >= monitors[m].rev
    BY <1>2 DEF vars
  <1>4. g \in Nat /\ g > 1 /\ g \in 1..Len(revisions'[m])
    BY <1>1
  <1>5. monitors'[m].rev < g
    BY <1>2, <1>4 DEF RepairInv, PendingIsNewest
  <1>6. monitors[m].rev = g - 1
    <2>1. Reviewable(m, g) \/ monitors[m].rev = g - 1
      <3>1. CASE UNCHANGED vars
        BY <3>1 DEF vars, Reviewable
      <3>2. CASE Next
        BY <1>1, <1>4, <3>2, NewlyWaiting
      <3>3. QED
        BY <3>1, <3>2
    <2>2. CASE Reviewable(m, g)
      <3>1. g \in 2..Len(revisions[m])
        BY <1>1, <1>4, <2>2, LenProperties DEF Reviewable
      <3>2. QED
        BY <2>2, <3>1 DEF PendingFollows
    <2>3. QED
      BY <2>1, <2>2
  <1>7. QED
    BY <1>2, <1>3, <1>4, <1>5, <1>6

LEMMA EvidenceStep == RepairInv /\ EvidenceInv /\ [Next]_vars => EvidenceInv'
  <1> SUFFICES ASSUME RepairInv, EvidenceInv, [Next]_vars PROVE EvidenceInv'
    OBVIOUS
  <1>1. CASE Next
    BY <1>1, AttemptsStep, EvidenceKept
  <1>2. CASE UNCHANGED vars
    BY <1>2 DEF vars, EvidenceInv, CandidateRows, SucceededRows, RowsAscend, Ids
  <1>3. QED
    BY <1>1, <1>2

(* The review page tells the truth: the plan it compares a repair with is   *)
(* the current one, and the evidence it shows is that of the execution that *)
(* produced the candidate, although getReview chooses both by position.     *)
THEOREM ReviewIsTruthful == Spec => []ReviewShowsItsCandidate
  <1>1. Init => PendingFollows /\ EvidenceInv
    <2> SUFFICES ASSUME Init PROVE PendingFollows /\ EvidenceInv
      OBVIOUS
    <2>1. PendingFollows
      BY DEF Init, PendingFollows
    <2>2. /\ Len(executions) = 0
          /\ \A m \in Monitors, h \in Generations :
                repairs[m][h].execution = 0 /\ repairs[m][h].candidate = 0
      BY DEF Init, NoRepair
    <2>3. QED
      BY <2>1, <2>2 DEF EvidenceInv, CandidateRows, SucceededRows, RowsAscend, Ids
  <1>2. /\ RepairInv /\ RepairInv' /\ PendingFollows /\ EvidenceInv /\ [Next]_vars
        /\ [\A m \in Monitors : monitors'[m].rev >= monitors[m].rev]_vars
        => (PendingFollows /\ EvidenceInv)'
    BY PendingStep, EvidenceStep
  <1>3. Spec => [][\A m \in Monitors : monitors'[m].rev >= monitors[m].rev]_vars
    BY GenerationMonotone DEF GenerationNeverRegresses
  <1>4. RepairInv /\ PendingFollows /\ EvidenceInv => ReviewShowsItsCandidate
    BY ReviewShows DEF ReviewInv
  <1>5. QED
    BY <1>1, <1>2, <1>3, <1>4, RepairsConsistent, PTL DEF Spec

===============================================================================
