---------------------------- MODULE LifecycleProofs ----------------------------
(***************************************************************************)
(* Proofs about ControlPlane: confirmations and alerts, the work behind a   *)
(* compiling monitor and the schedule of an active one, and the contract of *)
(* a job.  They need of the transactions only how these change the          *)
(* executions table; that is stated once, as Evolves.                       *)
(***************************************************************************)
EXTENDS ControlPlaneProofs, ExecutionLineage, FiniteSetTheorems

FinalStates == {"succeeded", "failed", "blocked", "needs_review"}

-------------------------------------------------------------------------------
(* How the executions table changes. *)

Identity(x, y) == x.mon = y.mon /\ x.kind = y.kind /\ x.rev = y.rev /\ x.trigger = y.trigger

(* A new row is a first attempt that no sighting asked for, or continues an *)
(* execution that fails in the same transaction, or confirms the sighting   *)
(* that an ordinary check reports in it.                                     *)
Continues(x, e) ==
    Live(e) /\ executions'[e].state \in FailureStatus /\ Identity(x, executions[e])

Confirms(x, e) ==
    /\ Live(e) /\ executions[e].kind = "check" /\ executions[e].trigger = 0
    /\ executions'[e].state = "succeeded" /\ executions'[e].obs = "hit"
    /\ x.trigger = e /\ x.kind = "check"
    /\ x.mon = executions[e].mon /\ x.rev = executions[e].rev
    /\ ~ConfirmationPending(x.mon)

Evolves ==
    /\ executions' \in Seq(Execution)
    /\ \A j \in Ids : Identity(executions'[j], executions[j])
    /\ \A j \in Ids : ~Live(j) => executions'[j] = executions[j]
    /\ \/ Len(executions') = Len(executions)
       \/ /\ Len(executions') = NextId
          /\ executions'[NextId].state = "queued"
          /\ \/ executions'[NextId].trigger = 0
             \/ \E e \in Ids : \/ Continues(executions'[NextId], e)
                               \/ Confirms(executions'[NextId], e)
    /\ \/ alerts' = alerts
       \/ \E e \in Ids : /\ executions[e].trigger # 0
                         /\ executions'[e].state = "succeeded" /\ executions'[e].obs = "hit"
                         /\ alerts' = alerts \cup {e}

(* A result or a sweep of e leaves the rows of other executions alone. *)
Moves(e) ==
    /\ Evolves
    /\ Live(e)
    /\ \A j \in Ids : j # e => executions'[j] = executions[j]

LEMMA SameTableEvolves ==
    ASSUME TypeOK, UNCHANGED <<executions, alerts>>
    PROVE  Evolves
  BY DEF TypeOK, Evolves, Identity

LEMMA InsertEvolves ==
    ASSUME TypeOK, NEW x \in Execution, x.state = "queued", x.trigger = 0,
           executions' = Append(executions, x), alerts' = alerts
    PROVE  Evolves
  <1>1. executions \in Seq(Execution)
    BY DEF TypeOK
  <1>2. /\ executions' \in Seq(Execution) /\ Len(executions') = NextId
        /\ \A j \in Ids : executions'[j] = executions[j]
        /\ executions'[NextId] = x
    BY <1>1, AppendedSeq DEF Ids, NextId
  <1>3. QED
    BY <1>2 DEF Evolves, Identity

LEMMA StartEvolves ==
    ASSUME TypeOK, NEW e \in Ids, GetExecutionInput(e)
    PROVE  Moves(e)
  <1> DEFINE x == [executions[e] EXCEPT !.state = "running"]
  <1>1. executions \in Seq(Execution) /\ executions[e] \in Execution
    BY ExecutionRow
  <1>2. x \in Execution /\ Identity(x, executions[e])
    BY <1>1 DEF Execution, Identity
  <1>3. Live(e) /\ executions' = [executions EXCEPT ![e] = x] /\ alerts' = alerts
    BY DEF GetExecutionInput, Live, LiveStates
  <1> HIDE DEF x
  <1>4. /\ executions' \in Seq(Execution) /\ Len(executions') = Len(executions)
        /\ \A j \in Ids : executions'[j] = IF j = e THEN x ELSE executions[j]
    BY <1>1, <1>2, <1>3, UpdatedSeq DEF Ids
  <1>5. QED
    BY <1>2, <1>3, <1>4 DEF Moves, Evolves, Identity

(* An execution finishes and at most one row is inserted. *)
LEMMA FinishEvolves ==
    ASSUME TypeOK, NEW e \in Ids, Live(e), NEW st \in FinalStates, NEW obs \in {"none", "miss", "hit"},
           NEW x \in Execution,
           \/ executions' = Finished(e, st, obs)
           \/ /\ executions' = Append(Finished(e, st, obs), x) /\ x.state = "queued"
              /\ \/ x.trigger = 0
                 \/ st \in FailureStatus /\ Identity(x, executions[e])
                 \/ /\ st = "succeeded" /\ obs = "hit"
                    /\ executions[e].kind = "check" /\ executions[e].trigger = 0
                    /\ x.trigger = e /\ x.kind = "check"
                    /\ x.mon = executions[e].mon /\ x.rev = executions[e].rev
                    /\ ~ConfirmationPending(x.mon),
           \/ alerts' = alerts
           \/ /\ executions[e].trigger # 0 /\ st = "succeeded" /\ obs = "hit"
              /\ alerts' = alerts \cup {e}
    PROVE  /\ Moves(e)
           /\ executions'[e].state = st /\ executions'[e].obs = obs
           /\ \A j \in Ids : j # e => executions'[j] = executions[j]
  <1> DEFINE done == Finished(e, st, obs)
  <1>1. executions \in Seq(Execution)
    BY DEF TypeOK
  <1>2. /\ done \in Seq(Execution) /\ Len(done) = Len(executions)
        /\ \A j \in Ids : j # e => done[j] = executions[j]
        /\ Identity(done[e], executions[e]) /\ done[e].state = st /\ done[e].obs = obs
    BY <1>1, FinishedRow DEF FinalStates, Identity
  <1> HIDE DEF done
  <1>3. \A j \in Ids : Identity(done[j], executions[j])
    BY <1>2 DEF Identity
  <1>4. CASE executions' = done
    BY <1>2, <1>3, <1>4 DEF Moves, Evolves
  <1>5. CASE executions' = Append(done, x)
    <2>1. /\ executions' \in Seq(Execution) /\ Len(executions') = NextId
          /\ \A j \in Ids : executions'[j] = done[j]
          /\ executions'[NextId] = x
      <3>1. /\ Append(done, x) \in Seq(Execution) /\ Len(Append(done, x)) = Len(done) + 1
            /\ \A j \in 1..Len(done) : Append(done, x)[j] = done[j]
            /\ Append(done, x)[Len(done) + 1] = x
        BY <1>2, AppendedSeq
      <3>2. QED
        BY <1>2, <1>5, <3>1 DEF Ids, NextId
    <2>2. CASE executions' = Finished(e, st, obs)
      BY <1>2, <1>4, <2>2 DEF done
    <2>3. CASE /\ executions' = Append(Finished(e, st, obs), x) /\ x.state = "queued"
               /\ \/ x.trigger = 0
                  \/ st \in FailureStatus /\ Identity(x, executions[e])
                  \/ /\ st = "succeeded" /\ obs = "hit"
                     /\ executions[e].kind = "check" /\ executions[e].trigger = 0
                     /\ x.trigger = e /\ x.kind = "check"
                     /\ x.mon = executions[e].mon /\ x.rev = executions[e].rev
                     /\ ~ConfirmationPending(x.mon)
      <3>1. \/ x.trigger = 0
            \/ Continues(x, e)
            \/ Confirms(x, e)
        BY <1>2, <2>1, <2>3 DEF Continues, Confirms
      <3>2. QED
        BY <1>2, <1>3, <2>1, <2>3, <3>1 DEF Moves, Evolves
    <2>4. QED
      BY <2>2, <2>3
  <1>6. QED
    BY <1>4, <1>5 DEF done

LEMMA ReplacementEvolves ==
    ASSUME TypeOK, NEW e \in Ids, Live(e), executions[e].attempt < MaxAttempts,
           NEW st \in FailureStatus, EnqueueReplacement(e, Finished(e, st, "none"))
    PROVE  Moves(e)
  <1>1. PICK x \in Execution : x = Replacement(e)
    BY ReplacementRow DEF TypeOK
  <1>2. x.state = "queued" /\ Identity(x, executions[e])
    BY <1>1, ReplacementRow DEF TypeOK, Identity
  <1>3. st \in FinalStates /\ alerts' = alerts /\ executions' = Append(Finished(e, st, "none"), x)
    BY <1>1 DEF FailureStatus, FinalStates, EnqueueReplacement
  <1>4. QED
    BY <1>2, <1>3, FinishEvolves

LEMMA CheckEvolves ==
    ASSUME TypeOK, NEW e \in Ids, NEW obs \in {"none", "miss", "hit"}, OrdinaryCheckSucceeded(e, obs)
    PROVE  Moves(e)
  <1> DEFINE m == executions[e].mon
             y == NewExecution(m, "check", executions[e].rev, 1, e, 0)
             confirm == obs = "hit" /\ ~monitors[m].matched /\ ~ConfirmationPending(m)
  <1>1. /\ m \in Monitors /\ executions[e].rev \in {0} \cup Generations /\ e \in Nat
        /\ executions[e] \in Execution
    BY ExecutionRow
  <1>2. PICK x \in Execution : x = y
    BY <1>1, NewRow
  <1>3. /\ x.state = "queued" /\ x.trigger = e /\ x.kind = "check"
        /\ x.mon = executions[e].mon /\ x.rev = executions[e].rev
    BY <1>2 DEF NewExecution
  <1>4. /\ Live(e) /\ alerts' = alerts /\ "succeeded" \in FinalStates
        /\ executions[e].kind = "check" /\ executions[e].trigger = 0
        /\ executions' = IF confirm THEN Append(Finished(e, "succeeded", obs), x)
                         ELSE Finished(e, "succeeded", obs)
    BY <1>2 DEF OrdinaryCheckSucceeded, Reportable, FinalStates
  <1> HIDE DEF y
  <1>5. CASE confirm
    <2>1. obs = "hit" /\ ~ConfirmationPending(x.mon)
      BY <1>3, <1>5
    <2>2. executions' = Append(Finished(e, "succeeded", obs), x)
      BY <1>4, <1>5
    <2>3. QED
      BY <1>3, <1>4, <2>1, <2>2, FinishEvolves
  <1>6. CASE ~confirm
    BY <1>4, <1>6, FinishEvolves
  <1>7. QED
    BY <1>5, <1>6

LEMMA ConfirmationEvolves ==
    ASSUME TypeOK, NEW e \in Ids, NEW obs \in {"none", "miss", "hit"}, ConfirmationSucceeded(e, obs)
    PROVE  Moves(e)
  <1>1. /\ Live(e) /\ executions' = Finished(e, "succeeded", obs) /\ executions[e].trigger # 0
        /\ "succeeded" \in FinalStates
        /\ alerts' = IF obs = "hit" /\ ~monitors[executions[e].mon].matched THEN alerts \cup {e}
                     ELSE alerts
    BY DEF ConfirmationSucceeded, Reportable, FinalStates
  <1>2. executions[e] \in Execution
    BY ExecutionRow
  <1>3. CASE alerts' = alerts
    BY <1>1, <1>2, <1>3, FinishEvolves
  <1>4. CASE obs = "hit" /\ alerts' = alerts \cup {e}
    BY <1>1, <1>2, <1>4, FinishEvolves
  <1>5. QED
    BY <1>1, <1>3, <1>4

LEMMA FailureEvolves ==
    ASSUME TypeOK, NEW e \in Ids, ApplyFailure(e)
    PROVE  Moves(e)
  <1>0. /\ executions[e] \in Execution /\ executions[e].mon \in Monitors
        /\ executions[e].rev \in {0} \cup Generations
    BY ExecutionRow
  <1>1. PICK st \in FailureStatus :
           \/ StaleCheckOpensRepair(e, st)
           \/ StaleCheckRecorded(e, st)
           \/ \E class \in FailureClass :
                 \/ FailureRetried(e, st, class)
                 \/ CompileFailed(e, st, class)
                 \/ RepairFailed(e, st, class)
                 \/ CheckFailed(e, st, class)
    BY DEF ApplyFailure
  <1>2. st \in FinalStates
    BY DEF FailureStatus, FinalStates
  <1>3. CASE StaleCheckOpensRepair(e, st)
    <2>1. PICK x \in Execution : x = NewExecution(executions[e].mon, "repair", executions[e].rev, 1, 0, 0)
      BY <1>0, NewRow
    <2>2. x.state = "queued" /\ x.trigger = 0
      BY <2>1 DEF NewExecution
    <2>3. Live(e) /\ executions' = Append(Finished(e, st, "none"), x) /\ alerts' = alerts
      BY <1>3, <2>1 DEF StaleCheckOpensRepair, Reportable
    <2>4. QED
      BY <1>2, <2>2, <2>3, FinishEvolves
  <1>4. CASE Live(e) /\ executions' = Finished(e, st, "none") /\ alerts' = alerts
    BY <1>0, <1>2, <1>4, FinishEvolves
  <1>5. CASE StaleCheckRecorded(e, st)
    BY <1>4, <1>5 DEF StaleCheckRecorded, Reportable
  <1>6. ASSUME NEW class \in FailureClass, FailureRetried(e, st, class) PROVE Moves(e)
    BY <1>6, ReplacementEvolves DEF FailureRetried, Reportable, ShouldRetry
  <1>7. ASSUME NEW class \in FailureClass,
               CompileFailed(e, st, class) \/ RepairFailed(e, st, class) \/ CheckFailed(e, st, class)
        PROVE  Moves(e)
    BY <1>4, <1>7 DEF CompileFailed, RepairFailed, RepairGivesUp, CheckFailed, Reportable
  <1>8. QED
    BY <1>1, <1>3, <1>5, <1>6, <1>7

LEMMA ExecutionEvolves ==
    ASSUME TypeOK, NEW e \in Ids, ExecutionStep(e)
    PROVE  Moves(e)
  <1>0. executions[e] \in Execution
    BY ExecutionRow
  <1>1. CASE GetExecutionInput(e)
    BY <1>1, StartEvolves
  <1>2. ASSUME NEW st \in FinalStates, Live(e), executions' = Finished(e, st, "none"), alerts' = alerts
        PROVE  Moves(e)
    BY <1>0, <1>2, FinishEvolves
  <1>3. ASSUME \/ CompileSucceeded(e)
               \/ \E auto \in AutoPromote : RepairSucceeded(e, auto)
        PROVE  Moves(e)
    BY <1>2, <1>3 DEF CompileSucceeded, RepairSucceeded, Reportable, FinalStates
  <1>4. ASSUME NEW obs \in {"none", "miss", "hit"},
               OrdinaryCheckSucceeded(e, obs) \/ ConfirmationSucceeded(e, obs)
        PROVE  Moves(e)
    BY <1>4, CheckEvolves, ConfirmationEvolves
  <1>5. CASE ApplyFailure(e)
    BY <1>5, FailureEvolves
  <1>6. ASSUME SweepRequeues(e) \/ SweepTerminates(e) PROVE Live(e)
    BY <1>6 DEF SweepRequeues, SweepTerminates, Sweepable, Live, LiveStates
  <1>7. CASE SweepRequeues(e)
    BY <1>6, <1>7, ReplacementEvolves DEF SweepRequeues, FailureStatus
  <1>8. CASE SweepTerminates(e)
    BY <1>2, <1>6, <1>8 DEF SweepTerminates, RepairGivesUp, FinalStates
  <1>9. QED
    BY <1>1, <1>3, <1>4, <1>5, <1>7, <1>8 DEF ExecutionStep, ApplyResult

LEMMA NextEvolves ==
    ASSUME TypeOK, [Next]_vars
    PROVE  Evolves
  <1>1. CASE UNCHANGED vars
    BY <1>1, SameTableEvolves DEF vars
  <1>2. ASSUME NEW m \in Monitors, OperatorStep(m) \/ SchedulerStep(m) PROVE Evolves
    <2>1. CASE CreateMonitor(m)
      <3>1. PICK x \in Execution : x = NewExecution(m, "compile", 0, 1, 0, 0)
        BY NewRow
      <3>2. QED
        BY <2>1, <3>1, InsertEvolves DEF CreateMonitor, NewExecution
    <2>2. CASE InsertCheck(m) /\ alerts' = alerts
      <3>1. monitors[m].rev \in {0} \cup Generations
        BY DEF TypeOK, Monitor
      <3>2. PICK x \in Execution : x = NewExecution(m, "check", monitors[m].rev, 1, 0, 0)
        BY <3>1, NewRow
      <3>3. QED
        BY <2>2, <3>2, InsertEvolves DEF InsertCheck, NewExecution
    <2>3. CASE UNCHANGED <<executions, alerts>>
      BY <2>3, SameTableEvolves
    <2>4. QED
      BY <1>2, <2>1, <2>2, <2>3
      DEF OperatorStep, SchedulerStep, Pause, Resume, EnqueueCheck, ConfirmMonitor,
          ReviewRevision, NextRunArrives, SnapshotDue, ClaimDue, SkipDue
  <1>3. ASSUME NEW e \in Ids, ExecutionStep(e) PROVE Evolves
    BY <1>3, ExecutionEvolves DEF Moves
  <1>4. QED
    BY <1>1, <1>2, <1>3 DEF Next

-------------------------------------------------------------------------------
(* Confirmations and alerts. *)

OpenOrSucceeded == LiveStates \cup {"succeeded"}

(* A confirmation was asked for by an ordinary check, with a lower id, that *)
(* succeeded with a match of the same monitor and revision.                  *)
ConfirmationsAreAskedFor ==
    \A e \in Ids : executions[e].trigger # 0 =>
        /\ executions[e].kind = "check"
        /\ executions[e].trigger \in 1..(e - 1)
        /\ LET t == executions[executions[e].trigger] IN
             /\ t.kind = "check" /\ t.trigger = 0 /\ t.state = "succeeded" /\ t.obs = "hit"
             /\ t.mon = executions[e].mon /\ t.rev = executions[e].rev

(* Of the attempts at one confirmation all but one have failed. *)
OneConfirmationPerSighting ==
    \A c, d \in Ids :
        /\ executions[c].trigger # 0 /\ executions[c].trigger = executions[d].trigger
        /\ executions[c].state \in OpenOrSucceeded /\ executions[d].state \in OpenOrSucceeded
        => c = d

(* An alert is a confirmation that matched. *)
AlertsAreConfirmations ==
    \A a \in alerts : /\ a \in Ids /\ executions[a].trigger # 0
                      /\ executions[a].state = "succeeded" /\ executions[a].obs = "hit"

ConfirmationInv ==
    /\ TypeOK /\ ConfirmationsAreAskedFor /\ OneConfirmationPerSighting
    /\ OneLiveConfirmation /\ AlertsAreConfirmations

(* What the old rows are after a step: none comes to life again. *)
LEMMA OldRows ==
    ASSUME TypeOK, Evolves
    PROVE  /\ Len(executions) \in Nat /\ Len(executions') \in {Len(executions), NextId}
           /\ Ids \subseteq Ids' /\ \A j \in Ids' : j \in Ids \/ j = NextId
           /\ NextId \in Ids' <=> Len(executions') = NextId
           /\ NextId \notin Ids
           /\ \A j \in Ids : Live(j)' => Live(j)
           /\ \A j \in Ids : executions'[j].state \in OpenOrSucceeded =>
                               executions[j].state \in OpenOrSucceeded
  <1>1. Len(executions) \in Nat
    BY DEF TypeOK
  <1>2. Len(executions') \in {Len(executions), NextId}
    BY DEF Evolves
  <1>3. /\ Ids \subseteq Ids' /\ \A j \in Ids' : j \in Ids \/ j = NextId
        /\ NextId \in Ids' <=> Len(executions') = NextId
        /\ NextId \notin Ids
    BY <1>1, <1>2 DEF Ids, NextId
  <1>4. \A j \in Ids : Live(j)' => Live(j)
    BY DEF Evolves, Live
  <1>5. \A j \in Ids : executions'[j].state \in OpenOrSucceeded =>
                         executions[j].state \in OpenOrSucceeded
    BY DEF Evolves, Live, OpenOrSucceeded
  <1>6. QED
    BY <1>1, <1>2, <1>3, <1>4, <1>5

(* The row that a step inserts. *)
LEMMA InsertedRow ==
    ASSUME TypeOK, Evolves, NextId \in Ids', executions'[NextId].trigger # 0
    PROVE  /\ executions'[NextId].state = "queued"
           /\ \E e \in Ids : \/ Continues(executions'[NextId], e)
                             \/ Confirms(executions'[NextId], e)
  <1>1. Len(executions') = NextId /\ Len(executions) # NextId
    BY OldRows DEF NextId
  <1>2. QED
    BY <1>1 DEF Evolves

LEMMA AskedForStep ==
    ASSUME ConfirmationInv, Evolves
    PROVE  ConfirmationsAreAskedFor'
  <1>0. TypeOK /\ ConfirmationsAreAskedFor
    BY DEF ConfirmationInv
  <1> DEFINE Asked(x, e) ==
        /\ x.kind = "check" /\ x.trigger \in 1..(e - 1)
        /\ LET t == executions[x.trigger] IN
             /\ t.kind = "check" /\ t.trigger = 0 /\ t.state = "succeeded" /\ t.obs = "hit"
             /\ t.mon = x.mon /\ t.rev = x.rev
             Asked2(x, e) ==
        /\ x.kind = "check" /\ x.trigger \in 1..(e - 1)
        /\ LET t == executions'[x.trigger] IN
             /\ t.kind = "check" /\ t.trigger = 0 /\ t.state = "succeeded" /\ t.obs = "hit"
             /\ t.mon = x.mon /\ t.rev = x.rev
  <1>1. \A e \in Ids : e \in Nat /\ e <= Len(executions) /\ Len(executions) \in Nat
    BY <1>0, ExecutionRow
  <1>2. ASSUME NEW x, NEW e \in Ids, NEW d \in Nat, e <= d, Asked(x, e)
        PROVE  Asked2(x, d)
    <2>1. x.trigger \in Ids /\ x.trigger \in 1..(d - 1)
      BY <1>1, <1>2 DEF Ids
    <2>2. ~Live(x.trigger)
      BY <1>2 DEF Live, LiveStates
    <2>3. executions'[x.trigger] = executions[x.trigger]
      BY <2>1, <2>2 DEF Evolves
    <2>4. QED
      BY <1>2, <2>1, <2>3
  <1>3. ASSUME NEW e \in Ids, executions'[e].trigger # 0 PROVE Asked2(executions'[e], e)
    <2>1. Identity(executions'[e], executions[e])
      BY DEF Evolves
    <2>2. Asked(executions[e], e)
      BY <1>0, <1>3, <2>1 DEF ConfirmationsAreAskedFor, Identity
    <2>3. Asked2(executions[e], e)
      BY <1>1, <1>2, <2>2
    <2>4. QED
      BY <2>1, <2>3 DEF Identity
  <1>4. ASSUME NextId \in Ids', executions'[NextId].trigger # 0
        PROVE  Asked2(executions'[NextId], NextId)
    <2>1. PICK e \in Ids : \/ Continues(executions'[NextId], e)
                           \/ Confirms(executions'[NextId], e)
      BY <1>0, <1>4, InsertedRow
    <2>2. NextId \in Nat /\ e \in Nat /\ e >= 1 /\ e <= NextId /\ e < NextId
      BY <1>0, ExecutionRow DEF NextId
    <2>3. CASE Continues(executions'[NextId], e)
      <3>1. Identity(executions'[NextId], executions[e])
        BY <2>3 DEF Continues
      <3>2. Asked(executions[e], e)
        BY <1>0, <1>4, <3>1 DEF ConfirmationsAreAskedFor, Identity
      <3>3. Asked2(executions[e], NextId)
        BY <1>2, <2>2, <3>2
      <3>4. QED
        BY <3>1, <3>3 DEF Identity
    <2>4. CASE Confirms(executions'[NextId], e)
      <3>1. Identity(executions'[e], executions[e])
        BY DEF Evolves
      <3>2. QED
        BY <2>2, <2>4, <3>1 DEF Confirms, Identity
    <2>5. QED
      BY <2>1, <2>3, <2>4
  <1> SUFFICES ASSUME NEW e \in Ids', executions'[e].trigger # 0
               PROVE  Asked2(executions'[e], e)
    BY DEF ConfirmationsAreAskedFor
  <1> HIDE DEF Asked2
  <1>5. e \in Ids \/ e = NextId
    BY <1>0, OldRows
  <1>6. QED
    BY <1>3, <1>4, <1>5

(* A new confirmation of a monitor finds no live one that stays. *)
LEMMA NewConfirmationIsAlone ==
    ASSUME ConfirmationInv, Evolves, NextId \in Ids', executions'[NextId].trigger # 0
    PROVE  /\ \A d \in Ids :
                 /\ executions[d].mon = executions'[NextId].mon /\ executions[d].trigger # 0
                 => ~Live(d)'
           /\ \A d \in Ids :
                 executions[d].trigger = executions'[NextId].trigger
                 => executions'[d].state \notin OpenOrSucceeded
  <1>0. TypeOK /\ ConfirmationsAreAskedFor /\ OneConfirmationPerSighting /\ OneLiveConfirmation
    BY DEF ConfirmationInv
  <1> DEFINE x == executions'[NextId]
  <1>1. PICK e \in Ids : Continues(x, e) \/ Confirms(x, e)
    BY <1>0, InsertedRow
  <1>2. CASE Continues(x, e)
    <2>1. /\ Live(e) /\ executions'[e].state \in FailureStatus /\ Identity(x, executions[e])
      BY <1>2 DEF Continues
    <2>2. executions'[e].state \notin OpenOrSucceeded /\ ~Live(e)'
      BY <2>1 DEF FailureStatus, OpenOrSucceeded, LiveStates, Live
    <2>3. executions[e].trigger # 0 /\ executions[e].state \in OpenOrSucceeded
      BY <2>1 DEF Identity, Live, OpenOrSucceeded
    <2>4. ASSUME NEW d \in Ids, executions[d].mon = x.mon, executions[d].trigger # 0, Live(d)'
          PROVE  FALSE
      <3>1. Live(d)
        BY <1>0, <2>4, OldRows
      <3>2. d = e
        BY <1>0, <2>1, <2>3, <2>4, <3>1, ExecutionRow
           DEF OneLiveConfirmation, LiveExecutions, Identity
      <3>3. QED
        BY <2>2, <2>4, <3>2
    <2>5. ASSUME NEW d \in Ids, executions[d].trigger = x.trigger,
                 executions'[d].state \in OpenOrSucceeded
          PROVE  FALSE
      <3>1. executions[d].state \in OpenOrSucceeded
        BY <1>0, <2>5, OldRows
      <3>2. d = e
        BY <1>0, <2>1, <2>3, <2>5, <3>1 DEF OneConfirmationPerSighting, Identity
      <3>3. QED
        BY <2>2, <2>5, <3>2
    <2>6. QED
      BY <2>4, <2>5
  <1>3. CASE Confirms(x, e)
    <2>1. /\ Live(e) /\ x.trigger = e /\ x.mon = executions[e].mon
          /\ ~ConfirmationPending(x.mon)
      BY <1>3 DEF Confirms
    <2>2. ASSUME NEW d \in Ids, executions[d].mon = x.mon, executions[d].trigger # 0, Live(d)'
          PROVE  FALSE
      <3>1. Live(d) /\ executions[d].kind = "check"
        BY <1>0, <2>2, OldRows DEF ConfirmationsAreAskedFor
      <3>2. d \in LiveExecutions(x.mon)
        BY <2>2, <3>1 DEF LiveExecutions
      <3>3. QED
        BY <2>1, <2>2, <3>1, <3>2 DEF ConfirmationPending
    <2>3. ASSUME NEW d \in Ids, executions[d].trigger = x.trigger PROVE FALSE
      <3>1. executions[d].trigger # 0 /\ executions[d].trigger = e
        BY <1>0, <2>1, <2>3, ExecutionRow
      <3>2. executions[e].state = "succeeded"
        BY <1>0, <3>1 DEF ConfirmationsAreAskedFor
      <3>3. QED
        BY <2>1, <3>2 DEF Live, LiveStates
    <2>4. QED
      BY <2>2, <2>3
  <1>4. QED
    BY <1>1, <1>2, <1>3

LEMMA ConfirmationStep ==
    ASSUME ConfirmationInv, TypeOK', Evolves
    PROVE  ConfirmationInv'
  <1>0. TypeOK /\ ConfirmationsAreAskedFor /\ OneConfirmationPerSighting /\ OneLiveConfirmation
    BY DEF ConfirmationInv
  <1>1. OneConfirmationPerSighting'
    <2> SUFFICES ASSUME NEW c \in Ids', NEW d \in Ids',
                        executions'[c].trigger # 0, executions'[c].trigger = executions'[d].trigger,
                        executions'[c].state \in OpenOrSucceeded,
                        executions'[d].state \in OpenOrSucceeded
                 PROVE  c = d
      BY DEF OneConfirmationPerSighting
    <2>1. \A j \in Ids : /\ executions'[j].trigger = executions[j].trigger
                         /\ executions'[j].state \in OpenOrSucceeded =>
                               executions[j].state \in OpenOrSucceeded
      BY <1>0, OldRows DEF Evolves, Identity
    <2>2. CASE c \in Ids /\ d \in Ids
      BY <1>0, <2>1, <2>2 DEF OneConfirmationPerSighting
    <2>3. CASE c = NextId /\ d \in Ids
      BY <2>1, <2>3, NewConfirmationIsAlone
    <2>4. CASE c \in Ids /\ d = NextId
      BY <2>1, <2>4, NewConfirmationIsAlone
    <2>5. QED
      BY <1>0, <2>2, <2>3, <2>4, OldRows
  <1>2. OneLiveConfirmation'
    <2> SUFFICES ASSUME NEW m \in Monitors, NEW c \in Ids', NEW d \in Ids',
                        executions'[c].mon = m, Live(c)', executions'[d].mon = m, Live(d)',
                        executions'[c].trigger # 0, executions'[d].trigger # 0
                 PROVE  c = d
      BY DEF OneLiveConfirmation, LiveExecutions
    <2>1. \A j \in Ids : /\ executions'[j].trigger = executions[j].trigger
                         /\ executions'[j].mon = executions[j].mon
                         /\ Live(j)' => Live(j)
      BY <1>0, OldRows DEF Evolves, Identity
    <2>2. CASE c \in Ids /\ d \in Ids
      BY <1>0, <2>1, <2>2 DEF OneLiveConfirmation, LiveExecutions
    <2>3. CASE c = NextId /\ d \in Ids
      BY <2>1, <2>3, NewConfirmationIsAlone
    <2>4. CASE c \in Ids /\ d = NextId
      BY <2>1, <2>4, NewConfirmationIsAlone
    <2>5. QED
      BY <1>0, <2>2, <2>3, <2>4, OldRows
  <1>3. AlertsAreConfirmations'
    <2>1. \A a \in alerts : /\ a \in Ids /\ executions[a].trigger # 0
                            /\ executions[a].state = "succeeded" /\ executions[a].obs = "hit"
      BY DEF ConfirmationInv, AlertsAreConfirmations
    <2>2. \A a \in alerts : executions'[a] = executions[a]
      BY <2>1 DEF Evolves, Live, LiveStates
    <2>3. Ids \subseteq Ids' /\ \A j \in Ids : executions'[j].trigger = executions[j].trigger
      BY <1>0, OldRows DEF Evolves, Identity
    <2>4. \A a \in alerts' :
             \/ a \in alerts
             \/ /\ a \in Ids /\ executions[a].trigger # 0
                /\ executions'[a].state = "succeeded" /\ executions'[a].obs = "hit"
      BY DEF Evolves
    <2>5. QED
      BY <2>1, <2>2, <2>3, <2>4 DEF AlertsAreConfirmations
  <1>4. QED
    BY <1>1, <1>2, <1>3, AskedForStep DEF ConfirmationInv

(* The bookkeeping of confirmations is consistent in every reachable state. *)
THEOREM ConfirmationsConsistent == Spec => []ConfirmationInv
  <1>1. Init => ConfirmationInv
    <2> SUFFICES ASSUME Init PROVE ConfirmationInv
      OBVIOUS
    <2>1. Ids = {} /\ alerts = {}
      BY DEF Init, Ids
    <2>2. QED
      BY <2>1, TypeInit DEF ConfirmationInv, ConfirmationsAreAskedFor, OneConfirmationPerSighting,
                            OneLiveConfirmation, LiveExecutions, AlertsAreConfirmations
  <1>2. ConfirmationInv /\ [Next]_vars => ConfirmationInv'
    <2> SUFFICES ASSUME ConfirmationInv, [Next]_vars PROVE ConfirmationInv'
      OBVIOUS
    <2>1. TypeOK
      BY DEF ConfirmationInv
    <2>2. TypeOK' /\ Evolves
      BY <2>1, TypeNext, NextEvolves
    <2>3. QED
      BY <2>2, ConfirmationStep
  <1>3. QED
    BY <1>1, <1>2, PTL DEF Spec

(* At most one confirmation of a monitor is in flight: a replacement starts *)
(* only as its predecessor fails, and a check asks for none while one waits. *)
THEOREM ConfirmationsAreSerial == Spec => []OneLiveConfirmation
  <1>1. ConfirmationInv => OneLiveConfirmation
    BY DEF ConfirmationInv
  <1>2. QED
    BY <1>1, ConfirmationsConsistent, PTL

(* An alert rests on two matching observations: that of the confirmation    *)
(* and that of the ordinary check of the same plan that asked for it.        *)
THEOREM AlertsRestOnTwoSightings == Spec => []AlertsAreConfirmed
  <1>1. ConfirmationInv => AlertsAreConfirmed
    BY DEF ConfirmationInv, AlertsAreConfirmed, AlertsAreConfirmations, ConfirmationsAreAskedFor
  <1>2. QED
    BY <1>1, ConfirmationsConsistent, PTL

(* A sighting raises at most one alert, however often its confirmation is   *)
(* swept, replaced and reported late.                                        *)
THEOREM SightingAlertsOnce == Spec => []OneAlertPerSighting
  <1>1. ConfirmationInv => OneAlertPerSighting
    BY DEF ConfirmationInv, OneAlertPerSighting, AlertsAreConfirmations, OneConfirmationPerSighting,
           OpenOrSucceeded
  <1>2. QED
    BY <1>1, ConfirmationsConsistent, PTL

-------------------------------------------------------------------------------
(* How the rows of monitors change. *)

(* A step leaves a monitor's status and schedule alone, takes it out of     *)
(* service, or gives it a next run; the exceptions are its creation, its    *)
(* first plan and the rejection of a candidate.                              *)
Untouched(x, y) == y.status = x.status /\ y.next = x.next /\ y.rev = x.rev

OutOfService(y) == y.status \in {"paused", "blocked", "needs_review"}

HasNextRun(x, y) ==
    y.next # "null" /\ (y.status = "active" \/ (y.status = x.status /\ y.rev = x.rev))

MonitorEvolves(n) ==
    \/ Untouched(monitors[n], monitors'[n])
    \/ OutOfService(monitors'[n])
    \/ HasNextRun(monitors[n], monitors'[n])
    \/ CreateMonitor(n)
    \/ /\ monitors'[n].status = "awaiting_confirmation"
       /\ \E e \in Ids : CompileSucceeded(e) /\ executions[e].mon = n
    \/ \E g \in Generations : ReviewRevision(n, g, FALSE) /\ monitors[n].rev # 0

LEMMA NewRows ==
    ASSUME TypeOK, NEW m \in Monitors
    PROVE  /\ \A st \in Status : /\ WithStatus(m, st) \in Monitor /\ WithStatus(m, st).status = st
           /\ \A b \in BOOLEAN : /\ WithMatched(m, b) \in Monitor
                                 /\ Untouched(monitors[m], WithMatched(m, b))
           /\ \A st \in Status, n \in {"null", "later", "due"} :
                 /\ Scheduled(m, st, n) \in Monitor
                 /\ Scheduled(m, st, n).status = st /\ Scheduled(m, st, n).next = n
                 /\ Scheduled(m, st, n).rev = monitors[m].rev
           /\ \A g \in Generations : /\ Activated(m, g) \in Monitor
                                     /\ Activated(m, g).status = "active"
                                     /\ Activated(m, g).next = "later"
  <1>1. PICK x \in Monitor : x = monitors[m]
    BY DEF TypeOK
  <1>2. \A st \in Status : /\ [x EXCEPT !.status = st] \in Monitor
                           /\ [x EXCEPT !.status = st].status = st
    BY DEF Monitor, Status
  <1>3. \A b \in BOOLEAN : /\ [x EXCEPT !.matched = b] \in Monitor
                           /\ Untouched(x, [x EXCEPT !.matched = b])
    BY DEF Monitor, Untouched
  <1>4. ASSUME NEW st \in Status, NEW n \in {"null", "later", "due"}
        PROVE  /\ Scheduled(m, st, n) \in Monitor
               /\ Scheduled(m, st, n).status = st /\ Scheduled(m, st, n).next = n
               /\ Scheduled(m, st, n).rev = monitors[m].rev
    BY <1>1 DEF Monitor, Status, Scheduled
  <1>5. \A g \in Generations :
           /\ [x EXCEPT !.rev = g, !.status = "active", !.next = "later"] \in Monitor
           /\ [x EXCEPT !.rev = g, !.status = "active", !.next = "later"].status = "active"
           /\ [x EXCEPT !.rev = g, !.status = "active", !.next = "later"].next = "later"
    BY DEF Monitor
  <1>6. \A st \in Status : WithStatus(m, st) \in Monitor /\ WithStatus(m, st).status = st
    BY <1>1, <1>2 DEF WithStatus
  <1>7. \A b \in BOOLEAN : /\ WithMatched(m, b) \in Monitor
                           /\ Untouched(monitors[m], WithMatched(m, b))
    BY <1>1, <1>3 DEF WithMatched
  <1>8. \A g \in Generations : /\ Activated(m, g) \in Monitor
                               /\ Activated(m, g).status = "active"
                               /\ Activated(m, g).next = "later"
    BY <1>1, <1>5 DEF Activated
  <1>9. QED
    BY <1>4, <1>6, <1>7, <1>8

(* The rows a transaction may give a monitor. *)
LEMMA RowEvolves ==
    ASSUME TypeOK, NEW m \in Monitors, NEW row \in Monitor, SetMonitor(m, row),
           Untouched(monitors[m], row) \/ OutOfService(row) \/ HasNextRun(monitors[m], row)
    PROVE  \A n \in Monitors : MonitorEvolves(n)
  BY SetMonitorRow DEF MonitorEvolves, Untouched

LEMMA StatusEvolves ==
    ASSUME TypeOK, NEW m \in Monitors, NEW st \in {"paused", "blocked", "needs_review"},
           NEW n \in {"null", "later", "due"},
           SetMonitor(m, WithStatus(m, st)) \/ SetMonitor(m, Scheduled(m, st, n))
    PROVE  \A k \in Monitors : MonitorEvolves(k)
  BY NewRows, RowEvolves DEF OutOfService, Status

LEMMA ActivationEvolves ==
    ASSUME TypeOK, NEW m \in Monitors, NEW g \in Generations, SetMonitor(m, Activated(m, g))
    PROVE  \A k \in Monitors : MonitorEvolves(k)
  BY NewRows, RowEvolves DEF HasNextRun

LEMMA SameRowEvolves ==
    ASSUME monitors' = monitors
    PROVE  \A k \in Monitors : MonitorEvolves(k)
  BY DEF MonitorEvolves, Untouched

LEMMA ObservationEvolves ==
    ASSUME TypeOK, NEW m \in Monitors, NEW b \in BOOLEAN,
           SetMonitor(m, WithMatched(m, b)) \/ SetMonitor(m, monitors[m])
    PROVE  \A k \in Monitors : MonitorEvolves(k)
  <1>1. monitors[m] \in Monitor /\ Untouched(monitors[m], monitors[m])
    BY DEF TypeOK, Untouched
  <1>2. QED
    BY <1>1, NewRows, RowEvolves

LEMMA MonitorsEvolve ==
    ASSUME TypeOK, Next
    PROVE  \A n \in Monitors : MonitorEvolves(n)
  <1>1. ASSUME NEW m \in Monitors, OperatorStep(m) PROVE \A n \in Monitors : MonitorEvolves(n)
    <2>1. CASE CreateMonitor(m)
      <3>1. \A n \in Monitors : n # m => monitors'[n] = monitors[n]
        BY <2>1 DEF CreateMonitor, SetMonitor, TypeOK
      <3>2. QED
        BY <2>1, <3>1 DEF MonitorEvolves, Untouched
    <2>2. CASE Pause(m)
      BY <2>2, StatusEvolves DEF Pause, Status
    <2>3. CASE Resume(m)
      <3>1. SetMonitor(m, Scheduled(m, "active", "due")) /\ "active" \in Status
        BY <2>3 DEF Resume, Status
      <3>2. QED
        BY <3>1, NewRows, RowEvolves DEF HasNextRun
    <2>4. CASE EnqueueCheck(m)
      BY <2>4, SameRowEvolves DEF EnqueueCheck
    <2>5. ASSUME NEW g \in Generations, ConfirmMonitor(m, g) PROVE \A n \in Monitors : MonitorEvolves(n)
      BY <2>5, ActivationEvolves DEF ConfirmMonitor
    <2>6. ASSUME NEW g \in Generations, ReviewRevision(m, g, TRUE)
          PROVE  \A n \in Monitors : MonitorEvolves(n)
      BY <2>6, ActivationEvolves DEF ReviewRevision
    <2>7. ASSUME NEW g \in Generations, ReviewRevision(m, g, FALSE)
          PROVE  \A n \in Monitors : MonitorEvolves(n)
      <3>1. CASE monitors[m].rev = 0
        BY <2>7, <3>1, StatusEvolves DEF ReviewRevision, Status
      <3>2. CASE monitors[m].rev # 0
        <4>1. \A n \in Monitors : n # m => monitors'[n] = monitors[n]
          BY <2>7 DEF ReviewRevision, SetMonitor, TypeOK
        <4>2. QED
          BY <2>7, <3>2, <4>1 DEF MonitorEvolves, Untouched
      <3>3. QED
        BY <3>1, <3>2
    <2>8. QED
      BY <1>1, <2>1, <2>2, <2>3, <2>4, <2>5, <2>6, <2>7 DEF OperatorStep
  <1>2. ASSUME NEW m \in Monitors, SchedulerStep(m) PROVE \A n \in Monitors : MonitorEvolves(n)
    <2>1. monitors[m].status \in Status
      BY DEF TypeOK, Monitor, Status
    <2>2. ASSUME NEW n \in {"later", "due"}, SetMonitor(m, Scheduled(m, monitors[m].status, n))
          PROVE  \A k \in Monitors : MonitorEvolves(k)
      BY <2>1, <2>2, NewRows, RowEvolves DEF HasNextRun
    <2>3. CASE NextRunArrives(m) \/ ClaimDue(m)
      BY <2>2, <2>3 DEF NextRunArrives, ClaimDue
    <2>4. CASE SnapshotDue(m) \/ SkipDue(m)
      BY <2>4, SameRowEvolves DEF SnapshotDue, SkipDue
    <2>5. QED
      BY <1>2, <2>3, <2>4 DEF SchedulerStep
  <1>3. ASSUME NEW e \in Ids, ExecutionStep(e) PROVE \A n \in Monitors : MonitorEvolves(n)
    <2> DEFINE m == executions[e].mon
    <2>0. m \in Monitors /\ revisions[m] \in Seq(RevisionState) /\ Len(revisions[m]) \in Nat
      BY ExecutionRow DEF TypeOK
    <2> HIDE DEF m
    <2>1. CASE GetExecutionInput(e)
      BY <2>1, SameRowEvolves DEF GetExecutionInput
    <2>2. CASE CompileSucceeded(e)
      <3>1. SetMonitor(m, WithStatus(m, "awaiting_confirmation"))
        BY <2>2 DEF CompileSucceeded, m
      <3>2. PICK row \in Monitor : /\ row = WithStatus(m, "awaiting_confirmation")
                                   /\ row.status = "awaiting_confirmation"
        BY <2>0, NewRows DEF Status
      <3>3. /\ monitors'[m].status = "awaiting_confirmation"
            /\ \A n \in Monitors : n # m => monitors'[n] = monitors[n]
        BY <2>0, <3>1, <3>2, SetMonitorRow
      <3>4. QED
        BY <2>2, <3>3 DEF MonitorEvolves, Untouched, m
    <2>3. ASSUME NEW auto \in AutoPromote, RepairSucceeded(e, auto)
          PROVE  \A n \in Monitors : MonitorEvolves(n)
      <3>1. Len(revisions[m]) + 1 \in Generations
        BY <2>0, <2>3, BoundsAssumption DEF RepairSucceeded, Generations, m
      <3>2. CASE Promotes(e, auto)
        BY <2>0, <2>3, <3>1, <3>2, ActivationEvolves DEF RepairSucceeded, m
      <3>3. CASE ~Promotes(e, auto)
        BY <2>0, <2>3, <3>3, StatusEvolves DEF RepairSucceeded, Status, m
      <3>4. QED
        BY <3>2, <3>3
    <2>4. ASSUME NEW obs \in {"none", "miss", "hit"},
                 OrdinaryCheckSucceeded(e, obs) \/ ConfirmationSucceeded(e, obs)
          PROVE  \A n \in Monitors : MonitorEvolves(n)
      <3>1. \E b \in BOOLEAN : SetMonitor(m, WithMatched(m, b)) \/ SetMonitor(m, monitors[m])
        BY <2>4 DEF OrdinaryCheckSucceeded, ConfirmationSucceeded, m
      <3>2. QED
        BY <2>0, <3>1, ObservationEvolves
    <2>5. CASE RepairGivesUp(e)
      BY <2>0, <2>5, StatusEvolves DEF RepairGivesUp, Status, m
    <2>6. CASE ApplyFailure(e)
      <3>1. PICK st \in FailureStatus :
               \/ StaleCheckOpensRepair(e, st)
               \/ StaleCheckRecorded(e, st)
               \/ \E class \in FailureClass :
                     \/ FailureRetried(e, st, class)
                     \/ CompileFailed(e, st, class)
                     \/ RepairFailed(e, st, class)
                     \/ CheckFailed(e, st, class)
        BY <2>6 DEF ApplyFailure
      <3>2. CASE StaleCheckOpensRepair(e, st)
        BY <2>0, <3>2, StatusEvolves DEF StaleCheckOpensRepair, Status, m
      <3>3. CASE StaleCheckRecorded(e, st)
        BY <3>3, SameRowEvolves DEF StaleCheckRecorded
      <3>4. ASSUME NEW class \in FailureClass, FailureRetried(e, st, class)
            PROVE  \A n \in Monitors : MonitorEvolves(n)
        BY <3>4, SameRowEvolves DEF FailureRetried, EnqueueReplacement
      <3>5. ASSUME NEW class \in FailureClass, CompileFailed(e, st, class)
            PROVE  \A n \in Monitors : MonitorEvolves(n)
        BY <2>0, <3>5, StatusEvolves DEF CompileFailed, Status, m
      <3>6. ASSUME NEW class \in FailureClass, RepairFailed(e, st, class)
            PROVE  \A n \in Monitors : MonitorEvolves(n)
        BY <2>5, <3>6 DEF RepairFailed
      <3>7. ASSUME NEW class \in FailureClass, CheckFailed(e, st, class)
            PROVE  \A n \in Monitors : MonitorEvolves(n)
        <4>1. \/ SetMonitor(m, WithStatus(m, "blocked"))
              \/ SetMonitor(m, Scheduled(m, "needs_review", "null"))
              \/ SetMonitor(m, monitors[m])
          BY <3>7 DEF CheckFailed, m
        <4>2. QED
          BY <2>0, <4>1, StatusEvolves, ObservationEvolves DEF Status
      <3>8. QED
        BY <3>1, <3>2, <3>3, <3>4, <3>5, <3>6, <3>7
    <2>7. CASE SweepRequeues(e)
      BY <2>7, SameRowEvolves DEF SweepRequeues, EnqueueReplacement
    <2>8. CASE SweepTerminates(e)
      <3>1. CASE RepairGivesUp(e)
        BY <2>5, <3>1
      <3>2. CASE SetMonitor(m, WithStatus(m, "blocked"))
        BY <2>0, <3>2, StatusEvolves DEF Status
      <3>3. CASE monitors' = monitors
        BY <3>3, SameRowEvolves
      <3>4. QED
        BY <2>8, <3>1, <3>2, <3>3 DEF SweepTerminates, m
    <2>9. QED
      BY <1>3, <2>1, <2>2, <2>3, <2>4, <2>6, <2>7, <2>8 DEF ExecutionStep, ApplyResult
  <1>4. QED
    BY <1>1, <1>2, <1>3 DEF Next

-------------------------------------------------------------------------------
(* The work behind a compiling monitor. *)

CompilingInv == TypeOK /\ CompilingHasWork

(* A replacement is live and does the work of the execution it replaces. *)
LEMMA ReplacementWorks ==
    ASSUME TypeOK, NEW e \in Ids, executions[e].attempt < MaxAttempts, NEW st \in FailureStatus,
           EnqueueReplacement(e, Finished(e, st, "none"))
    PROVE  /\ NextId \in Ids'
           /\ executions'[NextId].state = "queued" /\ Identity(executions'[NextId], executions[e])
  <1>1. PICK x \in Execution : x = Replacement(e)
    BY ReplacementRow DEF TypeOK
  <1>2. x.state = "queued" /\ Identity(x, executions[e])
    BY <1>1, ReplacementRow DEF TypeOK, Identity
  <1>3. PICK done \in Seq(Execution) :
           done = Finished(e, st, "none") /\ Len(done) = Len(executions)
    BY FinishedRow DEF TypeOK, FailureStatus
  <1>4. executions' = Append(done, x)
    BY <1>1, <1>3 DEF EnqueueReplacement
  <1>5. Len(executions') = NextId /\ executions'[NextId] = x /\ NextId \in Nat
    BY <1>3, <1>4, AppendedSeq DEF NextId
  <1>6. QED
    BY <1>2, <1>5 DEF Ids, NextId

(* A monitor of an unfinished compilation gets another status as it ends. *)
LEMMA CompileEnds ==
    ASSUME TypeOK, NEW m \in Monitors, NEW st \in {"awaiting_confirmation", "blocked", "needs_review"},
           SetMonitor(m, WithStatus(m, st))
    PROVE  monitors'[m].status # "compiling"
  <1>1. st \in Status
    BY DEF Status
  <1>2. PICK row \in Monitor : row = WithStatus(m, st) /\ row.status = st
    BY <1>1, NewRows
  <1>3. QED
    BY <1>2, SetMonitorRow

(* A step of a live compilation keeps it live, ends the compiling status of *)
(* its monitor or queues the compilation that continues it.                  *)
LEMMA CompileStep ==
    ASSUME TypeOK, NEW e \in Ids, ExecutionStep(e), executions[e].kind = "compile",
           monitors'[executions[e].mon].status = "compiling"
    PROVE  \E d \in Ids' : /\ executions'[d].mon = executions[e].mon
                           /\ executions'[d].kind = "compile" /\ executions'[d].state \in LiveStates
  <1> DEFINE m == executions[e].mon
  <1>0. /\ m \in Monitors /\ executions \in Seq(Execution) /\ executions[e] \in Execution
        /\ Evolves /\ e \in Ids'
    BY ExecutionRow, ExecutionEvolves, OldRows DEF TypeOK, Moves
  <1> HIDE DEF m
  <1>1. CASE GetExecutionInput(e)
    <2>1. executions' = [executions EXCEPT ![e].state = "running"]
      BY <1>1 DEF GetExecutionInput
    <2>2. /\ executions'[e].state = "running"
          /\ executions'[e].mon = m /\ executions'[e].kind = "compile"
      BY <1>0, <2>1 DEF Execution, Ids, m
    <2>3. QED
      BY <1>0, <2>2 DEF LiveStates, m
  <1>2. ASSUME executions[e].attempt < MaxAttempts, NEW st \in FailureStatus,
               EnqueueReplacement(e, Finished(e, st, "none"))
        PROVE  \E d \in Ids' : /\ executions'[d].mon = m /\ executions'[d].kind = "compile"
                               /\ executions'[d].state \in LiveStates
    BY <1>2, ReplacementWorks DEF Identity, LiveStates, m
  <1>3. ~ \E st \in {"awaiting_confirmation", "blocked", "needs_review"} :
             SetMonitor(m, WithStatus(m, st))
    BY <1>0, CompileEnds DEF m
  <1>4. \A st \in FailureStatus, class \in FailureClass :
           /\ ~CompileFailed(e, st, class) /\ ~RepairFailed(e, st, class)
           /\ ~CheckFailed(e, st, class)
    BY <1>3 DEF CompileFailed, RepairFailed, CheckFailed, m
  <1>5. /\ ~CompileSucceeded(e) /\ \A auto \in AutoPromote : ~RepairSucceeded(e, auto)
        /\ \A obs \in {"none", "miss", "hit"} :
              ~OrdinaryCheckSucceeded(e, obs) /\ ~ConfirmationSucceeded(e, obs)
        /\ \A st \in FailureStatus : ~StaleCheckOpensRepair(e, st) /\ ~StaleCheckRecorded(e, st)
        /\ ~SweepTerminates(e)
    BY <1>3 DEF CompileSucceeded, RepairSucceeded, OrdinaryCheckSucceeded, ConfirmationSucceeded,
                StaleCheckOpensRepair, StaleCheckRecorded, SweepTerminates, m
  <1>6. CASE ApplyFailure(e)
    <2>1. PICK st \in FailureStatus, class \in FailureClass : FailureRetried(e, st, class)
      BY <1>4, <1>5, <1>6 DEF ApplyFailure
    <2>2. QED
      BY <1>2, <2>1 DEF FailureRetried, ShouldRetry, m
  <1>7. CASE SweepRequeues(e)
    BY <1>2, <1>7 DEF SweepRequeues, FailureStatus, m
  <1>8. QED
    BY <1>1, <1>5, <1>6, <1>7 DEF ExecutionStep, ApplyResult

(* A step that is no execution's leaves every execution as it is. *)
LEMMA OtherStepsStay ==
    ASSUME TypeOK, NEW m \in Monitors, OperatorStep(m) \/ SchedulerStep(m)
    PROVE  \A j \in Ids : executions'[j] = executions[j]
  <1>1. executions \in Seq(Execution) /\ monitors[m].rev \in {0} \cup Generations
    BY DEF TypeOK, Monitor
  <1>2. ASSUME NEW x \in Execution, executions' = Append(executions, x)
        PROVE  \A j \in Ids : executions'[j] = executions[j]
    BY <1>1, <1>2, AppendedSeq DEF Ids
  <1>3. CASE CreateMonitor(m)
    BY <1>2, <1>3, NewRow DEF CreateMonitor
  <1>4. CASE InsertCheck(m)
    <2>1. PICK x \in Execution : x = NewExecution(m, "check", monitors[m].rev, 1, 0, 0)
      BY <1>1, NewRow
    <2>2. QED
      BY <1>2, <1>4, <2>1 DEF InsertCheck
  <1>5. CASE UNCHANGED executions
    BY <1>5
  <1>6. QED
    BY <1>3, <1>4, <1>5
    DEF OperatorStep, SchedulerStep, Pause, Resume, EnqueueCheck, ConfirmMonitor,
        ReviewRevision, NextRunArrives, SnapshotDue, ClaimDue, SkipDue

(* A new monitor is compiled by the execution inserted with it. *)
LEMMA CreationWorks ==
    ASSUME TypeOK, NEW m \in Monitors, CreateMonitor(m)
    PROVE  \E d \in Ids' : /\ executions'[d].mon = m /\ executions'[d].kind = "compile"
                           /\ executions'[d].state \in LiveStates
  <1>1. PICK x \in Execution : x = NewExecution(m, "compile", 0, 1, 0, 0)
    BY NewRow
  <1>2. executions \in Seq(Execution) /\ executions' = Append(executions, x)
    BY <1>1 DEF TypeOK, CreateMonitor
  <1>3. Len(executions') = NextId /\ executions'[NextId] = x /\ NextId \in Nat \ {0}
    BY <1>2, AppendedSeq DEF NextId
  <1>4. x.mon = m /\ x.kind = "compile" /\ x.state = "queued"
    BY <1>1 DEF NewExecution
  <1>5. QED
    BY <1>3, <1>4 DEF Ids, LiveStates

LEMMA CompilingNext == CompilingInv /\ [Next]_vars => CompilingInv'
  <1> SUFFICES ASSUME CompilingInv, [Next]_vars PROVE CompilingInv'
    OBVIOUS
  <1>1. TypeOK /\ TypeOK' /\ Evolves
    BY TypeNext, NextEvolves DEF CompilingInv
  <1>2. SUFFICES ASSUME NEW m \in Monitors, monitors'[m].status = "compiling"
                 PROVE  \E d \in Ids' : /\ executions'[d].mon = m /\ executions'[d].kind = "compile"
                                        /\ executions'[d].state \in LiveStates
    BY <1>1 DEF CompilingInv, CompilingHasWork, LiveExecutions, Live
  <1>3. CASE CreateMonitor(m)
    BY <1>1, <1>3, CreationWorks
  <1>4. CASE ~CreateMonitor(m)
    <2>1. monitors[m].status = "compiling"
      <3>1. CASE Next
        <4>1. MonitorEvolves(m)
          BY <1>1, <3>1, MonitorsEvolve
        <4>2. ASSUME NEW g \in Generations, ReviewRevision(m, g, FALSE) PROVE FALSE
          <5>1. PICK st \in {"blocked", "active"} : SetMonitor(m, WithStatus(m, st))
            BY <4>2 DEF ReviewRevision
          <5>2. PICK row \in Monitor : row = WithStatus(m, st) /\ row.status = st
            BY <1>1, NewRows DEF Status
          <5>3. QED
            BY <1>1, <1>2, <5>1, <5>2, SetMonitorRow
        <4>3. QED
          BY <1>2, <1>4, <4>1, <4>2 DEF MonitorEvolves, Untouched, OutOfService, HasNextRun
      <3>2. CASE UNCHANGED vars
        BY <1>2, <3>2 DEF vars
      <3>3. QED
        BY <3>1, <3>2
    <2>2. PICK c \in Ids : /\ executions[c].mon = m /\ executions[c].kind = "compile"
                           /\ executions[c].state \in LiveStates
      BY <2>1 DEF CompilingInv, CompilingHasWork, LiveExecutions, Live
    <2>3. CASE executions'[c] = executions[c]
      BY <1>1, <2>2, <2>3, OldRows
    <2>4. CASE ExecutionStep(c)
      BY <1>1, <1>2, <2>2, <2>4, CompileStep
    <2>5. ASSUME NEW e \in Ids, ExecutionStep(e), e # c PROVE executions'[c] = executions[c]
      BY <1>1, <2>5, ExecutionEvolves DEF Moves
    <2>6. ASSUME NEW n \in Monitors, OperatorStep(n) \/ SchedulerStep(n)
          PROVE  executions'[c] = executions[c]
      BY <1>1, <2>6, OtherStepsStay
    <2>7. CASE UNCHANGED vars
      BY <2>3, <2>7 DEF vars
    <2>8. QED
      BY <2>3, <2>4, <2>5, <2>6, <2>7 DEF Next
  <1>5. QED
    BY <1>3, <1>4

(* While a monitor is compiling, a compilation of it is queued or running:  *)
(* a failed or swept attempt ends the status or queues the next attempt in  *)
(* its own transaction, whoever else changes the monitor meanwhile.          *)
THEOREM CompilingIsWorkedOn == Spec => []CompilingHasWork
  <1>1. Init => CompilingInv
    BY TypeInit DEF Init, CompilingInv, CompilingHasWork
  <1>2. CompilingInv => CompilingHasWork
    BY DEF CompilingInv
  <1>3. QED
    BY <1>1, <1>2, CompilingNext, PTL DEF Spec

-------------------------------------------------------------------------------
(* The schedule of an active monitor. *)

(* Once a monitor has a plan, what waits for review was made by a repair.   *)
CandidatesHaveRows ==
    \A m \in Monitors : monitors[m].rev # 0 =>
        \A g \in Generations : Reviewable(m, g) => \E h \in Generations : repairs[m][h].candidate = g

(* The candidate of a rejected repair is rejected, so it is not reviewed again. *)
RejectedForGood ==
    \A m \in Monitors, h \in Generations : repairs[m][h].state = "rejected" =>
        /\ repairs[m][h].candidate \in DOMAIN revisions[m]
        /\ revisions[m][repairs[m][h].candidate] = "rejected"

PlansInv == CandidatesHaveRows /\ RejectedForGood

(* Revisions stay, with their states unless they wait for review. *)
RevisionsStay ==
    \A m \in Monitors : \A g \in DOMAIN revisions[m] :
        /\ g \in DOMAIN revisions'[m]
        /\ ~Reviewable(m, g) => revisions'[m][g] = revisions[m][g]

(* An attempt that is over stays as it is, and none is rejected. *)
OverStays(m, h) ==
    \/ repairs'[m][h] = repairs[m][h]
    \/ repairs[m][h].state \notin RepairDone /\ repairs'[m][h].state # "rejected"

RowsStay == \A m \in Monitors, h \in Generations : OverStays(m, h)

(* What starts to wait for review has a row, or the monitor has no plan. *)
WaitsStay ==
    \A m \in Monitors, g \in Generations :
        monitors'[m].rev # 0 /\ Reviewable(m, g)' =>
            \/ monitors[m].rev # 0 /\ Reviewable(m, g)
            \/ \E h \in Generations : repairs'[m][h].candidate = g

RejectedStay ==
    \A m \in Monitors, h \in Generations :
        repairs[m][h].state = "rejected" => repairs'[m][h].state = "rejected"

LEMMA PlansKept ==
    ASSUME RepairInv, PlansInv, RevisionsStay, RowsStay, WaitsStay
    PROVE  PlansInv' /\ RejectedStay
  <1>1. \A m \in Monitors, h \in Generations :
           repairs[m][h].candidate # 0 => repairs[m][h].state \in RepairDone
    BY DEF RepairInv, RepairRows, RepairRowOK
  <1>2. \A m \in Monitors, g, h \in Generations :
           repairs[m][h].candidate = g => repairs'[m][h].candidate = g
    BY <1>1, BoundsAssumption DEF RowsStay, OverStays, Generations
  <1>3. CandidatesHaveRows'
    BY <1>2 DEF WaitsStay, PlansInv, CandidatesHaveRows
  <1>4. \A m \in Monitors, h \in Generations :
           repairs'[m][h].state = "rejected" => repairs'[m][h] = repairs[m][h]
    BY DEF RowsStay, OverStays
  <1>5. RejectedForGood'
    <2> SUFFICES ASSUME NEW m \in Monitors, NEW h \in Generations,
                        repairs'[m][h].state = "rejected"
                 PROVE  /\ repairs'[m][h].candidate \in DOMAIN revisions'[m]
                        /\ revisions'[m][repairs'[m][h].candidate] = "rejected"
      BY DEF RejectedForGood
    <2>1. repairs'[m][h] = repairs[m][h] /\ repairs[m][h].state = "rejected"
      BY <1>4
    <2>2. PICK g \in DOMAIN revisions[m] : g = repairs[m][h].candidate /\ revisions[m][g] = "rejected"
      BY <2>1 DEF PlansInv, RejectedForGood
    <2>3. g \in DOMAIN revisions'[m] /\ revisions'[m][g] = "rejected"
      BY <2>2 DEF RevisionsStay, Reviewable
    <2>4. QED
      BY <2>1, <2>2, <2>3
  <1>6. RejectedStay
    BY DEF RejectedStay, RowsStay, OverStays, RepairDone
  <1>7. QED
    BY <1>3, <1>5, <1>6 DEF PlansInv

(* Steps that add no revision and give no monitor its first plan. *)
LEMMA QuietPlans ==
    ASSUME revisions' = revisions,
           \A m \in Monitors : monitors'[m].rev = monitors[m].rev
    PROVE  RevisionsStay /\ WaitsStay
  BY DEF RevisionsStay, WaitsStay, Reviewable

(* A step of a live repair rewrites only its own attempt, which is open. *)
LEMMA LiveRowStays ==
    ASSUME RepairInv, NEW e \in Ids, Live(e), executions[e].kind = "repair",
           NEW row, row.state # "rejected", repairs' = SetRepair(executions[e].mon, e, row)
    PROVE  RowsStay
  <1> DEFINE m == executions[e].mon
             g == executions[e].rev
  <1>1. /\ m \in Monitors /\ g \in Generations /\ repairs[m][g].state = executions[e].state
    BY LiveRepairIsNewest
  <1>2. repairs[m][g].state \notin RepairDone
    BY <1>1 DEF Live, LiveStates, RepairDone
  <1>3. /\ repairs'[m][g] = row
        /\ \A n \in Monitors, h \in Generations :
              ~(n = m /\ h = g) => repairs'[n][h] = repairs[n][h]
    BY RepairRowOfLive
  <1> HIDE DEF m, g
  <1>4. QED
    BY <1>2, <1>3 DEF RowsStay, OverStays

LEMMA InputPlans ==
    ASSUME RepairInv, NEW e \in Ids, GetExecutionInput(e)
    PROVE  RevisionsStay /\ RowsStay /\ WaitsStay
  <1>1. /\ repairs \in [Monitors -> [Generations -> RepairAttempt]]
        /\ monitors' = monitors /\ revisions' = revisions
    BY DEF RepairInv, TypeOK, GetExecutionInput
  <1>2. ASSUME NEW n \in Monitors, NEW h \in Generations PROVE OverStays(n, h)
    <2>1. PICK r \in RepairAttempt : r = repairs[n][h]
      BY <1>1
    <2>2. \/ repairs'[n][h] = r
          \/ r.state = "queued" /\ repairs'[n][h] = [r EXCEPT !.state = "running"]
      BY <1>1, <2>1 DEF GetExecutionInput
    <2>3. r.state = "queued" => [r EXCEPT !.state = "running"].state = "running"
      BY DEF RepairAttempt
    <2>4. QED
      BY <2>1, <2>2, <2>3 DEF OverStays, RepairDone
  <1>3. QED
    BY <1>1, <1>2, QuietPlans DEF RowsStay

LEMMA ConfirmPlans ==
    ASSUME RepairInv, NEW m \in Monitors, NEW g \in Generations, ConfirmMonitor(m, g)
    PROVE  RevisionsStay /\ RowsStay /\ WaitsStay
  <1> DEFINE s == [h \in 1..Len(revisions[m]) |->
                     IF h = g THEN "active"
                     ELSE IF Reviewable(m, h) THEN "rejected" ELSE revisions[m][h]]
  <1>1. /\ TypeOK /\ revisions \in [Monitors -> Seq(RevisionState)]
        /\ revisions' = [revisions EXCEPT ![m] = s] /\ repairs' = repairs
        /\ Reviewable(m, g) /\ SetMonitor(m, Activated(m, g))
    BY DEF RepairInv, TypeOK, ConfirmMonitor
  <1>2. DOMAIN revisions[m] = 1..Len(revisions[m])
    BY <1>1, LenProperties
  <1>3. /\ revisions'[m] = s
        /\ \A n \in Monitors : n # m => revisions'[n] = revisions[n] /\ monitors'[n] = monitors[n]
    BY <1>1 DEF SetMonitor, TypeOK
  <1>4. /\ DOMAIN revisions'[m] = DOMAIN revisions[m]
        /\ \A h \in DOMAIN revisions[m] :
              /\ ~Reviewable(m, h) => revisions'[m][h] = revisions[m][h]
              /\ revisions'[m][h] \notin {"candidate", "awaiting_confirmation"}
    BY <1>1, <1>2, <1>3 DEF Reviewable
  <1> HIDE DEF s
  <1>5. RevisionsStay
    BY <1>3, <1>4 DEF RevisionsStay
  <1>6. WaitsStay
    BY <1>3, <1>4 DEF WaitsStay, Reviewable
  <1>7. QED
    BY <1>1, <1>5, <1>6 DEF RowsStay, OverStays

(* A step that adds a generation to one monitor. *)
LEMMA AppendedPlans ==
    ASSUME TypeOK, NEW m \in Monitors, NEW v \in RevisionState,
           revisions' = [revisions EXCEPT ![m] = Append(@, v)]
    PROVE  /\ RevisionsStay
           /\ \A n \in Monitors : n # m => revisions'[n] = revisions[n]
           /\ DOMAIN revisions'[m] = DOMAIN revisions[m] \cup {Len(revisions[m]) + 1}
           /\ \A h \in DOMAIN revisions[m] : revisions'[m][h] = revisions[m][h]
  <1>1. /\ revisions \in [Monitors -> Seq(RevisionState)] /\ Len(revisions[m]) \in Nat
        /\ DOMAIN revisions[m] = 1..Len(revisions[m])
    BY LenProperties DEF TypeOK
  <1>2. revisions'[m] = Append(revisions[m], v)
    BY <1>1
  <1>3. /\ revisions'[m] \in Seq(RevisionState) /\ Len(revisions'[m]) = Len(revisions[m]) + 1
        /\ \A h \in 1..Len(revisions[m]) : revisions'[m][h] = revisions[m][h]
    BY <1>1, <1>2, AppendedSeq
  <1>4. DOMAIN revisions'[m] = 1..(Len(revisions[m]) + 1)
    BY <1>3, LenProperties
  <1>5. \A n \in Monitors : n # m => revisions'[n] = revisions[n]
    BY <1>1
  <1>6. DOMAIN revisions'[m] = DOMAIN revisions[m] \cup {Len(revisions[m]) + 1}
    BY <1>1, <1>4
  <1>7. QED
    BY <1>1, <1>3, <1>5, <1>6 DEF RevisionsStay

LEMMA CompilePlans ==
    ASSUME RepairInv, NEW e \in Ids, CompileSucceeded(e)
    PROVE  RevisionsStay /\ RowsStay /\ WaitsStay
  <1> DEFINE m == executions[e].mon
  <1>1. TypeOK /\ m \in Monitors /\ "awaiting_confirmation" \in RevisionState
    BY ExecutionRow DEF RepairInv, RevisionState
  <1>2. /\ executions[e].kind = "compile" /\ Live(e) /\ repairs' = repairs
        /\ revisions' = [revisions EXCEPT ![m] = Append(@, "awaiting_confirmation")]
        /\ SetMonitor(m, WithStatus(m, "awaiting_confirmation"))
    BY DEF CompileSucceeded, Reportable
  <1>3. Len(revisions[m]) = 0
    BY <1>2 DEF RepairInv, OneLiveCompile
  <1> HIDE DEF m
  <1>4. monitors[m].rev = 0
    BY <1>1, <1>3, MonitorKnown, BoundsAssumption DEF RepairInv, CurrentExists, Generations
  <1>5. /\ monitors'[m].rev = 0
        /\ \A n \in Monitors : n # m => monitors'[n] = monitors[n]
    BY <1>1, <1>2, <1>4, MonitorRows, SetMonitorRow DEF Status
  <1>6. RevisionsStay /\ \A n \in Monitors : n # m => revisions'[n] = revisions[n]
    BY <1>1, <1>2, AppendedPlans
  <1>7. WaitsStay
    BY <1>5, <1>6 DEF WaitsStay, Reviewable
  <1>8. QED
    BY <1>2, <1>6, <1>7 DEF RowsStay, OverStays

LEMMA RepairPlans ==
    ASSUME RepairInv, NEW e \in Ids, NEW auto \in AutoPromote, RepairSucceeded(e, auto)
    PROVE  RevisionsStay /\ RowsStay /\ WaitsStay
  <1> DEFINE m == executions[e].mon
             g == Len(revisions[m]) + 1
             v == IF Promotes(e, auto) THEN "active" ELSE "candidate"
             row == [state |-> IF Promotes(e, auto) THEN "activated" ELSE "candidate",
                     execution |-> e, candidate |-> g]
  <1>1. TypeOK /\ m \in Monitors /\ v \in RevisionState /\ row.state # "rejected" /\ row.candidate = g
    BY ExecutionRow DEF RepairInv, RevisionState
  <1>2. /\ executions[e].kind = "repair" /\ Live(e)
        /\ repairs' = SetRepair(m, e, row)
        /\ revisions' = [revisions EXCEPT ![m] = Append(@, v)]
        /\ \E r : monitors' = [monitors EXCEPT ![m] = r]
    BY DEF RepairSucceeded, Reportable, SetMonitor
  <1>3. /\ executions[e].rev \in Generations /\ monitors[m].rev \in Generations
        /\ repairs'[m][executions[e].rev] = row
    <2>1. executions[e].rev \in Generations /\ monitors[m].rev = executions[e].rev
      BY <1>2, LiveRepairIsNewest
    <2> HIDE DEF row
    <2>2. repairs'[m][executions[e].rev] = row
      BY <1>2, RepairRowOfLive
    <2>3. QED
      BY <2>1, <2>2
  <1>4. RowsStay
    BY <1>1, <1>2, LiveRowStays
  <1> HIDE DEF row, m, v
  <1>5. /\ RevisionsStay
        /\ \A n \in Monitors : n # m => revisions'[n] = revisions[n] /\ monitors'[n] = monitors[n]
        /\ DOMAIN revisions'[m] = DOMAIN revisions[m] \cup {g}
        /\ \A h \in DOMAIN revisions[m] : revisions'[m][h] = revisions[m][h]
    BY <1>1, <1>2, AppendedPlans DEF TypeOK
  <1>6. WaitsStay
    BY <1>1, <1>3, <1>5, BoundsAssumption DEF WaitsStay, Reviewable, Generations
  <1>7. QED
    BY <1>4, <1>5, <1>6

(* Failures and sweeps end or hand over attempts, and open at most one. *)
LEMMA GiveUpPlans ==
    ASSUME RepairInv, NEW e \in Ids, Live(e), executions[e].kind = "repair", RepairGivesUp(e)
    PROVE  RevisionsStay /\ RowsStay /\ WaitsStay
  <1> DEFINE m == executions[e].mon
             row == [state |-> "failed", execution |-> e, candidate |-> 0]
  <1>1. TypeOK /\ m \in Monitors /\ "needs_review" \in Status
    BY ExecutionRow DEF RepairInv, Status
  <1>2. /\ repairs' = SetRepair(m, e, row) /\ row.state # "rejected" /\ revisions' = revisions
        /\ SetMonitor(m, Scheduled(m, "needs_review", "null"))
    BY DEF RepairGivesUp
  <1> HIDE DEF row
  <1>3. RowsStay
    BY <1>2, LiveRowStays
  <1> HIDE DEF m
  <1>4. \A n \in Monitors : monitors'[n].rev = monitors[n].rev
    BY <1>1, <1>2, MonitorRows, SetMonitorRow
  <1>5. QED
    BY <1>2, <1>3, <1>4, QuietPlans

LEMMA ReplacementPlans ==
    ASSUME RepairInv, NEW e \in Ids, Live(e), NEW st \in FailureStatus,
           EnqueueReplacement(e, Finished(e, st, "none"))
    PROVE  RevisionsStay /\ RowsStay /\ WaitsStay
  <1> DEFINE row == [state |-> "queued", execution |-> NextId, candidate |-> 0]
  <1>1. /\ revisions' = revisions /\ monitors' = monitors
        /\ \/ repairs' = repairs
           \/ executions[e].kind = "repair" /\ repairs' = SetRepair(executions[e].mon, e, row)
        /\ row.state # "rejected"
    BY DEF EnqueueReplacement, HandOver
  <1> HIDE DEF row
  <1>2. RowsStay
    <2>1. CASE repairs' = repairs
      BY <2>1 DEF RowsStay, OverStays
    <2>2. CASE executions[e].kind = "repair" /\ repairs' = SetRepair(executions[e].mon, e, row)
      BY <1>1, <2>2, LiveRowStays
    <2>3. QED
      BY <1>1, <2>1, <2>2
  <1>3. QED
    BY <1>1, <1>2, QuietPlans

LEMMA OpenedPlans ==
    ASSUME RepairInv, NEW e \in Ids, NEW st \in FailureStatus, StaleCheckOpensRepair(e, st)
    PROVE  RevisionsStay /\ RowsStay /\ WaitsStay
  <1> DEFINE m == executions[e].mon
             g == executions[e].rev
             row == [state |-> "queued", execution |-> NextId, candidate |-> 0]
  <1>1. TypeOK /\ m \in Monitors /\ "needs_review" \in Status
        /\ repairs \in [Monitors -> [Generations -> RepairAttempt]]
    BY ExecutionRow DEF RepairInv, TypeOK, Status
  <1>2. /\ repairs[m][g].state = "none" /\ row.state # "rejected" /\ revisions' = revisions
        /\ repairs' = [repairs EXCEPT ![m][g] = row]
        /\ SetMonitor(m, Scheduled(m, "needs_review", "null"))
    BY DEF StaleCheckOpensRepair, RepairNeeded
  <1> HIDE DEF m, g, row
  <1>3. \A n \in Monitors : monitors'[n].rev = monitors[n].rev
    BY <1>1, <1>2, MonitorRows, SetMonitorRow
  <1>4. \A n \in Monitors, h \in Generations :
           repairs'[n][h] = IF n = m /\ h = g THEN row ELSE repairs[n][h]
    BY <1>1, <1>2
  <1>5. RowsStay
    BY <1>2, <1>4 DEF RowsStay, OverStays, RepairDone
  <1>6. QED
    BY <1>2, <1>3, <1>5, QuietPlans

LEMMA CreationPlans ==
    ASSUME RepairInv, NEW m \in Monitors, CreateMonitor(m)
    PROVE  RevisionsStay /\ RowsStay /\ WaitsStay
  <1>1. /\ TypeOK /\ revisions' = revisions /\ repairs' = repairs
        /\ SetMonitor(m, WithStatus(m, "compiling")) /\ "compiling" \in Status
    BY DEF RepairInv, CreateMonitor, Status
  <1>2. \A n \in Monitors : monitors'[n].rev = monitors[n].rev
    BY <1>1, MonitorRows, SetMonitorRow
  <1>3. QED
    BY <1>1, <1>2, QuietPlans DEF RowsStay, OverStays

LEMMA CheckPlans ==
    ASSUME CheckStep
    PROVE  RevisionsStay /\ RowsStay /\ WaitsStay
  BY QuietPlans DEF CheckStep, QuietMonitors, RowsStay, OverStays

(* Of all steps, reviews alone change an attempt that is over. *)
LEMMA PlansStep ==
    ASSUME RepairInv, Next,
           \A m \in Monitors, g \in Generations, accept \in BOOLEAN : ~ReviewRevision(m, g, accept)
    PROVE  RevisionsStay /\ RowsStay /\ WaitsStay
  <1> DEFINE Kept == RevisionsStay /\ RowsStay /\ WaitsStay
  <1>1. ASSUME NEW m \in Monitors, OperatorStep(m) \/ SchedulerStep(m) PROVE Kept
    <2>1. CASE Pause(m) \/ Resume(m) \/ EnqueueCheck(m) \/ SchedulerStep(m)
      BY <2>1, ScheduleIsCheckStep, CheckPlans
    <2>2. CASE CreateMonitor(m)
      BY <2>2, CreationPlans
    <2>3. ASSUME NEW g \in Generations, ConfirmMonitor(m, g) PROVE Kept
      BY <2>3, ConfirmPlans
    <2>4. QED
      BY <1>1, <2>1, <2>2, <2>3 DEF OperatorStep
  <1>2. ASSUME NEW e \in Ids, ApplyFailure(e) PROVE Kept
    <2>1. PICK st \in FailureStatus :
             \/ StaleCheckOpensRepair(e, st)
             \/ StaleCheckRecorded(e, st)
             \/ \E class \in FailureClass :
                   \/ FailureRetried(e, st, class)
                   \/ CompileFailed(e, st, class)
                   \/ RepairFailed(e, st, class)
                   \/ CheckFailed(e, st, class)
      BY <1>2 DEF ApplyFailure
    <2>2. CASE StaleCheckOpensRepair(e, st)
      BY <2>2, OpenedPlans
    <2>3. CASE \/ StaleCheckRecorded(e, st)
               \/ \E class \in FailureClass : CompileFailed(e, st, class) \/ CheckFailed(e, st, class)
      BY <2>3, ResultIsCheckStep, CheckPlans
    <2>4. ASSUME NEW class \in FailureClass, FailureRetried(e, st, class) PROVE Kept
      BY <2>4, ReplacementPlans DEF FailureRetried, Reportable
    <2>5. ASSUME NEW class \in FailureClass, RepairFailed(e, st, class) PROVE Kept
      BY <2>5, GiveUpPlans DEF RepairFailed, Reportable
    <2>6. QED
      BY <2>1, <2>2, <2>3, <2>4, <2>5
  <1>3. ASSUME NEW e \in Ids, ApplyResult(e) PROVE Kept
    <2>1. CASE CompileSucceeded(e)
      BY <2>1, CompilePlans
    <2>2. ASSUME NEW auto \in AutoPromote, RepairSucceeded(e, auto) PROVE Kept
      BY <2>2, RepairPlans
    <2>3. CASE \E obs \in {"none", "miss", "hit"} :
                  OrdinaryCheckSucceeded(e, obs) \/ ConfirmationSucceeded(e, obs)
      BY <2>3, ResultIsCheckStep, CheckPlans
    <2>4. QED
      BY <1>2, <1>3, <2>1, <2>2, <2>3 DEF ApplyResult
  <1>4. ASSUME NEW e \in Ids, SweepRequeues(e) \/ SweepTerminates(e) PROVE Kept
    <2>1. Live(e) /\ "failed" \in FailureStatus
      BY <1>4 DEF SweepRequeues, SweepTerminates, Sweepable, Live, LiveStates, FailureStatus
    <2>2. CASE SweepRequeues(e)
      BY <2>1, <2>2, ReplacementPlans DEF SweepRequeues
    <2>3. CASE SweepTerminates(e) /\ executions[e].kind # "repair"
      BY <2>3, ResultIsCheckStep, CheckPlans
    <2>4. CASE SweepTerminates(e) /\ executions[e].kind = "repair"
      BY <2>1, <2>4, GiveUpPlans DEF SweepTerminates
    <2>5. QED
      BY <1>4, <2>2, <2>3, <2>4
  <1>5. ASSUME NEW e \in Ids, GetExecutionInput(e) PROVE Kept
    BY <1>5, InputPlans
  <1>6. QED
    BY <1>1, <1>3, <1>4, <1>5 DEF Next, ExecutionStep

(* A review decides the one revision that waits, and with it the attempts   *)
(* that produced it.                                                         *)
LEMMA ReviewPlans ==
    ASSUME RepairInv, TypeOK', PlansInv, NEW m \in Monitors, NEW g \in Generations,
           NEW accept \in BOOLEAN, ReviewRevision(m, g, accept)
    PROVE  /\ PlansInv' /\ RejectedStay
           /\ ~accept /\ monitors[m].rev # 0 =>
                 \E h \in Generations : repairs'[m][h].state = "rejected"
  <1> DEFINE verdict == IF accept THEN "activated" ELSE "rejected"
  <1>1. /\ TypeOK /\ repairs \in [Monitors -> [Generations -> RepairAttempt]]
        /\ revisions \in [Monitors -> Seq(RevisionState)]
        /\ revisions' \in [Monitors -> Seq(RevisionState)]
        /\ Reviewable(m, g)
        /\ \A n \in Monitors : n # m => monitors'[n] = monitors[n]
    BY DEF RepairInv, TypeOK, ReviewRevision, SetMonitor
  <1>2. /\ g \in 1..Len(revisions[m]) /\ Len(revisions'[m]) = Len(revisions[m])
        /\ revisions'[m][g] = IF accept THEN "active" ELSE "rejected"
        /\ \A h \in 1..Len(revisions[m]) : h # g => revisions'[m][h] = revisions[m][h]
        /\ \A k \in Monitors : k # m => revisions'[k] = revisions[k]
    BY ReviewRows
  <1>3. DOMAIN revisions[m] = 1..Len(revisions[m]) /\ DOMAIN revisions'[m] = DOMAIN revisions[m]
    BY <1>1, <1>2, LenProperties
  <1>4. \A n \in Monitors, h \in Generations :
           repairs'[n][h] = IF n = m /\ repairs[n][h].candidate = g
                            THEN [repairs[n][h] EXCEPT !.state = verdict] ELSE repairs[n][h]
    BY <1>1 DEF ReviewRevision
  <1>5. ASSUME NEW h \in Generations, repairs[m][h].candidate = g
        PROVE  repairs'[m][h].state = verdict /\ repairs'[m][h].candidate = g
    <2>1. PICK r \in RepairAttempt : r = repairs[m][h]
      BY <1>1
    <2>2. [r EXCEPT !.state = verdict].state = verdict /\ [r EXCEPT !.state = verdict].candidate = r.candidate
      BY DEF RepairAttempt
    <2>3. QED
      BY <1>4, <1>5, <2>1, <2>2
  <1>6. \A n \in Monitors, h \in Generations :
           ~(n = m /\ repairs[n][h].candidate = g) => repairs'[n][h] = repairs[n][h]
    BY <1>4
  <1>7. \A h \in Generations : repairs[m][h].candidate = g => repairs[m][h].state # "rejected"
    BY <1>1 DEF PlansInv, RejectedForGood, Reviewable
  <1>8. \A h \in Generations : ~Reviewable(m, h)'
    <2>1. \A h \in DOMAIN revisions[m] : Reviewable(m, h) => h = g
      BY <1>1, <1>2, <1>3 DEF RepairInv, PendingIsNewest
    <2>2. QED
      BY <1>2, <1>3, <2>1 DEF Reviewable
  <1>9. CandidatesHaveRows'
    <2> SUFFICES ASSUME NEW n \in Monitors, monitors'[n].rev # 0, NEW k \in Generations,
                        Reviewable(n, k)'
                 PROVE  \E h \in Generations : repairs'[n][h].candidate = k
      BY DEF CandidatesHaveRows
    <2>1. n # m
      BY <1>8
    <2>2. monitors[n].rev # 0 /\ Reviewable(n, k)
      BY <1>1, <1>2, <2>1 DEF Reviewable
    <2>3. PICK h \in Generations : repairs[n][h].candidate = k
      BY <2>2 DEF PlansInv, CandidatesHaveRows
    <2>4. QED
      BY <1>6, <2>1, <2>3
  <1>10. RejectedForGood'
    <2> SUFFICES ASSUME NEW n \in Monitors, NEW h \in Generations, repairs'[n][h].state = "rejected"
                 PROVE  /\ repairs'[n][h].candidate \in DOMAIN revisions'[n]
                        /\ revisions'[n][repairs'[n][h].candidate] = "rejected"
      BY DEF RejectedForGood
    <2>1. CASE n = m /\ repairs[n][h].candidate = g
      BY <1>2, <1>3, <1>5, <2>1
    <2>2. CASE ~(n = m /\ repairs[n][h].candidate = g)
      <3>1. repairs'[n][h] = repairs[n][h]
        BY <1>6, <2>2
      <3>2. PICK k \in DOMAIN revisions[n] : k = repairs[n][h].candidate /\ revisions[n][k] = "rejected"
        BY <3>1 DEF PlansInv, RejectedForGood
      <3>3. k \in DOMAIN revisions'[n] /\ revisions'[n][k] = "rejected"
        BY <1>2, <1>3, <2>2, <3>2
      <3>4. QED
        BY <3>1, <3>2, <3>3
    <2>3. QED
      BY <2>1, <2>2
  <1>11. RejectedStay
    BY <1>6, <1>7 DEF RejectedStay
  <1>12. ~accept /\ monitors[m].rev # 0 =>
            \E h \in Generations : repairs'[m][h].state = "rejected"
    BY <1>1, <1>5 DEF PlansInv, CandidatesHaveRows
  <1>13. QED
    BY <1>9, <1>10, <1>11, <1>12 DEF PlansInv

ScheduleInv == RepairInv /\ PlansInv /\ ActiveIsScheduled

LEMMA ScheduleNext == ScheduleInv /\ [Next]_vars => ScheduleInv'
  <1> SUFFICES ASSUME ScheduleInv, [Next]_vars PROVE ScheduleInv'
    OBVIOUS
  <1>1. RepairInv /\ PlansInv /\ ActiveIsScheduled /\ RepairInv' /\ TypeOK /\ TypeOK'
    BY RepairInvNext DEF ScheduleInv, RepairInv
  <1>2. CASE UNCHANGED vars
    BY <1>1, <1>2
    DEF vars, ScheduleInv, PlansInv, CandidatesHaveRows, RejectedForGood, ActiveIsScheduled,
        Reviewable, Checkable
  <1>3. CASE Next
    <2>1. PlansInv' /\ RejectedStay
      <3>1. CASE \E m \in Monitors, g \in Generations, accept \in BOOLEAN :
                    ReviewRevision(m, g, accept)
        BY <1>1, <3>1, ReviewPlans
      <3>2. CASE ~ \E m \in Monitors, g \in Generations, accept \in BOOLEAN :
                      ReviewRevision(m, g, accept)
        BY <1>1, <1>3, <3>2, PlansStep, PlansKept
      <3>3. QED
        BY <3>1, <3>2
    <2>2. ASSUME NEW m \in Monitors, Checkable(m)'
          PROVE  \/ monitors'[m].next # "null"
                 \/ \E g \in Generations : repairs'[m][g].state = "rejected"
      <3>1. monitors'[m].status = "active" /\ monitors'[m].rev # 0
        BY <2>2 DEF Checkable
      <3>2. CASE Untouched(monitors[m], monitors'[m])
        BY <1>1, <2>1, <3>1, <3>2 DEF Untouched, ActiveIsScheduled, Checkable, RejectedStay
      <3>3. ASSUME NEW g \in Generations, ReviewRevision(m, g, FALSE), monitors[m].rev # 0
            PROVE  \E h \in Generations : repairs'[m][h].state = "rejected"
        BY <1>1, <3>3, ReviewPlans
      <3>4. ~CreateMonitor(m)
        <4>1. ASSUME CreateMonitor(m) PROVE FALSE
          <5>1. PICK row \in Monitor : row = WithStatus(m, "compiling") /\ row.status = "compiling"
            BY <1>1, NewRows DEF Status
          <5>2. QED
            BY <1>1, <3>1, <4>1, <5>1, SetMonitorRow DEF CreateMonitor
        <4>2. QED
          BY <4>1
      <3>5. MonitorEvolves(m)
        BY <1>1, <1>3, MonitorsEvolve
      <3>6. QED
        BY <3>1, <3>2, <3>3, <3>4, <3>5 DEF MonitorEvolves, OutOfService, HasNextRun
    <2>3. QED
      BY <1>1, <2>1, <2>2 DEF ScheduleInv, ActiveIsScheduled
  <1>4. QED
    BY <1>2, <1>3

(* An active monitor with a plan has a next run unless one of its repair    *)
(* candidates was rejected: confirming, accepting, promoting and resuming   *)
(* write next_run_at with the status, and everything that clears it takes   *)
(* the monitor out of service.                                               *)
THEOREM ActiveMonitorsAreScheduled == Spec => []ActiveIsScheduled
  <1>1. Init => ScheduleInv
    <2> SUFFICES ASSUME Init PROVE ScheduleInv
      OBVIOUS
    <2>1. RepairInv /\ \A m \in Monitors : monitors[m].rev = 0
      BY RepairInvInit DEF Init
    <2>2. \A m \in Monitors, h \in Generations : repairs[m][h].state = "none"
      BY DEF Init, NoRepair
    <2>3. QED
      BY <2>1, <2>2
      DEF ScheduleInv, PlansInv, CandidatesHaveRows, RejectedForGood, ActiveIsScheduled, Checkable
  <1>2. ScheduleInv => ActiveIsScheduled
    BY DEF ScheduleInv
  <1>3. QED
    BY <1>1, <1>2, ScheduleNext, PTL DEF Spec

-------------------------------------------------------------------------------
(* The contract of a job.  Executions that replace each other are the tries *)
(* of one job (ExecutionLineage).                                            *)

(* The equation that defines Root. *)
IsRoot(f) ==
    f = [e \in Ids |-> IF executions[e].parent = 0 THEN e ELSE f[executions[e].parent]]

LEMMA RootIs ==
    ASSUME NEW f, IsRoot(f), \A g : IsRoot(g) => g = f
    PROVE  Root = f
  <1> DEFINE r == CHOOSE g : g = [e \in Ids |-> IF executions[e].parent = 0 THEN e ELSE g[executions[e].parent]]
  <1>1. IsRoot(r)
    BY DEF IsRoot
  <1>2. r = f
    BY <1>1
  <1>3. f = [e \in Ids |-> f[e]]
    BY DEF IsRoot
  <1>4. Root = [e \in Ids |-> r[e]]
    BY DEF Root
  <1>5. QED
    BY <1>2, <1>3, <1>4

-------------------------------------------------------------------------------
(* How lineages grow. *)

(* A row that begins a lineage, or continues that of e, which has failed. *)
Begins(x) == x.parent = 0 /\ x.attempt = 1

Extends(x, e) ==
    x.parent = e /\ x.attempt = executions[e].attempt + 1 /\ Continues(x, e)

Grows ==
    /\ Evolves
    /\ \A j \in Ids : /\ executions'[j].parent = executions[j].parent
                      /\ executions'[j].attempt = executions[j].attempt
    /\ Len(executions') = NextId =>
          \/ Begins(executions'[NextId])
          \/ \E e \in Ids : Extends(executions'[NextId], e)

LEMMA SameTableGrows ==
    ASSUME TypeOK, Evolves, executions' = executions
    PROVE  Grows
  <1>1. Len(executions') # NextId
    BY DEF TypeOK, NextId
  <1>2. QED
    BY <1>1 DEF Grows

LEMMA InsertGrows ==
    ASSUME TypeOK, Evolves, NEW x \in Execution, Begins(x), executions' = Append(executions, x)
    PROVE  Grows
  <1>1. /\ \A j \in Ids : executions'[j] = executions[j]
        /\ executions'[NextId] = x
    BY AppendedSeq DEF TypeOK, Ids, NextId
  <1>2. QED
    BY <1>1 DEF Grows

LEMMA StartGrows ==
    ASSUME TypeOK, Evolves, NEW e \in Ids, GetExecutionInput(e)
    PROVE  Grows
  <1>1. PICK x \in Execution : x = executions[e]
    BY ExecutionRow
  <1>2. PICK y \in Execution : /\ y = [x EXCEPT !.state = "running"]
                               /\ y.parent = x.parent /\ y.attempt = x.attempt
    <2>1. /\ [x EXCEPT !.state = "running"] \in Execution
          /\ [x EXCEPT !.state = "running"].parent = x.parent
          /\ [x EXCEPT !.state = "running"].attempt = x.attempt
      BY DEF Execution
    <2>2. QED
      BY <2>1
  <1>3. executions \in Seq(Execution) /\ executions' = [executions EXCEPT ![e] = y]
    BY <1>1, <1>2 DEF GetExecutionInput, TypeOK
  <1>4. /\ Len(executions') = Len(executions)
        /\ \A j \in Ids : executions'[j] = IF j = e THEN y ELSE executions[j]
    BY <1>3, UpdatedSeq DEF Ids
  <1>5. Len(executions') # NextId
    <2>1. Len(executions) \in Nat
      BY DEF TypeOK
    <2>2. QED
      BY <1>4, <2>1 DEF NextId
  <1>6. QED
    BY <1>1, <1>2, <1>4, <1>5 DEF Grows

LEMMA FinishGrows ==
    ASSUME TypeOK, NEW e \in Ids, Moves(e), NEW st \in FinalStates, NEW obs \in {"none", "miss", "hit"},
           NEW x \in Execution,
           \/ executions' = Finished(e, st, obs)
           \/ /\ executions' = Append(Finished(e, st, obs), x)
              /\ \/ Begins(x)
                 \/ /\ st \in FailureStatus /\ Identity(x, executions[e])
                    /\ x.parent = e /\ x.attempt = executions[e].attempt + 1
    PROVE  Grows
  <1>1. PICK done \in Seq(Execution) :
           /\ done = Finished(e, st, obs) /\ Len(done) = Len(executions) /\ done[e].state = st
           /\ \A j \in Ids : /\ done[j].parent = executions[j].parent
                             /\ done[j].attempt = executions[j].attempt
    <2>1. executions \in Seq(Execution)
      BY DEF TypeOK
    <2>2. /\ Finished(e, st, obs) \in Seq(Execution) /\ Len(Finished(e, st, obs)) = Len(executions)
          /\ Finished(e, st, obs)[e].state = st
          /\ Finished(e, st, obs)[e].parent = executions[e].parent
          /\ Finished(e, st, obs)[e].attempt = executions[e].attempt
          /\ \A j \in Ids : j # e => Finished(e, st, obs)[j] = executions[j]
      BY <2>1, FinishedRow DEF FinalStates
    <2>3. QED
      BY <2>2
  <1>2. Evolves /\ Live(e)
    BY DEF Moves
  <1>3. CASE executions' = done
    <2>1. Len(executions') # NextId
      BY <1>1, <1>3 DEF NextId, TypeOK
    <2>2. QED
      BY <1>1, <1>2, <1>3, <2>1 DEF Grows
  <1>4. CASE /\ executions' = Append(done, x)
             /\ \/ Begins(x)
                \/ /\ st \in FailureStatus /\ Identity(x, executions[e])
                   /\ x.parent = e /\ x.attempt = executions[e].attempt + 1
    <2>1. (\A j \in Ids : executions'[j] = done[j]) /\ executions'[NextId] = x
      BY <1>1, <1>4, AppendedSeq DEF Ids, NextId
    <2>2. Begins(x) \/ Extends(x, e)
      BY <1>1, <1>2, <1>4, <2>1 DEF Extends, Continues
    <2>3. QED
      BY <1>1, <1>2, <2>1, <2>2 DEF Grows
  <1>5. QED
    BY <1>1, <1>3, <1>4

LEMMA ReplacementGrows ==
    ASSUME TypeOK, NEW e \in Ids, Moves(e), executions[e].attempt < MaxAttempts,
           NEW st \in FailureStatus, EnqueueReplacement(e, Finished(e, st, "none"))
    PROVE  Grows
  <1>1. PICK x \in Execution : x = Replacement(e)
    BY ReplacementRow DEF TypeOK
  <1>2. Identity(x, executions[e]) /\ x.parent = e /\ x.attempt = executions[e].attempt + 1
    BY <1>1, ReplacementRow DEF TypeOK, Identity
  <1>3. st \in FinalStates /\ executions' = Append(Finished(e, st, "none"), x)
    BY <1>1 DEF FailureStatus, FinalStates, EnqueueReplacement
  <1>4. QED
    BY <1>2, <1>3, FinishGrows

LEMMA ExecutionGrows ==
    ASSUME TypeOK, NEW e \in Ids, ExecutionStep(e)
    PROVE  Grows
  <1>0. /\ Moves(e) /\ Evolves /\ executions[e] \in Execution /\ executions[e].mon \in Monitors
        /\ executions[e].rev \in {0} \cup Generations /\ e \in Nat
    BY ExecutionEvolves, ExecutionRow DEF Moves
  <1>1. ASSUME NEW st \in FinalStates, NEW obs \in {"none", "miss", "hit"},
               executions' = Finished(e, st, obs)
        PROVE  Grows
    BY <1>0, <1>1, FinishGrows
  <1>2. ASSUME NEW st \in FinalStates, NEW obs \in {"none", "miss", "hit"},
               NEW k \in {"check", "repair"}, NEW t \in Nat,
               executions' = Append(Finished(e, st, obs),
                                    NewExecution(executions[e].mon, k, executions[e].rev, 1, t, 0))
        PROVE  Grows
    <2>1. PICK x \in Execution : x = NewExecution(executions[e].mon, k, executions[e].rev, 1, t, 0)
      BY <1>0, NewRow
    <2>2. Begins(x)
      BY <2>1 DEF NewExecution, Begins
    <2>3. QED
      BY <1>0, <1>2, <2>1, <2>2, FinishGrows
  <1>3. ASSUME NEW obs \in {"none", "miss", "hit"},
               OrdinaryCheckSucceeded(e, obs) \/ ConfirmationSucceeded(e, obs)
        PROVE  Grows
    BY <1>0, <1>1, <1>2, <1>3 DEF OrdinaryCheckSucceeded, ConfirmationSucceeded, FinalStates
  <1>4. ASSUME NEW st \in FailureStatus, NEW class \in FailureClass,
               \/ StaleCheckOpensRepair(e, st)
               \/ StaleCheckRecorded(e, st)
               \/ CompileFailed(e, st, class)
               \/ RepairFailed(e, st, class)
               \/ CheckFailed(e, st, class)
        PROVE  Grows
    <2>1. st \in FinalStates
      BY DEF FailureStatus, FinalStates
    <2>2. QED
      BY <1>1, <1>2, <1>4, <2>1
      DEF StaleCheckOpensRepair, StaleCheckRecorded, CompileFailed, RepairFailed, CheckFailed
  <1>5. ASSUME NEW st \in FailureStatus, NEW class \in FailureClass, FailureRetried(e, st, class)
        PROVE  Grows
    BY <1>0, <1>5, ReplacementGrows DEF FailureRetried, ShouldRetry
  <1>6. CASE ApplyFailure(e)
    <2>1. "other" \in FailureClass
      BY DEF FailureClass
    <2>2. QED
      BY <1>4, <1>5, <1>6, <2>1 DEF ApplyFailure
  <1>7. CASE CompileSucceeded(e) \/ \E auto \in AutoPromote : RepairSucceeded(e, auto)
    BY <1>1, <1>7 DEF CompileSucceeded, RepairSucceeded, FinalStates
  <1>8. CASE SweepRequeues(e)
    BY <1>0, <1>8, ReplacementGrows DEF SweepRequeues, FailureStatus
  <1>9. CASE SweepTerminates(e)
    BY <1>1, <1>9 DEF SweepTerminates, FinalStates
  <1>10. QED
    BY <1>0, <1>3, <1>6, <1>7, <1>8, <1>9, StartGrows DEF ExecutionStep, ApplyResult

LEMMA NextGrows ==
    ASSUME TypeOK, [Next]_vars
    PROVE  Grows
  <1>0. Evolves
    BY NextEvolves
  <1>1. CASE executions' = executions
    BY <1>0, <1>1, SameTableGrows
  <1>2. ASSUME NEW m \in Monitors, OperatorStep(m) \/ SchedulerStep(m) PROVE Grows
    <2>1. CASE CreateMonitor(m)
      <3>1. PICK x \in Execution : x = NewExecution(m, "compile", 0, 1, 0, 0)
        BY NewRow
      <3>2. QED
        BY <1>0, <2>1, <3>1, InsertGrows DEF CreateMonitor, NewExecution, Begins
    <2>2. CASE InsertCheck(m)
      <3>1. monitors[m].rev \in {0} \cup Generations
        BY DEF TypeOK, Monitor
      <3>2. PICK x \in Execution : x = NewExecution(m, "check", monitors[m].rev, 1, 0, 0)
        BY <3>1, NewRow
      <3>3. QED
        BY <1>0, <2>2, <3>2, InsertGrows DEF InsertCheck, NewExecution, Begins
    <2>3. QED
      BY <1>1, <1>2, <2>1, <2>2
      DEF OperatorStep, SchedulerStep, Pause, Resume, EnqueueCheck, ConfirmMonitor,
          ReviewRevision, NextRunArrives, SnapshotDue, ClaimDue, SkipDue
  <1>3. ASSUME NEW e \in Ids, ExecutionStep(e) PROVE Grows
    BY <1>3, ExecutionGrows
  <1>4. CASE UNCHANGED vars
    BY <1>1, <1>4 DEF vars
  <1>5. QED
    BY <1>2, <1>3, <1>4 DEF Next

-------------------------------------------------------------------------------
(* Root is well defined.  That the recursion has exactly one solution is    *)
(* not proved by induction over the table but along the behaviour: a new    *)
(* row extends the solution by its own value.                               *)
ParentsKnown == \A e \in Ids : executions[e].parent # 0 => executions[e].parent \in Ids

OneRoot == \E f \in [Ids -> Ids] : IsRoot(f) /\ \A g : IsRoot(g) => g = f

RootOK == ParentsKnown /\ OneRoot

LEMMA RootValues ==
    ASSUME RootOK
    PROVE  /\ Root \in [Ids -> Ids] /\ IsRoot(Root)
           /\ \A g : IsRoot(g) => g = Root
           /\ \A e \in Ids : Root[e] = IF executions[e].parent = 0 THEN e
                                       ELSE Root[executions[e].parent]
  <1>1. PICK f \in [Ids -> Ids] : IsRoot(f) /\ \A g : IsRoot(g) => g = f
    BY DEF RootOK, OneRoot
  <1>2. Root = f
    BY <1>1, RootIs
  <1>3. \A e \in Ids : f[e] = IF executions[e].parent = 0 THEN e ELSE f[executions[e].parent]
    BY <1>1 DEF IsRoot
  <1>4. QED
    BY <1>1, <1>2, <1>3

LEMMA RootIsUnique == RootOK => \A g : IsRoot(g) => g = Root
  BY RootValues

LEMMA RootUnfolds ==
    RootOK => \A e \in Ids : Root[e] = IF executions[e].parent = 0 THEN e
                                       ELSE Root[executions[e].parent]
  BY RootValues

LEMMA RootStep ==
    ASSUME TypeOK, RootOK, Grows
    PROVE  RootOK' /\ \A j \in Ids : Root'[j] = Root[j]
  <1>1. /\ Ids \subseteq Ids' /\ (\A j \in Ids' : j \in Ids \/ j = NextId)
        /\ NextId \notin Ids /\ (NextId \in Ids' <=> Len(executions') = NextId) /\ 0 \notin Ids
        /\ \A j \in Ids : executions'[j].parent = executions[j].parent
    BY OldRows DEF Grows, Ids
  <1>2. ParentsKnown'
    <2>1. \A j \in Ids' : j \notin Ids => executions'[j].parent \in Ids \cup {0}
      BY <1>1 DEF Grows, Begins, Extends
    <2>2. QED
      BY <1>1, <2>1 DEF RootOK, ParentsKnown
  <1>3. PICK f \in [Ids -> Ids] : f = Root
    BY RootValues
  <1>4. /\ \A e \in Ids : f[e] = IF executions[e].parent = 0 THEN e ELSE f[executions[e].parent]
        /\ \A g : IsRoot(g) => g = f
    BY <1>3, RootValues
  <1>5. PICK h : h = [e \in Ids' |-> IF e \in Ids THEN f[e]
                                     ELSE IF executions'[e].parent = 0 THEN e
                                     ELSE f[executions'[e].parent]]
    OBVIOUS
  <1>6. h \in [Ids' -> Ids'] /\ \A j \in Ids : h[j] = f[j]
    <2>1. \A j \in Ids' : j \notin Ids => executions'[j].parent \in Ids \cup {0}
      BY <1>1 DEF Grows, Begins, Extends
    <2>2. QED
      BY <1>1, <1>5, <2>1
  <1>7. IsRoot(h)'
    <2>1. ASSUME NEW e \in Ids'
          PROVE  h[e] = IF executions'[e].parent = 0 THEN e ELSE h[executions'[e].parent]
      <3>1. CASE e \in Ids
        <4>1. executions[e].parent # 0 => executions[e].parent \in Ids
          BY <3>1 DEF RootOK, ParentsKnown
        <4>2. QED
          BY <1>1, <1>4, <1>6, <3>1, <4>1
      <3>2. CASE e \notin Ids
        <4>1. executions'[e].parent \in Ids \cup {0}
          BY <1>1, <3>2 DEF Grows, Begins, Extends
        <4>2. QED
          BY <1>1, <1>5, <1>6, <3>2, <4>1
      <3>3. QED
        BY <3>1, <3>2
    <2>2. QED
      BY <1>6, <2>1 DEF IsRoot
  <1>8. ASSUME NEW g, IsRoot(g)' PROVE g = h
    <2>1. PICK r : r = [e \in Ids |-> g[e]]
      OBVIOUS
    <2>2. \A e \in Ids' : g[e] = IF executions'[e].parent = 0 THEN e ELSE g[executions'[e].parent]
      BY <1>8 DEF IsRoot
    <2>3. IsRoot(r)
      <3>1. \A e \in Ids : r[e] = IF executions[e].parent = 0 THEN e ELSE r[executions[e].parent]
        BY <1>1, <2>1, <2>2 DEF RootOK, ParentsKnown
      <3>2. QED
        BY <2>1, <3>1 DEF IsRoot
    <2>4. r = f
      BY <1>4, <2>3
    <2>5. \A e \in Ids : g[e] = f[e]
      BY <2>1, <2>4
    <2>6. \A e \in Ids' : g[e] = h[e]
      <3>1. \A j \in Ids' : j \notin Ids => executions'[j].parent \in Ids \cup {0}
        BY <1>1 DEF Grows, Begins, Extends
      <3>2. QED
        BY <1>1, <1>5, <1>6, <2>2, <2>5, <3>1
    <2>7. g = [e \in Ids' |-> g[e]]
      BY <1>8 DEF IsRoot
    <2>8. QED
      BY <1>6, <2>6, <2>7
  <1>9. OneRoot'
    BY <1>6, <1>7, <1>8 DEF OneRoot
  <1>10. RootOK'
    BY <1>2, <1>9 DEF RootOK
  <1>11. Root' = h
    <2>1. (\A g : IsRoot(g) => g = Root)'
      BY <1>10, RootIsUnique, PTL
    <2>2. QED
      BY <1>7, <2>1
  <1>12. QED
    BY <1>3, <1>6, <1>10, <1>11

-------------------------------------------------------------------------------
(* The tries of a job. *)

Tries(j) == {e \in Ids : Root[e] = j}

Failed(e) == executions[e].state \in FailureStatus

(* All tries of a job are at the same work, and all but one have failed; ... *)
OneTryStands ==
    \A e, d \in Ids : Root[e] = Root[d] =>
        Work(e) = Work(d) /\ (e = d \/ Failed(e) \/ Failed(d))

(* ... that one is numbered by the tries there were. *)
AttemptsCountTries ==
    \A e \in Ids : ~Failed(e) => executions[e].attempt = Cardinality(Tries(Root[e]))

LineageInv == RootOK /\ OneTryStands /\ AttemptsCountTries

LEMMA TriesAreFinite ==
    ASSUME TypeOK, NEW j
    PROVE  IsFiniteSet(Tries(j)) /\ Cardinality(Tries(j)) \in Nat
  <1>1. Tries(j) \in SUBSET (1..Len(executions)) /\ Len(executions) \in Nat
    BY DEF Tries, Ids, TypeOK
  <1>2. IsFiniteSet(1..Len(executions))
    BY <1>1, FS_Interval
  <1>3. QED
    BY <1>1, <1>2, FS_Subset, FS_CardinalityType

(* The tries after a step: a row that continues e joins those of e. *)
LEMMA TriesStep ==
    ASSUME TypeOK, RootOK, Grows
    PROVE  /\ Len(executions') # NextId => Ids' = Ids /\ \A j : Tries(j)' = Tries(j)
           /\ Len(executions') = NextId =>
                 /\ Ids' = Ids \cup {NextId} /\ NextId \notin Ids
                 /\ Begins(executions'[NextId]) =>
                       /\ Root'[NextId] = NextId /\ NextId \notin Tries(NextId)
                       /\ Tries(NextId) = {}
                       /\ \A j : Tries(j)' = IF j = NextId THEN {j} ELSE Tries(j)
                 /\ \A e \in Ids : Extends(executions'[NextId], e) =>
                       /\ Root'[NextId] = Root[e] /\ Root[e] \in Ids
                       /\ \A j : Tries(j)' = IF j = Root[e] THEN Tries(j) \cup {NextId} ELSE Tries(j)
  <1>1. /\ Len(executions) \in Nat /\ Len(executions') \in {Len(executions), NextId}
        /\ NextId \notin Ids
        /\ Ids \subseteq Ids' /\ (\A j \in Ids' : j \in Ids \/ j = NextId)
        /\ (NextId \in Ids' <=> Len(executions') = NextId)
    BY OldRows DEF Grows
  <1>2. RootOK' /\ \A j \in Ids : Root'[j] = Root[j]
    BY RootStep
  <1>3. \A j \in Ids : Root[j] \in Ids
    BY RootValues
  <1>4. \A e \in Ids' : Root'[e] = IF executions'[e].parent = 0 THEN e ELSE Root'[executions'[e].parent]
    <2>1. (\A e \in Ids : Root[e] = IF executions[e].parent = 0 THEN e
                                   ELSE Root[executions[e].parent])'
      BY <1>2, RootUnfolds, PTL
    <2>2. QED
      BY <2>1
  <1>5. Len(executions') # NextId => Ids' = Ids /\ \A j : Tries(j)' = Tries(j)
    BY <1>1, <1>2 DEF Tries
  <1>6. ASSUME Len(executions') = NextId PROVE Ids' = Ids \cup {NextId} /\ NextId \in Ids'
    BY <1>1, <1>6
  <1>7. PICK n : n = NextId
    OBVIOUS
  <1>8. ASSUME Len(executions') = n, Begins(executions'[n])
        PROVE  /\ Root'[n] = n /\ Tries(n) = {}
               /\ \A j : Tries(j)' = IF j = n THEN {j} ELSE Tries(j)
    <2>1. Root'[n] = n
      BY <1>4, <1>6, <1>7, <1>8 DEF Begins
    <2>2. Tries(n) = {}
      BY <1>1, <1>3, <1>7 DEF Tries
    <2>3. QED
      BY <1>1, <1>2, <1>3, <1>6, <1>7, <1>8, <2>1, <2>2 DEF Tries
  <1>9. ASSUME Len(executions') = n, NEW e \in Ids, Extends(executions'[n], e)
        PROVE  /\ Root'[n] = Root[e]
               /\ \A j : Tries(j)' = IF j = Root[e] THEN Tries(j) \cup {n} ELSE Tries(j)
    <2>1. Root'[n] = Root[e]
      <3>1. executions'[n].parent = e /\ e # 0
        BY <1>9 DEF Extends, Ids
      <3>2. QED
        BY <1>2, <1>4, <1>6, <1>7, <1>9, <3>1
    <2>2. QED
      BY <1>1, <1>2, <1>6, <1>7, <1>9, <2>1 DEF Tries
  <1>10. QED
    BY <1>1, <1>3, <1>5, <1>6, <1>7, <1>8, <1>9

(* Rows keep their work, and a try that has failed stays failed. *)
LEMMA RowsKept ==
    ASSUME TypeOK, Grows
    PROVE  /\ \A j \in Ids : Work(j)' = Work(j) /\ (Failed(j) => Failed(j)')
           /\ \A j \in Ids : executions'[j].attempt = executions[j].attempt
           /\ \A j \in Ids : Live(j) => ~Failed(j)
           /\ \A j \in Ids : ~Live(j) => executions'[j] = executions[j]
           /\ \A n : n = NextId /\ Len(executions') = n => ~Failed(n)' /\ Live(n)'
  <1>1. Evolves /\ NextId # Len(executions)
    BY DEF Grows, NextId, TypeOK
  <1>2. \A j \in Ids : Work(j)' = Work(j)
    BY <1>1 DEF Evolves, Identity, Work
  <1>3. \A j \in Ids : Failed(j) => ~Live(j)
    BY DEF Failed, Live, LiveStates, FailureStatus
  <1>4. \A j \in Ids : ~Live(j) => executions'[j] = executions[j]
    BY <1>1 DEF Evolves
  <1>5. \A j \in Ids : Failed(j) => Failed(j)'
    BY <1>3, <1>4 DEF Failed
  <1>6. Len(executions') = NextId => executions'[NextId].state = "queued"
    BY <1>1 DEF Evolves
  <1>7. \A n : n = NextId /\ Len(executions') = n => ~Failed(n)' /\ Live(n)'
    BY <1>6 DEF Failed, Live, LiveStates, FailureStatus
  <1>8. QED
    BY <1>2, <1>3, <1>4, <1>5, <1>7 DEF Grows

(* When e is continued, every earlier try of its job has failed. *)
LEMMA EarlierTriesFailed ==
    ASSUME TypeOK, OneTryStands, Grows, NEW e \in Ids, NEW x, Extends(x, e),
           NEW d \in Ids, Root[d] = Root[e]
    PROVE  Failed(d)' /\ Work(d)' = <<x.mon, x.kind, x.rev, x.trigger>>
  <1>1. Live(e) /\ ~Failed(e) /\ Failed(e)' /\ Identity(x, executions[e])
    BY RowsKept DEF Extends, Continues, Failed
  <1>2. Failed(d)'
    BY <1>1, RowsKept DEF OneTryStands
  <1>3. Work(d) = Work(e)
    BY DEF OneTryStands
  <1>4. Work(d)' = Work(d)
    BY RowsKept
  <1>5. Work(e) = <<x.mon, x.kind, x.rev, x.trigger>>
    BY <1>1 DEF Work, Identity
  <1>6. QED
    BY <1>2, <1>3, <1>4, <1>5

LEMMA LineageKept ==
    ASSUME TypeOK, LineageInv, Grows
    PROVE  LineageInv'
  <1>0. PICK n : n = NextId
    OBVIOUS
  <1>1. /\ RootOK /\ RootOK' /\ OneTryStands
        /\ \A j \in Ids : Root'[j] = Root[j] /\ Root[j] \in Ids
    BY RootStep, RootValues DEF LineageInv
  <1>2. CASE Len(executions') # n
    <2>1. Ids' = Ids /\ \A j : Tries(j)' = Tries(j)
      BY <1>0, <1>1, <1>2, TriesStep
    <2>2. OneTryStands'
      BY <1>1, <2>1, RowsKept DEF OneTryStands
    <2>3. AttemptsCountTries'
      <3>1. ASSUME NEW k \in Ids', ~Failed(k)', NEW h, h = Root'[k]
            PROVE  executions'[k].attempt = Cardinality(Tries(h)')
        <4>1. k \in Ids /\ ~Failed(k) /\ h = Root[k] /\ executions'[k].attempt = executions[k].attempt
          BY <1>1, <2>1, <3>1, RowsKept
        <4>2. QED
          BY <2>1, <4>1 DEF LineageInv, AttemptsCountTries
      <3>2. QED
        BY <3>1 DEF AttemptsCountTries, Tries
    <2>4. QED
      BY <1>1, <2>2, <2>3 DEF LineageInv
  <1>3. CASE Len(executions') = n /\ Begins(executions'[n])
    <2>1. /\ Ids' = Ids \cup {n} /\ n \notin Ids /\ Root'[n] = n
          /\ \A j : Tries(j)' = IF j = n THEN {j} ELSE Tries(j)
      BY <1>0, <1>1, <1>3, TriesStep
    <2>2. OneTryStands'
      BY <1>1, <2>1, RowsKept DEF OneTryStands
    <2>3. AttemptsCountTries'
      <3>1. ASSUME NEW k \in Ids', ~Failed(k)', NEW h, h = Root'[k]
            PROVE  executions'[k].attempt = Cardinality(Tries(h)')
        <4>1. CASE k = n
          <5>1. Tries(h)' = {n} /\ executions'[k].attempt = 1
            BY <1>3, <2>1, <3>1, <4>1 DEF Begins
          <5>2. Cardinality({n}) = 1
            BY FS_Singleton
          <5>3. QED
            BY <5>1, <5>2
        <4>2. CASE k \in Ids
          <5>1. ~Failed(k) /\ h = Root[k] /\ h # n /\ executions'[k].attempt = executions[k].attempt
            BY <1>1, <2>1, <3>1, <4>2, RowsKept
          <5>2. QED
            BY <2>1, <4>2, <5>1 DEF LineageInv, AttemptsCountTries
        <4>3. QED
          BY <2>1, <4>1, <4>2
      <3>2. QED
        BY <3>1 DEF AttemptsCountTries, Tries
    <2>4. QED
      BY <1>1, <2>2, <2>3 DEF LineageInv
  <1>4. ASSUME Len(executions') = n, NEW e \in Ids, Extends(executions'[n], e)
        PROVE  LineageInv'
    <2>0. PICK r : r = Root[e]
      OBVIOUS
    <2>1. /\ Ids' = Ids \cup {n} /\ n \notin Ids /\ Root'[n] = r
          /\ \A j : Tries(j)' = IF j = r THEN Tries(j) \cup {n} ELSE Tries(j)
      BY <1>0, <1>1, <1>4, <2>0, TriesStep
    <2>2. \A d \in Ids : Root[d] = r => Failed(d)' /\ Work(d)' = Work(n)'
      BY <1>1, <1>4, <2>0, EarlierTriesFailed DEF Work
    <2>3. OneTryStands'
      BY <1>1, <2>1, <2>2, RowsKept DEF OneTryStands
    <2>4. AttemptsCountTries'
      <3>1. ASSUME NEW k \in Ids', ~Failed(k)', NEW h, h = Root'[k]
            PROVE  executions'[k].attempt = Cardinality(Tries(h)')
        <4>1. CASE k = n
          <5>1. Tries(h)' = Tries(r) \cup {n} /\ h = r /\ n \notin Tries(r)
            BY <2>1, <3>1, <4>1 DEF Tries
          <5>2. Cardinality(Tries(r) \cup {n}) = Cardinality(Tries(r)) + 1
            BY <5>1, TriesAreFinite, FS_AddElement
          <5>3. ~Failed(e) /\ executions'[n].attempt = executions[e].attempt + 1
            BY <1>4, RowsKept DEF Extends, Continues
          <5>4. executions[e].attempt = Cardinality(Tries(r))
            BY <2>0, <5>3 DEF LineageInv, AttemptsCountTries
          <5>5. QED
            BY <4>1, <5>1, <5>2, <5>3, <5>4
        <4>2. CASE k \in Ids
          <5>1. /\ ~Failed(k) /\ h = Root[k] /\ h # r
                /\ executions'[k].attempt = executions[k].attempt
            BY <1>1, <2>2, <3>1, <4>2, RowsKept
          <5>2. QED
            BY <2>1, <4>2, <5>1 DEF LineageInv, AttemptsCountTries
        <4>3. QED
          BY <2>1, <4>1, <4>2
      <3>2. QED
        BY <3>1 DEF AttemptsCountTries, Tries
    <2>5. QED
      BY <1>1, <2>3, <2>4 DEF LineageInv
  <1>5. QED
    BY <1>0, <1>2, <1>3, <1>4 DEF Grows

-------------------------------------------------------------------------------
(* The refinement. *)

(* The job that a set of tries adds up to. *)
Described ==
    \A j :
        /\ IsFiniteSet(Tries(j))
        /\ Tries(j) = {} => JobOf(Tries(j)) = [outcome |-> "none", tries |-> 0]
        /\ \A e \in Tries(j) :
              Live(e) => JobOf(Tries(j)) = [outcome |-> "open", tries |-> Cardinality(Tries(j))]
        /\ \A e \in Tries(j) : executions[e].state = "succeeded" =>
              JobOf(Tries(j)) = [outcome |-> "succeeded", tries |-> Cardinality(Tries(j))]
        /\ (Tries(j) # {} /\ \A e \in Tries(j) : Failed(e)) =>
              JobOf(Tries(j)) = [outcome |-> "failed", tries |-> Cardinality(Tries(j))]

LEMMA JobDescribed == TypeOK /\ LineageInv => Described
  <1> SUFFICES ASSUME TypeOK, LineageInv, NEW j
               PROVE  /\ IsFiniteSet(Tries(j))
                      /\ Tries(j) = {} => JobOf(Tries(j)) = [outcome |-> "none", tries |-> 0]
                      /\ \A e \in Tries(j) :
                            Live(e) => JobOf(Tries(j)) = [outcome |-> "open", tries |-> Cardinality(Tries(j))]
                      /\ \A e \in Tries(j) : executions[e].state = "succeeded" =>
                            JobOf(Tries(j)) = [outcome |-> "succeeded", tries |-> Cardinality(Tries(j))]
                      /\ (Tries(j) # {} /\ \A e \in Tries(j) : Failed(e)) =>
                            JobOf(Tries(j)) = [outcome |-> "failed", tries |-> Cardinality(Tries(j))]
    BY DEF Described
  <1> DEFINE T == Tries(j)
             open == {e \in T : Live(e)}
             succeeded == {e \in T : executions[e].state = "succeeded"}
             works == {Work(e) : e \in T}
  <1>1. IsFiniteSet(T) /\ Cardinality(T) \in Nat
    BY TriesAreFinite
  <1>2. /\ \A e, d \in T : Work(e) = Work(d) /\ (e = d \/ Failed(e) \/ Failed(d))
        /\ \A e \in open \cup succeeded : ~Failed(e)
    BY DEF LineageInv, OneTryStands, Tries, Failed, Live, LiveStates, FailureStatus
  <1>3. ~(Cardinality(open \cup succeeded) > 1)
    <2>1. CASE open \cup succeeded = {}
      BY <2>1, FS_EmptySet
    <2>2. ASSUME NEW i \in open \cup succeeded
          PROVE  Cardinality(open \cup succeeded) = 1
      <3>1. open \cup succeeded = {i}
        BY <1>2
      <3>2. QED
        BY <3>1, FS_Singleton
    <2>3. QED
      BY <2>1, <2>2
  <1>4. ~(Cardinality(works) > 1)
    <2>1. CASE T = {}
      <3>1. works = {}
        BY <2>1
      <3>2. QED
        BY <3>1, FS_EmptySet
    <2>2. ASSUME NEW i \in T PROVE Cardinality(works) = 1
      <3>1. works = {Work(i)}
        BY <1>2
      <3>2. QED
        BY <3>1, FS_Singleton
    <2>3. QED
      BY <2>1, <2>2
  <1>5. JobOf(T) = [outcome |-> IF T = {} THEN "none"
                                ELSE IF open # {} THEN "open"
                                ELSE IF succeeded # {} THEN "succeeded"
                                ELSE "failed",
                    tries |-> Cardinality(T)]
    BY <1>3, <1>4 DEF JobOf
  <1>6. T = {} => Cardinality(T) = 0
    BY FS_EmptySet
  <1>7. \A e \in T : Live(e) => open # {}
    OBVIOUS
  <1>8. \A e \in T : executions[e].state = "succeeded" => (open = {} /\ succeeded # {})
    <2> SUFFICES ASSUME NEW e \in T, executions[e].state = "succeeded", NEW k \in open
                 PROVE  FALSE
      OBVIOUS
    <2>1. e = k
      BY <1>2
    <2>2. QED
      BY <2>1 DEF Live, LiveStates
  <1>9. (\A e \in T : Failed(e)) => (open = {} /\ succeeded = {})
    BY <1>2
  <1> HIDE DEF T, open, succeeded
  <1>10. QED
    BY <1>1, <1>5, <1>6, <1>7, <1>8, <1>9 DEF T

(* A step of the tables is a step of the contract for every job. *)
LEMMA ContractStep ==
    ASSUME TypeOK, TypeOK', LineageInv, Described, Described', Grows, NEW j
    PROVE  Contract!Step(JobOf(Tries(j)), JobOf(Tries(j))')
  <1> USE DEF Contract!Step, Contract!Submitted, Contract!Retried, Contract!Finished,
              Contract!NotSubmitted
  <1>0. PICK n : n = NextId
    OBVIOUS
  <1>1. /\ RootOK /\ OneTryStands
        /\ \A k \in Tries(j) : k \in Ids /\ Root[k] = j
    BY DEF LineageInv, Tries
  <1>2. ASSUME Tries(j)' = Tries(j)
        PROVE  Contract!Step(JobOf(Tries(j)), JobOf(Tries(j))')
    <2>1. CASE \A k \in Tries(j) : executions'[k] = executions[k]
      <3>1. JobOf(Tries(j))' = JobOf(Tries(j))
        BY <1>2, <2>1 DEF JobOf, Live, Work
      <3>2. QED
        BY <3>1
    <2>2. ASSUME NEW k \in Tries(j), executions'[k] # executions[k]
          PROVE  Contract!Step(JobOf(Tries(j)), JobOf(Tries(j))')
      <3>1. Live(k) /\ ~Failed(k) /\ k \in Ids
        BY <1>1, <2>2, RowsKept
      <3>2. JobOf(Tries(j)) = [outcome |-> "open", tries |-> Cardinality(Tries(j))]
        BY <3>1 DEF Described
      <3>3. \A d \in Tries(j) : d # k => Failed(d)'
        BY <1>1, <2>2, <3>1, RowsKept DEF OneTryStands
      <3>4. Live(k)' \/ executions'[k].state = "succeeded" \/ Failed(k)'
        <4>1. executions'[k] \in Execution
          BY <3>1, OldRows DEF Grows, Evolves, Ids
        <4>2. QED
          BY <4>1 DEF Execution, Live, LiveStates, Failed, FailureStatus
      <3>5. \/ JobOf(Tries(j))' = [outcome |-> "open", tries |-> Cardinality(Tries(j))]
            \/ JobOf(Tries(j))' = [outcome |-> "succeeded", tries |-> Cardinality(Tries(j))]
            \/ JobOf(Tries(j))' = [outcome |-> "failed", tries |-> Cardinality(Tries(j))]
        <4>1. CASE Live(k)'
          BY <1>2, <2>2, <4>1 DEF Described
        <4>2. CASE executions'[k].state = "succeeded"
          BY <1>2, <2>2, <4>2 DEF Described
        <4>3. CASE Failed(k)'
          BY <1>2, <2>2, <3>3, <4>3 DEF Described
        <4>4. QED
          BY <3>4, <4>1, <4>2, <4>3
      <3>6. QED
        BY <3>2, <3>5
    <2>3. QED
      BY <2>1, <2>2
  <1>3. CASE Len(executions') # n
    BY <1>0, <1>1, <1>2, <1>3, TriesStep
  <1>4. CASE Len(executions') = n /\ Begins(executions'[n])
    <2>1. CASE j # n
      BY <1>0, <1>1, <1>2, <1>4, <2>1, TriesStep
    <2>2. CASE j = n
      <3>1. Tries(j) = {} /\ Tries(j)' = {n} /\ Live(n)'
        BY <1>0, <1>1, <1>4, <2>2, TriesStep, RowsKept
      <3>2. Cardinality({n}) = 1
        BY FS_Singleton
      <3>3. JobOf(Tries(j)) = [outcome |-> "none", tries |-> 0]
        BY <3>1 DEF Described
      <3>4. JobOf(Tries(j))' = [outcome |-> "open", tries |-> 1]
        BY <3>1, <3>2 DEF Described
      <3>5. QED
        BY <3>3, <3>4
    <2>3. QED
      BY <2>1, <2>2
  <1>5. ASSUME Len(executions') = n, NEW e \in Ids, Extends(executions'[n], e)
        PROVE  Contract!Step(JobOf(Tries(j)), JobOf(Tries(j))')
    <2>1. CASE j # Root[e]
      BY <1>0, <1>1, <1>2, <1>5, <2>1, TriesStep
    <2>2. CASE j = Root[e]
      <3>1. /\ Tries(j)' = Tries(j) \cup {n} /\ Live(n)' /\ n \notin Ids /\ n \in Ids'
        BY <1>0, <1>1, <1>5, <2>2, TriesStep, RowsKept
      <3>2. n \notin Tries(j) /\ e \in Tries(j) /\ Live(e) /\ ~Failed(e)
        BY <1>5, <2>2, <3>1, RowsKept DEF Tries, Extends, Continues
      <3>3. Cardinality(Tries(j) \cup {n}) = Cardinality(Tries(j)) + 1
        BY <3>2, FS_AddElement DEF Described
      <3>4. JobOf(Tries(j)) = [outcome |-> "open", tries |-> Cardinality(Tries(j))]
        BY <3>2 DEF Described
      <3>5. JobOf(Tries(j))' = [outcome |-> "open", tries |-> Cardinality(Tries(j)) + 1]
        BY <3>1, <3>3 DEF Described
      <3>6. Cardinality(Tries(j)) < MaxAttempts
        <4>1. executions[e].attempt = Cardinality(Tries(j))
          BY <2>2, <3>2 DEF LineageInv, AttemptsCountTries
        <4>2. executions'[n] \in Execution
          BY <3>1 DEF TypeOK, Ids
        <4>3. executions'[n].attempt \in 1..MaxAttempts
          BY <4>2 DEF Execution
        <4>4. executions'[n].attempt = executions[e].attempt + 1
          BY <1>5 DEF Extends
        <4>5. Cardinality(Tries(j)) \in Nat
          BY TriesAreFinite
        <4>6. QED
          BY <4>1, <4>3, <4>4, <4>5, AttemptsAssumption
      <3>7. QED
        BY <3>4, <3>5, <3>6
    <2>3. QED
      BY <2>1, <2>2
  <1>6. QED
    BY <1>0, <1>3, <1>4, <1>5 DEF Grows

(* The tables of the control plane implement the contract of a job: however *)
(* executions are replaced, swept, failed and reported late, the executions *)
(* that continue each other are at most MaxAttempts tries at one and the    *)
(* same work, one at a time, with one outcome that stays.                   *)
THEOREM ExecutionsAreOneJob == Spec => ExecutionsKeepContract
  <1> DEFINE job == LET root == Root
                    IN [j \in 1..MaxExecutions |-> JobOf({e \in Ids : root[e] = j})]
  <1>1. Init => LineageInv /\ Contract!Init
    <2> SUFFICES ASSUME Init PROVE LineageInv /\ Contract!Init
      OBVIOUS
    <2>1. Ids = {}
      BY DEF Init, Ids
    <2>2. OneRoot
      <3> DEFINE f == [e \in Ids |-> e]
      <3>1. f \in [Ids -> Ids]
        OBVIOUS
      <3>2. f = [e \in Ids |-> IF executions[e].parent = 0 THEN e ELSE f[executions[e].parent]]
        BY <2>1
      <3>3. ASSUME NEW g, IsRoot(g) PROVE g = f
        <4>1. g = [e \in Ids |-> IF executions[e].parent = 0 THEN e ELSE g[executions[e].parent]]
          BY <3>3 DEF IsRoot
        <4>2. [e \in Ids |-> IF executions[e].parent = 0 THEN e ELSE g[executions[e].parent]] = f
          BY <2>1
        <4>3. QED
          BY <4>1, <4>2
      <3>4. IsRoot(f)
        BY <3>2 DEF IsRoot
      <3>5. QED
        BY <3>1, <3>3, <3>4 DEF OneRoot
    <2>3. LineageInv
      BY <2>1, <2>2 DEF LineageInv, RootOK, ParentsKnown, OneTryStands, AttemptsCountTries
    <2>4. JobOf({}) = [outcome |-> "none", tries |-> 0]
      BY FS_EmptySet DEF JobOf
    <2>5. QED
      BY <2>1, <2>3, <2>4 DEF Contract!Init, Contract!NotSubmitted
  <1>2. TypeOK /\ LineageInv /\ [Next]_vars => LineageInv'
    BY NextGrows, LineageKept
  <1>3. TypeOK /\ TypeOK' /\ LineageInv /\ Described /\ Described' /\ [Next]_vars
          => [Contract!Next]_job
    <2> SUFFICES ASSUME TypeOK, TypeOK', LineageInv, Described, Described', [Next]_vars
                 PROVE  [Contract!Next]_job
      OBVIOUS
    <2>1. \A j \in 1..MaxExecutions : Contract!Step(JobOf(Tries(j)), JobOf(Tries(j))')
      BY NextGrows, ContractStep
    <2>2. \A j \in 1..MaxExecutions : job[j] = JobOf(Tries(j)) /\ job'[j] = JobOf(Tries(j))'
      BY DEF Tries
    <2>3. QED
      BY <2>1, <2>2 DEF Contract!Next, Tries
  <1>4. QED
    BY <1>1, <1>2, <1>3, JobDescribed, TypeCorrect, PTL
    DEF Spec, ExecutionsKeepContract, Contract!Spec

===============================================================================
