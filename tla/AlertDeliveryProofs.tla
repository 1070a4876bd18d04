-------------------------- MODULE AlertDeliveryProofs --------------------------
(***************************************************************************)
(* Proofs about AlertDelivery: the owner uuid fences late outcomes, row     *)
(* locks keep finished deliveries as they are, retries are bounded and the  *)
(* summary of an alert is not premature, for any number of alerts,          *)
(* channels, runners and faults.                                            *)
(***************************************************************************)
EXTENDS AlertDelivery, TLAPS

Answers == {"ok", "retry", "permanent"}

(* The steps by what they touch. *)
LEMMA Steps ==
    ASSUME Next
    PROVE  \/ \E r \in Runners, a \in Alerts : CreateAlert(r, a)
           \/ \E k \in Keys : BecomesDue(k) \/ LeaseExpires(k)
           \/ \E r \in Runners : \E K \in SUBSET Claimable(r) : ClaimAlertDeliveries(r, K)
           \/ \E r \in Runners : \E j \in jobs[r] :
                 \/ \E answer \in Answers : Send(r, j, answer)
                 \/ RecordOutcome(r, j) \/ CommitOutcome(r, j)
                 \/ OutcomeRefused(r, j) \/ OutcomeLost(r, j)
           \/ \E r \in Runners :
                 \/ LoopContinues(r) \/ ReconcileSelects(r) \/ ReconcileReads(r)
                 \/ ReconcileCommits(r) \/ ReconcileFails(r)
           \/ \E r \in Runners : \E channels \in Configs : Restart(r, channels)
  BY DEF Next, RunnerStep, FaultStep, ClockStep, ClaimStep, SendStep, OutcomeStep, Answers

-------------------------------------------------------------------------------
(* Types. *)

LEMMA FaultType ==
    ASSUME TypeOK, Fault
    PROVE  faults' \in 0..MaxFaults /\ faults' = faults + 1
  BY FaultsAssumption DEF TypeOK, Fault

LEMMA KeyParts == \A k \in Keys : k[1] \in Alerts /\ k[2] \in Channels /\ k = <<k[1], k[2]>>
  BY DEF Keys

LEMMA VerdictType ==
    \A a, states : Verdict(a, states) \in {"pending", "failed", "delivered"}
  BY DEF Verdict

LEMMA TypeInit == Init => TypeOK
  <1> SUFFICES ASSUME Init PROVE TypeOK
    OBVIOUS
  <1>1. NoRow \in Row
    BY DEF NoRow, Row
  <1>2. recon \in [Runners -> [close: SUBSET Keys, backfill: SUBSET Alerts,
                               verdicts: [Alerts -> {"none", "pending", "failed", "delivered"}]]]
    BY DEF Init, NoRecon
  <1>3. QED
    BY <1>1, <1>2, FaultsAssumption DEF Init, TypeOK

(* A job replaced or removed. *)
LEMMA JobReplaced ==
    ASSUME jobs \in [Runners -> SUBSET Job], NEW r \in Runners, NEW j \in jobs[r], NEW i \in Job,
           Becomes(r, j, i)
    PROVE  /\ jobs' \in [Runners -> SUBSET Job]
           /\ jobs'[r] = (jobs[r] \ {j}) \cup {i}
           /\ \A q \in Runners : q # r => jobs'[q] = jobs[q]
  BY DEF Becomes

LEMMA JobRemoved ==
    ASSUME jobs \in [Runners -> SUBSET Job], NEW r \in Runners, NEW j \in jobs[r], Without(r, j)
    PROVE  /\ jobs' \in [Runners -> SUBSET Job]
           /\ jobs'[r] = jobs[r] \ {j}
           /\ \A q \in Runners : q # r => jobs'[q] = jobs[q]
  BY DEF Without

LEMMA JobFields ==
    ASSUME TypeOK, NEW r \in Runners, NEW j \in jobs[r]
    PROVE  /\ j \in Job /\ j.key \in Keys /\ j.attempt \in Nat
           /\ j.answer \in {"none", "ok", "retry", "permanent"}
           /\ j.verdict \in {"none", "pending", "failed", "delivered"}
           /\ rows[j.key] \in Row
  <1>1. j \in Job
    BY DEF TypeOK
  <1>2. QED
    BY <1>1 DEF Job, TypeOK

(* What the steps of one delivery make of its job. *)
LEMMA SendJob ==
    ASSUME TypeOK, NEW r \in Runners, NEW j \in jobs[r], NEW answer \in Answers, Send(r, j, answer)
    PROVE  \E i \in Job : /\ i.key = j.key /\ i.attempt = j.attempt /\ i.verdict = j.verdict
                          /\ i.answer = answer /\ j.answer = "none"
                          /\ Becomes(r, j, i)
  <1> DEFINE i == [j EXCEPT !.answer = answer]
  <1>1. j \in Job
    BY DEF TypeOK
  <1>2. /\ i \in Job /\ i.key = j.key /\ i.attempt = j.attempt /\ i.verdict = j.verdict
        /\ i.answer = answer
    BY <1>1 DEF Job, Answers
  <1>3. Becomes(r, j, i) /\ j.answer = "none"
    BY DEF Send
  <1> HIDE DEF i
  <1>4. QED
    BY <1>2, <1>3

LEMMA RecordJob ==
    ASSUME TypeOK, NEW r \in Runners, NEW j \in jobs[r], RecordOutcome(r, j)
    PROVE  \E i \in Job : /\ i.key = j.key /\ i.attempt = j.attempt /\ i.answer = j.answer
                          /\ i.verdict = Verdict(j.key[1], [RowStates EXCEPT ![j.key] = Outcome(j)])
                          /\ i.verdict # "none"
                          /\ Becomes(r, j, i)
  <1> DEFINE v == Verdict(j.key[1], [RowStates EXCEPT ![j.key] = Outcome(j)])
             i == [j EXCEPT !.verdict = v]
  <1>1. j \in Job /\ v \in {"pending", "failed", "delivered"}
    BY VerdictType DEF TypeOK
  <1>2. Becomes(r, j, i)
    BY DEF RecordOutcome
  <1> HIDE DEF v
  <1>3. /\ i \in Job /\ i.key = j.key /\ i.attempt = j.attempt /\ i.answer = j.answer
        /\ i.verdict = v /\ i.verdict # "none"
    BY <1>1 DEF Job
  <1> HIDE DEF i
  <1>4. QED
    BY <1>2, <1>3 DEF v

(* A delivery's step changes one job and, at its commit, the row. *)
LEMMA JobStep ==
    ASSUME TypeOK, NEW r \in Runners, NEW j \in jobs[r],
           \/ \E answer \in Answers : Send(r, j, answer)
           \/ RecordOutcome(r, j) \/ CommitOutcome(r, j)
           \/ OutcomeRefused(r, j) \/ OutcomeLost(r, j)
    PROVE  /\ UNCHANGED <<pc, epoch, conf, recon>>
           /\ jobs' \in [Runners -> SUBSET Job]
           /\ \A q \in Runners : q # r => jobs'[q] = jobs[q]
           /\ \/ \E i \in Job : i.key = j.key /\ i.attempt = j.attempt /\ jobs'[r] = (jobs[r] \ {j}) \cup {i}
              \/ jobs'[r] = jobs[r] \ {j}
           /\ faults' = faults \/ Fault
           /\ accepted \subseteq accepted' /\ accepted' \subseteq accepted \cup {j.key}
           /\ CommitOutcome(r, j) \/ (rows' = rows /\ summary' = summary)
  <1>0. jobs \in [Runners -> SUBSET Job]
    BY DEF TypeOK
  <1>1. ASSUME NEW answer \in Answers, Send(r, j, answer)
        PROVE  /\ UNCHANGED <<pc, epoch, conf, recon, faults, rows, summary>>
               /\ jobs' \in [Runners -> SUBSET Job]
               /\ \A q \in Runners : q # r => jobs'[q] = jobs[q]
               /\ \E i \in Job : i.key = j.key /\ i.attempt = j.attempt /\ jobs'[r] = (jobs[r] \ {j}) \cup {i}
               /\ accepted \subseteq accepted' /\ accepted' \subseteq accepted \cup {j.key}
    <2>1. PICK i \in Job : i.key = j.key /\ i.attempt = j.attempt /\ Becomes(r, j, i)
      BY <1>1, SendJob
    <2>2. accepted \subseteq accepted' /\ accepted' \subseteq accepted \cup {j.key}
      BY <1>1 DEF Send
    <2>3. UNCHANGED <<pc, epoch, conf, recon, faults, rows, summary>>
      BY <1>1 DEF Send
    <2>4. QED
      BY <1>0, <2>1, <2>2, <2>3, JobReplaced
  <1>2. CASE RecordOutcome(r, j)
    <2>1. PICK i \in Job : i.key = j.key /\ i.attempt = j.attempt /\ Becomes(r, j, i)
      BY <1>2, RecordJob
    <2>2. UNCHANGED <<pc, epoch, conf, recon, faults, rows, summary, accepted>>
      BY <1>2 DEF RecordOutcome
    <2>3. QED
      BY <1>0, <2>1, <2>2, JobReplaced
  <1>3. CASE CommitOutcome(r, j)
    <2>1. UNCHANGED <<pc, epoch, conf, recon, faults, accepted>> /\ Without(r, j)
      BY <1>3 DEF CommitOutcome
    <2>2. QED
      BY <1>0, <1>3, <2>1, JobRemoved
  <1>4. CASE OutcomeRefused(r, j)
    <2>1. UNCHANGED <<pc, epoch, conf, recon, faults, rows, summary, accepted>> /\ Without(r, j)
      BY <1>4 DEF OutcomeRefused
    <2>2. QED
      BY <1>0, <2>1, JobRemoved
  <1>5. CASE OutcomeLost(r, j)
    <2>1. UNCHANGED <<pc, epoch, conf, recon, rows, summary, accepted>> /\ Without(r, j) /\ Fault
      BY <1>5 DEF OutcomeLost
    <2>2. QED
      BY <1>0, <2>1, JobRemoved
  <1>6. QED
    BY <1>1, <1>2, <1>3, <1>4, <1>5

(* A committed outcome. *)
LEMMA CommittedRow ==
    ASSUME TypeOK, NEW r \in Runners, NEW j \in jobs[r], CommitOutcome(r, j)
    PROVE  /\ rows' \in [Keys -> Row]
           /\ rows'[j.key] = [state |-> Outcome(j), attempts |-> rows[j.key].attempts, owner |-> {},
                              due |-> FALSE, expired |-> FALSE]
           /\ \A k \in Keys : k # j.key => rows'[k] = rows[k]
           /\ j.verdict # "none" /\ j.key[1] \in Alerts
           /\ summary' = [summary EXCEPT ![j.key[1]] = j.verdict]
           /\ Outcome(j) \in {"delivered", "failed", "pending"}
  <1> DEFINE x == [state |-> Outcome(j), attempts |-> rows[j.key].attempts, owner |-> {},
                   due |-> FALSE, expired |-> FALSE]
  <1>1. j.key \in Keys /\ j.key[1] \in Alerts /\ rows \in [Keys -> Row] /\ rows[j.key] \in Row
    BY JobFields, KeyParts DEF TypeOK
  <1>2. Outcome(j) \in {"delivered", "failed", "pending"}
    BY DEF Outcome
  <1>3. x \in Row
    BY <1>1, <1>2 DEF Row
  <1>4. rows' = [rows EXCEPT ![j.key] = x] /\ summary' = [summary EXCEPT ![j.key[1]] = j.verdict]
    BY DEF CommitOutcome
  <1>5. j.verdict # "none"
    BY DEF CommitOutcome
  <1>6. QED
    BY <1>1, <1>2, <1>3, <1>4, <1>5

LEMMA ClaimedRows ==
    ASSUME TypeOK, NEW r \in Runners, NEW K \in SUBSET Claimable(r), ClaimAlertDeliveries(r, K)
    PROVE  /\ K \subseteq Keys /\ rows' \in [Keys -> Row]
           /\ \A k \in K : /\ rows'[k].state = "leased" /\ rows'[k].attempts = rows[k].attempts + 1
                            /\ rows'[k].owner = {Owner(r)} /\ ~rows'[k].expired
           /\ \A k \in Keys : k \notin K => rows'[k] = rows[k]
  <1>1. K \subseteq Keys /\ rows \in [Keys -> Row] /\ epoch[r] \in Nat
    BY DEF Claimable, TypeOK
  <1>2. rows' = [k \in Keys |-> IF k \in K THEN Claimed(r, k) ELSE rows[k]]
    BY DEF ClaimAlertDeliveries
  <1>3. \A k \in K : Claimed(r, k) \in Row
    BY <1>1 DEF Claimed, Row, Owner, Owners
  <1>4. QED
    BY <1>1, <1>2, <1>3 DEF Claimed

(* The jobs of a claim, or none when the reply is lost. *)
LEMMA ClaimedJobs ==
    ASSUME TypeOK, NEW r \in Runners, NEW K \in SUBSET Claimable(r), ClaimAlertDeliveries(r, K)
    PROVE  /\ jobs' \in [Runners -> SUBSET Job]
           /\ \A q \in Runners : q # r => jobs'[q] = jobs[q]
           /\ \/ /\ faults' = faults
                 /\ \A j \in jobs'[r] : /\ j.key \in K /\ j.attempt = rows[j.key].attempts + 1
                                         /\ j.answer = "none" /\ j.verdict = "none"
                 /\ \A k \in K : \E j \in jobs'[r] : j.key = k
              \/ Fault /\ jobs' = jobs
  <1> DEFINE J(k) == [key |-> k, attempt |-> rows[k].attempts + 1, answer |-> "none",
                      verdict |-> "none"]
  <1>1. K \subseteq Keys /\ rows \in [Keys -> Row] /\ jobs \in [Runners -> SUBSET Job]
    BY DEF Claimable, TypeOK
  <1>2. \A k \in K : J(k) \in Job
    BY <1>1 DEF Job, Row
  <1>3. CASE jobs' = [jobs EXCEPT ![r] = {J(k) : k \in K}] /\ faults' = faults
    <2>1. jobs'[r] = {J(k) : k \in K}
      BY <1>1, <1>3
    <2>2. jobs' \in [Runners -> SUBSET Job]
      BY <1>1, <1>2, <1>3
    <2>3. \A q \in Runners : q # r => jobs'[q] = jobs[q]
      BY <1>1, <1>3
    <2>4. \A j \in jobs'[r] : /\ j.key \in K /\ j.attempt = rows[j.key].attempts + 1
                              /\ j.answer = "none" /\ j.verdict = "none"
      BY <2>1
    <2>5. \A k \in K : \E j \in jobs'[r] : j.key = k
      <3> SUFFICES ASSUME NEW k \in K PROVE \E j \in jobs'[r] : j.key = k
        OBVIOUS
      <3>1. J(k) \in jobs'[r] /\ J(k).key = k
        BY <2>1
      <3>2. QED
        BY <3>1
    <2>6. QED
      BY <1>3, <2>2, <2>3, <2>4, <2>5
  <1>4. CASE Fault /\ jobs' = jobs
    BY <1>1, <1>4
  <1>5. QED
    BY <1>3, <1>4 DEF ClaimAlertDeliveries

LEMMA CreatedRows ==
    ASSUME TypeOK, NEW r \in Runners, NEW a \in Alerts, CreateAlert(r, a)
    PROVE  /\ rows' \in [Keys -> Row]
           /\ \A k \in Keys : rows'[k] = IF k[1] = a /\ k[2] \in conf[r] THEN NewDelivery ELSE rows[k]
           /\ summary' \in [Alerts -> {"absent", "unconfigured", "pending", "failed", "delivered"}]
           /\ \A b \in Alerts : b # a => summary'[b] = summary[b]
           /\ summary[a] = "absent" /\ summary'[a] = IF conf[r] = {} THEN "unconfigured" ELSE "pending"
           /\ UNCHANGED <<pc, epoch, conf, jobs, recon, accepted, faults>>
  <1>1. NewDelivery \in Row
    BY DEF NewDelivery, Row
  <1>2. QED
    BY <1>1 DEF CreateAlert, TypeOK

LEMMA ClockRows ==
    ASSUME TypeOK, NEW k \in Keys, BecomesDue(k) \/ LeaseExpires(k)
    PROVE  /\ rows' \in [Keys -> Row]
           /\ \A l \in Keys : l # k => rows'[l] = rows[l]
           /\ rows'[k].state = rows[k].state /\ rows'[k].attempts = rows[k].attempts
           /\ rows'[k].owner = rows[k].owner /\ Open(rows[k].state)
           /\ BecomesDue(k) => rows[k].state = "pending" /\ faults' = faults
           /\ faults' = faults \/ Fault
           /\ UNCHANGED <<summary, pc, epoch, conf, jobs, recon, accepted>>
  <1>0. rows \in [Keys -> Row] /\ rows[k] \in Row
    BY DEF TypeOK
  <1>1. CASE BecomesDue(k)
    <2> DEFINE x == [rows[k] EXCEPT !.due = TRUE]
    <2>1. /\ x \in Row /\ x.state = rows[k].state /\ x.attempts = rows[k].attempts
          /\ x.owner = rows[k].owner
      BY <1>0 DEF Row
    <2>2. rows' = [rows EXCEPT ![k] = x] /\ rows[k].state = "pending" /\ faults' = faults
      BY <1>1 DEF BecomesDue
    <2>3. UNCHANGED <<summary, pc, epoch, conf, jobs, recon, accepted>>
      BY <1>1 DEF BecomesDue
    <2> HIDE DEF x
    <2>4. QED
      BY <1>0, <2>1, <2>2, <2>3 DEF Open
  <1>2. CASE LeaseExpires(k)
    <2> DEFINE x == [rows[k] EXCEPT !.expired = TRUE]
    <2>1. /\ x \in Row /\ x.state = rows[k].state /\ x.attempts = rows[k].attempts
          /\ x.owner = rows[k].owner
      BY <1>0 DEF Row
    <2>2. rows' = [rows EXCEPT ![k] = x] /\ rows[k].state = "leased" /\ (faults' = faults \/ Fault)
      BY <1>2 DEF LeaseExpires
    <2>3. UNCHANGED <<summary, pc, epoch, conf, jobs, recon, accepted>>
      BY <1>2 DEF LeaseExpires
    <2>4. ~BecomesDue(k)
      BY <2>2 DEF BecomesDue
    <2> HIDE DEF x
    <2>5. QED
      BY <1>0, <2>1, <2>2, <2>3, <2>4 DEF Open
  <1>3. QED
    BY <1>1, <1>2

(* What an open reconciliation holds. *)
ReconRecord ==
    [close: SUBSET Keys, backfill: SUBSET Alerts,
     verdicts: [Alerts -> {"none", "pending", "failed", "delivered"}]]

LEMMA ReconType ==
    ASSUME TypeOK, NEW r \in Runners
    PROVE  /\ recon[r] \in ReconRecord /\ NoRecon \in ReconRecord
           /\ recon[r].close \subseteq Keys /\ recon[r].backfill \subseteq Alerts
           /\ recon[r].verdicts \in [Alerts -> {"none", "pending", "failed", "delivered"}]
  BY DEF TypeOK, NoRecon, ReconRecord

(* Steps that only change what a reconciliation holds. *)
LEMMA ReconAfter ==
    ASSUME TypeOK, NEW r \in Runners, NEW x \in ReconRecord, recon' = [recon EXCEPT ![r] = x]
    PROVE  /\ recon' \in [Runners -> ReconRecord]
           /\ recon'[r] = x /\ \A q \in Runners : q # r => recon'[q] = recon[q]
  BY DEF TypeOK, ReconRecord

(* The rows after a reconciliation. *)
LEMMA ReconciledRows ==
    ASSUME TypeOK, NEW r \in Runners, ReconcileCommits(r)
    PROVE  /\ rows' \in [Keys -> Row]
           /\ \A k \in recon[r].close : /\ rows'[k].state = "failed" /\ rows'[k].owner = {}
                                         /\ rows'[k].attempts = rows[k].attempts
           /\ \A k \in Keys : k \notin recon[r].close =>
                 rows'[k] = IF k \in Inserted(r, recon[r].backfill) THEN NewDelivery ELSE rows[k]
  <1> DEFINE C(k) == [rows[k] EXCEPT !.state = "failed", !.owner = {}, !.expired = FALSE]
  <1>1. \A k \in Keys : /\ C(k) \in Row /\ C(k).state = "failed" /\ C(k).owner = {}
                        /\ C(k).attempts = rows[k].attempts
    <2> SUFFICES ASSUME NEW k \in Keys
                 PROVE  /\ C(k) \in Row /\ C(k).state = "failed" /\ C(k).owner = {}
                        /\ C(k).attempts = rows[k].attempts
      OBVIOUS
    <2>1. PICK x \in Row : x = rows[k]
      BY DEF TypeOK
    <2>2. /\ [x EXCEPT !.state = "failed", !.owner = {}, !.expired = FALSE] \in Row
          /\ [x EXCEPT !.state = "failed", !.owner = {}, !.expired = FALSE].state = "failed"
          /\ [x EXCEPT !.state = "failed", !.owner = {}, !.expired = FALSE].owner = {}
          /\ [x EXCEPT !.state = "failed", !.owner = {}, !.expired = FALSE].attempts = x.attempts
      BY DEF Row
    <2>3. QED
      BY <2>1, <2>2
  <1>2. rows' = [k \in Keys |-> IF k \in recon[r].close THEN C(k)
                               ELSE IF k \in Inserted(r, recon[r].backfill) THEN NewDelivery
                               ELSE rows[k]]
    BY DEF ReconcileCommits
  <1>3. NewDelivery \in Row /\ recon[r].close \subseteq Keys
    BY ReconType DEF NewDelivery, Row
  <1> HIDE DEF C
  <1>4. QED
    BY <1>1, <1>2, <1>3 DEF TypeOK

LEMMA ReadRecon ==
    ASSUME TypeOK, NEW r \in Runners, ReconcileReads(r)
    PROVE  \E x \in ReconRecord :
              /\ x.close = Orphaned(r) /\ x.backfill = Backfilled(r)
              /\ x.verdicts =
                    [a \in Alerts |->
                       LET states == [k \in Keys |->
                                        IF k \in Orphaned(r) THEN "failed"
                                        ELSE IF k \in Inserted(r, Backfilled(r)) THEN "pending"
                                        ELSE rows[k].state]
                       IN IF HasRows(a, states) THEN Verdict(a, states) ELSE "none"]
              /\ recon' = [recon EXCEPT ![r] = x]
  <1> DEFINE states == [k \in Keys |->
                          IF k \in Orphaned(r) THEN "failed"
                          ELSE IF k \in Inserted(r, Backfilled(r)) THEN "pending"
                          ELSE rows[k].state]
             v == [a \in Alerts |-> IF HasRows(a, states) THEN Verdict(a, states) ELSE "none"]
             x == [close |-> Orphaned(r), backfill |-> Backfilled(r), verdicts |-> v]
  <1>1. recon' = [recon EXCEPT ![r] = x]
    BY DEF ReconcileReads
  <1>2. v \in [Alerts -> {"none", "pending", "failed", "delivered"}]
    <2> HIDE DEF states
    <2>1. QED
      BY VerdictType
  <1>3. Orphaned(r) \subseteq Keys /\ Backfilled(r) \subseteq Alerts
    BY ReconType DEF Orphaned, Backfilled
  <1>4. x \in ReconRecord
    <2> HIDE DEF v
    <2>1. QED
      BY <1>2, <1>3 DEF ReconRecord
  <1>5. QED
    BY <1>1, <1>4

LEMMA TypeStep ==
    ASSUME TypeOK, Next
    PROVE  TypeOK'
  <1>1. ASSUME NEW r \in Runners, NEW a \in Alerts, CreateAlert(r, a) PROVE TypeOK'
    BY <1>1, CreatedRows DEF TypeOK
  <1>2. ASSUME NEW k \in Keys, BecomesDue(k) \/ LeaseExpires(k) PROVE TypeOK'
    BY <1>2, ClockRows, FaultType DEF TypeOK
  <1>3. ASSUME NEW r \in Runners, NEW K \in SUBSET Claimable(r), ClaimAlertDeliveries(r, K)
        PROVE  TypeOK'
    <2>1. /\ pc' = [pc EXCEPT ![r] = "deliver"]
          /\ UNCHANGED <<summary, epoch, conf, recon, accepted>>
      BY <1>3 DEF ClaimAlertDeliveries
    <2>2. pc' \in [Runners -> {"process", "deliver", "reconcile", "selected", "reconciling"}]
      BY <2>1 DEF TypeOK
    <2>3. faults' \in 0..MaxFaults
      BY <1>3, ClaimedJobs, FaultType DEF TypeOK
    <2>4. QED
      BY <1>3, <2>1, <2>2, <2>3, ClaimedRows, ClaimedJobs DEF TypeOK
  <1>4. ASSUME NEW r \in Runners, NEW j \in jobs[r],
               \/ \E answer \in Answers : Send(r, j, answer)
               \/ RecordOutcome(r, j) \/ CommitOutcome(r, j)
               \/ OutcomeRefused(r, j) \/ OutcomeLost(r, j)
        PROVE  TypeOK'
    <2>1. /\ UNCHANGED <<pc, epoch, conf, recon>> /\ jobs' \in [Runners -> SUBSET Job]
          /\ faults' = faults \/ Fault
          /\ accepted' \subseteq accepted \cup {j.key}
          /\ CommitOutcome(r, j) \/ (rows' = rows /\ summary' = summary)
      BY <1>4, JobStep
    <2>2. faults' \in 0..MaxFaults /\ accepted' \subseteq Keys
      BY <2>1, FaultType, JobFields DEF TypeOK
    <2>3. /\ rows' \in [Keys -> Row]
          /\ summary' \in [Alerts -> {"absent", "unconfigured", "pending", "failed", "delivered"}]
      <3>1. CASE CommitOutcome(r, j)
        <4>1. /\ rows' \in [Keys -> Row] /\ j.verdict # "none" /\ j.key[1] \in Alerts
              /\ summary' = [summary EXCEPT ![j.key[1]] = j.verdict]
          BY <3>1, CommittedRow
        <4>2. j.verdict \in {"pending", "failed", "delivered"}
          BY <4>1, JobFields
        <4>3. QED
          BY <4>1, <4>2 DEF TypeOK
      <3>2. QED
        BY <2>1, <3>1 DEF TypeOK
    <2>4. QED
      BY <2>1, <2>2, <2>3 DEF TypeOK
  <1>5. ASSUME NEW r \in Runners, LoopContinues(r) PROVE TypeOK'
    <2>1. /\ UNCHANGED <<summary, rows, epoch, conf, jobs, recon, accepted, faults>>
          /\ \E next \in {"process", "reconcile"} : pc' = [pc EXCEPT ![r] = next]
      BY <1>5 DEF LoopContinues
    <2>2. pc' \in [Runners -> {"process", "deliver", "reconcile", "selected", "reconciling"}]
      BY <2>1 DEF TypeOK
    <2>3. QED
      BY <2>1, <2>2 DEF TypeOK
  <1>6. ASSUME NEW r \in Runners,
               ReconcileSelects(r) \/ ReconcileReads(r) \/ ReconcileFails(r)
        PROVE  TypeOK'
    <2>1. /\ UNCHANGED <<summary, rows, epoch, conf, jobs, accepted>>
          /\ \E next \in {"process", "selected", "reconciling"} : pc' = [pc EXCEPT ![r] = next]
          /\ faults' = faults \/ Fault
      BY <1>6 DEF ReconcileSelects, ReconcileReads, ReconcileFails
    <2>2. pc' \in [Runners -> {"process", "deliver", "reconcile", "selected", "reconciling"}]
      BY <2>1 DEF TypeOK
    <2>3. recon' \in [Runners -> ReconRecord]
      <3>1. CASE ReconcileSelects(r)
        <4>1. PICK B \in SUBSET Alerts : recon' = [recon EXCEPT ![r].backfill = B]
          BY <3>1 DEF ReconcileSelects
        <4>2. [recon[r] EXCEPT !.backfill = B] \in ReconRecord
          BY ReconType DEF ReconRecord
        <4>3. QED
          BY <4>1, <4>2 DEF TypeOK, ReconRecord
      <3>2. CASE ReconcileReads(r)
        BY <3>2, ReadRecon, ReconAfter
      <3>3. CASE ReconcileFails(r)
        BY <3>3, ReconType, ReconAfter DEF ReconcileFails
      <3>4. QED
        BY <1>6, <3>1, <3>2, <3>3
    <2>4. QED
      BY <2>1, <2>2, <2>3, FaultType DEF TypeOK, ReconRecord
  <1>7. ASSUME NEW r \in Runners, ReconcileCommits(r) PROVE TypeOK'
    <2>1. /\ UNCHANGED <<epoch, conf, jobs, accepted, faults>>
          /\ pc' = [pc EXCEPT ![r] = "process"] /\ recon' = [recon EXCEPT ![r] = NoRecon]
          /\ summary' = [a \in Alerts |->
                           IF recon[r].verdicts[a] # "none" THEN recon[r].verdicts[a]
                           ELSE IF a \in recon[r].backfill THEN "unconfigured"
                           ELSE summary[a]]
      BY <1>7 DEF ReconcileCommits
    <2>2. recon' \in [Runners -> ReconRecord]
      BY <2>1, ReconType, ReconAfter
    <2>3. summary' \in [Alerts -> {"absent", "unconfigured", "pending", "failed", "delivered"}]
      BY <2>1, ReconType DEF TypeOK
    <2>4. pc' \in [Runners -> {"process", "deliver", "reconcile", "selected", "reconciling"}]
      BY <2>1 DEF TypeOK
    <2>5. QED
      BY <1>7, <2>1, <2>2, <2>3, <2>4, ReconciledRows DEF TypeOK, ReconRecord
  <1>8. ASSUME NEW r \in Runners, NEW channels \in Configs, Restart(r, channels) PROVE TypeOK'
    <2>1. /\ Fault /\ UNCHANGED <<summary, rows, accepted>>
          /\ epoch' = [epoch EXCEPT ![r] = @ + 1] /\ conf' = [conf EXCEPT ![r] = channels]
          /\ jobs' = [jobs EXCEPT ![r] = {}] /\ recon' = [recon EXCEPT ![r] = NoRecon]
          /\ pc' = [pc EXCEPT ![r] = "reconcile"]
      BY <1>8 DEF Restart
    <2>2. recon' \in [Runners -> ReconRecord]
      BY <2>1, ReconType, ReconAfter
    <2>3. /\ epoch' \in [Runners -> Nat] /\ conf' \in [Runners -> Configs]
          /\ jobs' \in [Runners -> SUBSET Job]
          /\ pc' \in [Runners -> {"process", "deliver", "reconcile", "selected", "reconciling"}]
      BY <2>1 DEF TypeOK
    <2>4. QED
      BY <2>1, <2>2, <2>3, FaultType DEF TypeOK, ReconRecord
  <1>9. QED
    BY <1>1, <1>2, <1>3, <1>4, <1>5, <1>6, <1>7, <1>8, Steps

(* Every table and every runner's bookkeeping is well typed, whatever is    *)
(* interleaved.                                                              *)
THEOREM DeliveryTyped == Spec => []TypeOK
  <1>1. TypeOK /\ [Next]_vars => TypeOK'
    <2> SUFFICES ASSUME TypeOK, [Next]_vars PROVE TypeOK'
      OBVIOUS
    <2>1. CASE UNCHANGED vars
      BY <2>1 DEF vars, TypeOK
    <2>2. QED
      BY <2>1, TypeStep
  <1>2. QED
    BY <1>1, TypeInit, PTL DEF Spec

-------------------------------------------------------------------------------
(* The fence. *)

(* process waits for all deliveries of a batch, so a runner that is not     *)
(* delivering has none: a second claim by the same owner cannot overtake an *)
(* outcome of its first.                                                     *)
IdleHasNoJobs == \A r \in Runners : pc[r] # "deliver" => jobs[r] = {}

FenceInv == TypeOK /\ IdleHasNoJobs /\ OutcomeIsOfLatestClaim

(* The invariant says of every runner's jobs the same. *)
LEMMA SameRowsFence ==
    ASSUME FenceInv, epoch' = epoch,
           \A q \in Runners : \A i \in jobs'[q] :
              \E j \in jobs[q] : i.key = j.key /\ i.attempt = j.attempt,
           \A q \in Runners : \A j \in jobs[q] :
              \/ /\ rows'[j.key].owner \subseteq rows[j.key].owner
                 /\ rows'[j.key].state = rows[j.key].state
                 /\ rows'[j.key].attempts = rows[j.key].attempts
              \/ rows'[j.key].state # "leased"
    PROVE  OutcomeIsOfLatestClaim'
  <1> SUFFICES ASSUME NEW q \in Runners, NEW i \in jobs'[q], HoldsLease(q, i)'
               PROVE  i.attempt = rows'[i.key].attempts
    BY DEF OutcomeIsOfLatestClaim
  <1>1. PICK j \in jobs[q] : i.key = j.key /\ i.attempt = j.attempt
    OBVIOUS
  <1>2. rows'[j.key].state = "leased" /\ Owner(q) \in rows'[j.key].owner
    BY <1>1 DEF HoldsLease, Owner
  <1>3. HoldsLease(q, j) /\ rows'[j.key].attempts = rows[j.key].attempts
    BY <1>2 DEF HoldsLease
  <1>4. QED
    BY <1>1, <1>3 DEF FenceInv, OutcomeIsOfLatestClaim

LEMMA FenceStep ==
    ASSUME FenceInv, Next
    PROVE  FenceInv'
  <1> USE DEF FenceInv
  <1>0. TypeOK'
    BY TypeStep
  <1>1. ASSUME NEW r \in Runners, NEW a \in Alerts, CreateAlert(r, a) PROVE FenceInv'
    <2>1. UNCHANGED <<pc, epoch, jobs>>
      BY <1>1, CreatedRows
    <2>2. \A k \in Keys : rows'[k] = rows[k] \/ rows'[k].state = "pending"
      BY <1>1, CreatedRows DEF NewDelivery
    <2>3. \A q \in Runners : \A j \in jobs[q] : rows'[j.key] = rows[j.key] \/ rows'[j.key].state # "leased"
      BY <2>2, JobFields
    <2>4. OutcomeIsOfLatestClaim'
      BY <2>1, <2>3, SameRowsFence
    <2>5. QED
      BY <1>0, <2>1, <2>4 DEF IdleHasNoJobs
  <1>2. ASSUME NEW k \in Keys, BecomesDue(k) \/ LeaseExpires(k) PROVE FenceInv'
    <2>1. UNCHANGED <<pc, epoch, jobs>>
      BY <1>2, ClockRows
    <2>2. \A l \in Keys : /\ rows'[l].owner = rows[l].owner /\ rows'[l].state = rows[l].state
                          /\ rows'[l].attempts = rows[l].attempts
      BY <1>2, ClockRows
    <2>3. OutcomeIsOfLatestClaim'
      BY <2>1, <2>2, JobFields, SameRowsFence
    <2>4. QED
      BY <1>0, <2>1, <2>3 DEF IdleHasNoJobs
  <1>3. ASSUME NEW r \in Runners, NEW K \in SUBSET Claimable(r), ClaimAlertDeliveries(r, K)
        PROVE  FenceInv'
    <2>1. pc[r] = "process" /\ pc' = [pc EXCEPT ![r] = "deliver"] /\ epoch' = epoch
      BY <1>3 DEF ClaimAlertDeliveries
    <2>2. jobs[r] = {}
      BY <2>1 DEF IdleHasNoJobs
    <2>3. /\ \A q \in Runners : q # r => jobs'[q] = jobs[q]
          /\ \A j \in jobs'[r] : j.key \in K /\ j.attempt = rows[j.key].attempts + 1
      BY <1>3, <2>2, ClaimedJobs
    <2>4. /\ \A k \in K : /\ rows'[k].state = "leased" /\ rows'[k].attempts = rows[k].attempts + 1
                           /\ rows'[k].owner = {Owner(r)}
          /\ \A k \in Keys : k \notin K => rows'[k] = rows[k]
      BY <1>3, ClaimedRows
    <2>5. IdleHasNoJobs'
      BY <2>1, <2>3 DEF IdleHasNoJobs, TypeOK
    <2>6. ASSUME NEW q \in Runners, NEW i \in jobs'[q], HoldsLease(q, i)'
          PROVE  i.attempt = rows'[i.key].attempts
      <3>1. CASE q = r
        BY <2>3, <2>4, <3>1
      <3>2. CASE q # r
        <4>1. i \in jobs[q] /\ i.key \in Keys
          BY <2>3, <3>2, JobFields
        <4>2. Owner(q) \in rows'[i.key].owner /\ Owner(q) # Owner(r)
          BY <2>1, <2>6, <3>2 DEF HoldsLease, Owner
        <4>3. i.key \notin K
          BY <2>4, <4>2
        <4>4. HoldsLease(q, i)
          BY <2>1, <2>4, <2>6, <4>1, <4>3 DEF HoldsLease, Owner
        <4>5. QED
          BY <2>4, <4>1, <4>3, <4>4 DEF OutcomeIsOfLatestClaim
      <3>3. QED
        BY <3>1, <3>2
    <2>7. QED
      BY <1>0, <2>5, <2>6 DEF OutcomeIsOfLatestClaim
  <1>4. ASSUME NEW r \in Runners, NEW j \in jobs[r],
               \/ \E answer \in Answers : Send(r, j, answer)
               \/ RecordOutcome(r, j) \/ CommitOutcome(r, j)
               \/ OutcomeRefused(r, j) \/ OutcomeLost(r, j)
        PROVE  FenceInv'
    <2>1. /\ UNCHANGED <<pc, epoch>>
          /\ \A q \in Runners : q # r => jobs'[q] = jobs[q]
          /\ \/ \E i \in Job : i.key = j.key /\ i.attempt = j.attempt /\ jobs'[r] = (jobs[r] \ {j}) \cup {i}
             \/ jobs'[r] = jobs[r] \ {j}
          /\ CommitOutcome(r, j) \/ rows' = rows
      BY <1>4, JobStep
    <2>2. IdleHasNoJobs'
      BY <2>1 DEF IdleHasNoJobs
    <2>3. \A q \in Runners : \A i \in jobs'[q] :
             \E h \in jobs[q] : i.key = h.key /\ i.attempt = h.attempt
      BY <2>1
    <2>4. \A q \in Runners : \A h \in jobs[q] : rows'[h.key] = rows[h.key] \/ rows'[h.key].state # "leased"
      <3>1. CASE CommitOutcome(r, j)
        <4>1. /\ rows'[j.key] = [state |-> Outcome(j), attempts |-> rows[j.key].attempts,
                                 owner |-> {}, due |-> FALSE, expired |-> FALSE]
              /\ \A k \in Keys : k # j.key => rows'[k] = rows[k]
              /\ Outcome(j) \in {"delivered", "failed", "pending"}
          BY <3>1, CommittedRow
        <4>2. rows'[j.key].state \in {"delivered", "failed", "pending"}
          BY <4>1
        <4>3. QED
          BY <4>1, <4>2, JobFields
      <3>2. QED
        BY <2>1, <3>1
    <2>5. OutcomeIsOfLatestClaim'
      BY <2>1, <2>3, <2>4, SameRowsFence
    <2>6. QED
      BY <1>0, <2>2, <2>5
  <1>5. ASSUME NEW r \in Runners,
               LoopContinues(r) \/ ReconcileSelects(r) \/ ReconcileReads(r) \/ ReconcileFails(r)
        PROVE  FenceInv'
    <2>1. /\ UNCHANGED <<rows, epoch, jobs>> /\ jobs[r] = {}
          /\ \A q \in Runners : q # r => pc'[q] = pc[q]
      BY <1>5 DEF LoopContinues, ReconcileSelects, ReconcileReads, ReconcileFails, IdleHasNoJobs, TypeOK
    <2>2. OutcomeIsOfLatestClaim'
      BY <2>1, SameRowsFence
    <2>3. QED
      BY <1>0, <2>1, <2>2 DEF IdleHasNoJobs
  <1>6. ASSUME NEW r \in Runners, ReconcileCommits(r) PROVE FenceInv'
    <2>1. /\ UNCHANGED <<epoch, jobs>> /\ jobs[r] = {}
          /\ \A q \in Runners : q # r => pc'[q] = pc[q]
      BY <1>6 DEF ReconcileCommits, IdleHasNoJobs, TypeOK
    <2>2. \A k \in Keys : rows'[k] = rows[k] \/ rows'[k].state # "leased"
      BY <1>6, ReconciledRows DEF NewDelivery
    <2>3. OutcomeIsOfLatestClaim'
      BY <2>1, <2>2, JobFields, SameRowsFence
    <2>4. QED
      BY <1>0, <2>1, <2>3 DEF IdleHasNoJobs
  <1>7. ASSUME NEW r \in Runners, NEW channels \in Configs, Restart(r, channels) PROVE FenceInv'
    <2>1. /\ rows' = rows /\ jobs'[r] = {}
          /\ \A q \in Runners : q # r => /\ pc'[q] = pc[q] /\ jobs'[q] = jobs[q]
                                         /\ epoch'[q] = epoch[q]
      BY <1>7 DEF Restart, TypeOK
    <2>2. OutcomeIsOfLatestClaim'
      BY <2>1 DEF OutcomeIsOfLatestClaim, HoldsLease, Owner
    <2>3. QED
      BY <1>0, <2>1, <2>2 DEF IdleHasNoJobs
  <1>8. QED
    BY <1>1, <1>2, <1>3, <1>4, <1>5, <1>6, <1>7, Steps

(* The inductive invariant behind the owner check of RecordDeliveryOutcome: *)
(* a runner between two batches holds no job, so no outcome of an earlier   *)
(* claim by the same owner is still to come.                                 *)
THEOREM FenceHolds == Spec => []FenceInv
  <1>1. Init => FenceInv
    <2>1. Init => IdleHasNoJobs /\ OutcomeIsOfLatestClaim
      BY DEF Init, IdleHasNoJobs, OutcomeIsOfLatestClaim
    <2>2. QED
      BY <2>1, TypeInit DEF FenceInv
  <1>2. FenceInv /\ [Next]_vars => FenceInv'
    <2> SUFFICES ASSUME FenceInv, [Next]_vars PROVE FenceInv'
      OBVIOUS
    <2>1. CASE UNCHANGED vars
      BY <2>1 DEF vars, FenceInv, TypeOK, IdleHasNoJobs, OutcomeIsOfLatestClaim, HoldsLease, Owner
    <2>2. QED
      BY <2>1, FenceStep
  <1>3. QED
    BY <1>1, <1>2, PTL DEF Spec

(* An outcome that the owner check lets through is the outcome of the       *)
(* latest claim of that delivery: the uuid is a sufficient fence.           *)
THEOREM OwnerIsAFence == Spec => []OutcomeIsOfLatestClaim
  <1>1. FenceInv => OutcomeIsOfLatestClaim
    BY DEF FenceInv
  <1>2. QED
    BY <1>1, FenceHolds, PTL

-------------------------------------------------------------------------------
(* Acceptance. *)

(* An answer that says the request was accepted says the truth. *)
OkIsAccepted == \A r \in Runners : \A j \in jobs[r] : j.answer = "ok" => j.key \in accepted

AcceptInv == TypeOK /\ OkIsAccepted /\ DeliveredWasAccepted

(* Nothing but a committed outcome makes a delivery delivered. *)
LEMMA DeliveredByCommit ==
    ASSUME TypeOK, Next, NEW k \in Keys, rows'[k].state = "delivered", rows[k].state # "delivered"
    PROVE  \E r \in Runners : \E j \in jobs[r] :
              j.key = k /\ CommitOutcome(r, j) /\ j.answer = "ok"
  <1>1. ASSUME NEW r \in Runners, NEW a \in Alerts, CreateAlert(r, a) PROVE FALSE
    BY <1>1, CreatedRows DEF NewDelivery
  <1>2. ASSUME NEW l \in Keys, BecomesDue(l) \/ LeaseExpires(l) PROVE FALSE
    BY <1>2, ClockRows
  <1>3. ASSUME NEW r \in Runners, NEW K \in SUBSET Claimable(r), ClaimAlertDeliveries(r, K)
        PROVE  FALSE
    BY <1>3, ClaimedRows
  <1>4. ASSUME NEW r \in Runners, NEW j \in jobs[r],
               \/ \E answer \in Answers : Send(r, j, answer)
               \/ RecordOutcome(r, j) \/ CommitOutcome(r, j)
               \/ OutcomeRefused(r, j) \/ OutcomeLost(r, j)
        PROVE  j.key = k /\ CommitOutcome(r, j) /\ j.answer = "ok"
    <2>1. CommitOutcome(r, j) \/ rows' = rows
      BY <1>4, JobStep
    <2>2. CommitOutcome(r, j)
      BY <2>1
    <2>3. /\ rows'[j.key] = [state |-> Outcome(j), attempts |-> rows[j.key].attempts,
                             owner |-> {}, due |-> FALSE, expired |-> FALSE]
          /\ \A l \in Keys : l # j.key => rows'[l] = rows[l]
      BY <2>2, CommittedRow
    <2>4. rows'[j.key].state = Outcome(j)
      BY <2>3
    <2>5. j.key = k /\ Outcome(j) = "delivered"
      BY <2>3, <2>4
    <2>6. QED
      BY <2>2, <2>5 DEF Outcome
  <1>5. ASSUME NEW r \in Runners,
               LoopContinues(r) \/ ReconcileSelects(r) \/ ReconcileReads(r) \/ ReconcileFails(r)
        PROVE  FALSE
    BY <1>5 DEF LoopContinues, ReconcileSelects, ReconcileReads, ReconcileFails
  <1>6. ASSUME NEW r \in Runners, ReconcileCommits(r) PROVE FALSE
    <2>1. rows'[k].state = "failed" \/ rows'[k] = NewDelivery \/ rows'[k] = rows[k]
      BY <1>6, ReconciledRows
    <2>2. QED
      BY <2>1 DEF NewDelivery
  <1>7. ASSUME NEW r \in Runners, NEW channels \in Configs, Restart(r, channels) PROVE FALSE
    BY <1>7 DEF Restart
  <1>8. QED
    BY <1>1, <1>2, <1>3, <1>4, <1>5, <1>6, <1>7, Steps

LEMMA AcceptStep ==
    ASSUME AcceptInv, Next
    PROVE  AcceptInv'
  <1> USE DEF AcceptInv
  <1>0. TypeOK'
    BY TypeStep
  <1>1. accepted \subseteq accepted' /\ OkIsAccepted'
    <2>1. ASSUME NEW r \in Runners, NEW K \in SUBSET Claimable(r), ClaimAlertDeliveries(r, K)
          PROVE  accepted \subseteq accepted' /\ OkIsAccepted'
      <3>1. accepted' = accepted
        BY <2>1 DEF ClaimAlertDeliveries
      <3>2. \A q \in Runners : \A i \in jobs'[q] : i \in jobs[q] \/ i.answer = "none"
        BY <2>1, ClaimedJobs
      <3>3. QED
        BY <3>1, <3>2 DEF OkIsAccepted
    <2>2. ASSUME NEW r \in Runners, NEW j \in jobs[r], NEW answer \in Answers, Send(r, j, answer)
          PROVE  accepted \subseteq accepted' /\ OkIsAccepted'
      <3>1. PICK i \in Job : i.key = j.key /\ i.answer = answer /\ Becomes(r, j, i)
        BY <2>2, SendJob
      <3>2. accepted \subseteq accepted' /\ (answer = "ok" => j.key \in accepted')
        BY <2>2 DEF Send
      <3>3. /\ jobs'[r] = (jobs[r] \ {j}) \cup {i}
            /\ \A q \in Runners : q # r => jobs'[q] = jobs[q]
        BY <3>1, JobReplaced DEF TypeOK
      <3>4. QED
        BY <3>1, <3>2, <3>3 DEF OkIsAccepted
    <2>3. ASSUME NEW r \in Runners, NEW j \in jobs[r], RecordOutcome(r, j)
          PROVE  accepted \subseteq accepted' /\ OkIsAccepted'
      <3>1. PICK i \in Job : i.key = j.key /\ i.answer = j.answer /\ Becomes(r, j, i)
        BY <2>3, RecordJob
      <3>2. accepted' = accepted
        BY <2>3 DEF RecordOutcome
      <3>3. /\ jobs'[r] = (jobs[r] \ {j}) \cup {i}
            /\ \A q \in Runners : q # r => jobs'[q] = jobs[q]
        BY <3>1, JobReplaced DEF TypeOK
      <3>4. QED
        BY <3>1, <3>2, <3>3 DEF OkIsAccepted
    <2>4. ASSUME NEW r \in Runners, NEW j \in jobs[r],
                 CommitOutcome(r, j) \/ OutcomeRefused(r, j) \/ OutcomeLost(r, j)
          PROVE  accepted \subseteq accepted' /\ OkIsAccepted'
      <3>1. Without(r, j) /\ accepted' = accepted
        BY <2>4 DEF CommitOutcome, OutcomeRefused, OutcomeLost
      <3>2. /\ jobs'[r] = jobs[r] \ {j}
            /\ \A q \in Runners : q # r => jobs'[q] = jobs[q]
        BY <3>1, JobRemoved DEF TypeOK
      <3>3. QED
        BY <3>1, <3>2 DEF OkIsAccepted
    <2>5. ASSUME NEW r \in Runners,
                 \/ \E a \in Alerts : CreateAlert(r, a)
                 \/ LoopContinues(r) \/ ReconcileSelects(r) \/ ReconcileReads(r)
                 \/ ReconcileCommits(r) \/ ReconcileFails(r)
          PROVE  accepted \subseteq accepted' /\ OkIsAccepted'
      <3>1. UNCHANGED <<jobs, accepted>>
        BY <2>5 DEF CreateAlert, LoopContinues, ReconcileSelects, ReconcileReads, ReconcileCommits,
                    ReconcileFails
      <3>2. QED
        BY <3>1 DEF OkIsAccepted
    <2>6. ASSUME NEW k \in Keys, BecomesDue(k) \/ LeaseExpires(k)
          PROVE  accepted \subseteq accepted' /\ OkIsAccepted'
      <3>1. UNCHANGED <<jobs, accepted>>
        BY <2>6, ClockRows
      <3>2. QED
        BY <3>1 DEF OkIsAccepted
    <2>7. ASSUME NEW r \in Runners, NEW channels \in Configs, Restart(r, channels)
          PROVE  accepted \subseteq accepted' /\ OkIsAccepted'
      <3>1. jobs'[r] = {} /\ (\A q \in Runners : q # r => jobs'[q] = jobs[q]) /\ accepted' = accepted
        BY <2>7 DEF Restart, TypeOK
      <3>2. QED
        BY <3>1 DEF OkIsAccepted
    <2>8. QED
      BY <2>1, <2>2, <2>3, <2>4, <2>5, <2>6, <2>7, Steps
  <1>2. ASSUME NEW k \in Keys, rows'[k].state = "delivered" PROVE k \in accepted'
    <2>1. CASE rows[k].state = "delivered"
      BY <1>1, <2>1 DEF DeliveredWasAccepted
    <2>2. CASE rows[k].state # "delivered"
      <3>1. PICK r \in Runners : \E j \in jobs[r] :
                    j.key = k /\ CommitOutcome(r, j) /\ j.answer = "ok"
        BY <1>2, <2>2, DeliveredByCommit
      <3>2. k \in accepted
        BY <3>1 DEF OkIsAccepted
      <3>3. QED
        BY <1>1, <3>2
    <2>3. QED
      BY <2>1, <2>2
  <1>3. QED
    BY <1>0, <1>1, <1>2 DEF DeliveredWasAccepted

(* Nothing is reported as delivered that no endpoint has accepted. *)
THEOREM DeliveredIsAccepted == Spec => []DeliveredWasAccepted
  <1>1. Init => AcceptInv
    <2>1. Init => OkIsAccepted /\ DeliveredWasAccepted
      BY DEF Init, OkIsAccepted, DeliveredWasAccepted, NoRow
    <2>2. QED
      BY <2>1, TypeInit DEF AcceptInv
  <1>2. AcceptInv /\ [Next]_vars => AcceptInv'
    <2> SUFFICES ASSUME AcceptInv, [Next]_vars PROVE AcceptInv'
      OBVIOUS
    <2>1. CASE UNCHANGED vars
      BY <2>1 DEF vars, AcceptInv, TypeOK, OkIsAccepted, DeliveredWasAccepted
    <2>2. QED
      BY <2>1, AcceptStep
  <1>3. AcceptInv => DeliveredWasAccepted
    BY DEF AcceptInv
  <1>4. QED
    BY <1>1, <1>2, <1>3, PTL DEF Spec

-------------------------------------------------------------------------------
(* Row locks. *)

(* An alert that does not exist has no delivery rows. *)
AbsentHasNoRows == \A k \in Keys : summary[k[1]] = "absent" => rows[k].state = "none"

(* What an open transaction has written is recorded for an answered request *)
(* and under a lease it still holds; ...                                     *)
RecordsHoldLease ==
    \A r \in Runners : \A j \in jobs[r] : j.verdict # "none" => j.answer # "none" /\ HoldsLease(r, j)

(* ... the rows a reconciliation closes are still open; ...                  *)
ClosesAreOpen == \A r \in Runners : \A k \in recon[r].close : Open(rows[k].state)

(* ... and no row is written by two open transactions. *)
LocksApart ==
    /\ \A r, q \in Runners : \A k \in recon[r].close : k \in recon[q].close => r = q
    /\ \A r, q \in Runners : \A j \in jobs[r] : j.verdict # "none" => j.key \notin recon[q].close
    /\ \A r, q \in Runners : \A i \in jobs[r], j \in jobs[q] :
          i.key = j.key /\ i.verdict # "none" /\ j.verdict # "none" => r = q /\ i = j

Locks == RecordsHoldLease /\ ClosesAreOpen /\ LocksApart

LockInv == TypeOK /\ IdleHasNoJobs /\ AbsentHasNoRows /\ Locks

(* A step keeps the locks when it takes none and leaves the rows under the  *)
(* remaining ones alone.                                                     *)
LEMMA NoNewLocks ==
    ASSUME LockInv,
           \A q \in Runners : \A i \in jobs'[q] :
              i.verdict # "none" =>
                 /\ i \in jobs[q] /\ epoch'[q] = epoch[q]
                 /\ rows'[i.key].state = rows[i.key].state /\ rows'[i.key].owner = rows[i.key].owner,
           \A q \in Runners : \A k \in recon'[q].close :
              k \in recon[q].close /\ Open(rows'[k].state)
    PROVE  Locks'
  <1> USE DEF LockInv, Locks
  <1>1. RecordsHoldLease'
    BY DEF RecordsHoldLease, HoldsLease, Owner
  <1>2. ClosesAreOpen'
    BY DEF ClosesAreOpen
  <1>3. LocksApart'
    <2>1. \A r, q \in Runners : \A k \in recon'[r].close : k \in recon'[q].close => r = q
      BY DEF LocksApart
    <2>2. \A r, q \in Runners : \A j \in jobs'[r] : j.verdict # "none" => j.key \notin recon'[q].close
      BY DEF LocksApart
    <2>3. \A r, q \in Runners : \A i \in jobs'[r], j \in jobs'[q] :
             i.key = j.key /\ i.verdict # "none" /\ j.verdict # "none" => r = q /\ i = j
      BY DEF LocksApart
    <2>4. QED
      BY <2>1, <2>2, <2>3 DEF LocksApart
  <1>4. QED
    BY <1>1, <1>2, <1>3

(* The rows a step changes although they are not locked by its transaction. *)
LEMMA LockedByClose == \A r \in Runners : \A k \in recon[r].close : Locked(k)
  BY DEF Locked

LEMMA LockedByRecord == \A r \in Runners : \A j \in jobs[r] : j.verdict # "none" => Locked(j.key)
  BY DEF Locked

(* What the rows under a lock are. *)
LEMMA UnderLock ==
    ASSUME LockInv
    PROVE  /\ \A r \in Runners : \A j \in jobs[r] :
                 j.verdict # "none" => /\ j.key \in Keys /\ rows[j.key].state = "leased"
                                       /\ summary[j.key[1]] # "absent"
           /\ \A r \in Runners : \A k \in recon[r].close :
                 k \in Keys /\ Open(rows[k].state) /\ summary[k[1]] # "absent"
  <1>1. \A r \in Runners : \A j \in jobs[r] :
           j.verdict # "none" => j.key \in Keys /\ rows[j.key].state = "leased"
    BY JobFields DEF LockInv, Locks, RecordsHoldLease, HoldsLease
  <1>2. \A r \in Runners : \A k \in recon[r].close : k \in Keys /\ Open(rows[k].state)
    BY ReconType DEF LockInv, Locks, ClosesAreOpen
  <1>3. QED
    BY <1>1, <1>2 DEF LockInv, AbsentHasNoRows, Open

LEMMA LockStep ==
    ASSUME LockInv, Next
    PROVE  Locks'
  <1>0. TypeOK
    BY DEF LockInv
  <1>1. ASSUME NEW r \in Runners, NEW a \in Alerts, CreateAlert(r, a) PROVE Locks'
    <2>1. /\ UNCHANGED <<epoch, jobs, recon>> /\ summary[a] = "absent"
          /\ \A k \in Keys : k[1] # a => rows'[k] = rows[k]
      BY <1>0, <1>1, CreatedRows
    <2>2. /\ \A q \in Runners : \A j \in jobs[q] : j.verdict # "none" => rows'[j.key] = rows[j.key]
          /\ \A q \in Runners : \A k \in recon[q].close : Open(rows'[k].state)
      BY <2>1, UnderLock
    <2>3. QED
      BY <2>1, <2>2, NoNewLocks
  <1>2. ASSUME NEW k \in Keys, BecomesDue(k) \/ LeaseExpires(k) PROVE Locks'
    <2>1. /\ UNCHANGED <<epoch, jobs, recon>>
          /\ \A l \in Keys : rows'[l].state = rows[l].state /\ rows'[l].owner = rows[l].owner
      BY <1>0, <1>2, ClockRows
    <2>2. QED
      BY <2>1, UnderLock, NoNewLocks
  <1>3. ASSUME NEW r \in Runners, NEW K \in SUBSET Claimable(r), ClaimAlertDeliveries(r, K)
        PROVE  Locks'
    <2>1. /\ UNCHANGED <<epoch, recon>>
          /\ \A k \in Keys : k \notin K => rows'[k] = rows[k]
          /\ \A k \in K : ~Locked(k)
      BY <1>0, <1>3, ClaimedRows DEF ClaimAlertDeliveries, Claimable
    <2>2. \A q \in Runners : \A i \in jobs'[q] : i.verdict # "none" => i \in jobs[q]
      BY <1>0, <1>3, ClaimedJobs
    <2>3. \A q \in Runners : \A i \in jobs'[q] : i.verdict # "none" => rows'[i.key] = rows[i.key]
      BY <2>1, <2>2, LockedByRecord, UnderLock
    <2>4. \A q \in Runners : \A k \in recon'[q].close : k \in recon[q].close /\ Open(rows'[k].state)
      BY <2>1, LockedByClose, UnderLock
    <2>5. QED
      BY <2>1, <2>2, <2>3, <2>4, NoNewLocks
  <1>4. ASSUME NEW r \in Runners, NEW j \in jobs[r], NEW answer \in Answers, Send(r, j, answer)
        PROVE  Locks'
    <2>1. UNCHANGED <<rows, epoch, recon>>
      BY <1>4 DEF Send
    <2>2. PICK i \in Job : i.verdict = j.verdict /\ j.answer = "none" /\ Becomes(r, j, i)
      BY <1>0, <1>4, SendJob
    <2>3. j.verdict = "none"
      BY <2>2 DEF LockInv, Locks, RecordsHoldLease
    <2>4. /\ jobs'[r] = (jobs[r] \ {j}) \cup {i}
          /\ \A q \in Runners : q # r => jobs'[q] = jobs[q]
      BY <1>0, <2>2, JobReplaced DEF TypeOK
    <2>5. \A q \in Runners : \A h \in jobs'[q] : h.verdict # "none" => h \in jobs[q]
      BY <2>2, <2>3, <2>4
    <2>6. QED
      BY <2>1, <2>5, UnderLock, NoNewLocks
  <1>5. ASSUME NEW r \in Runners, NEW j \in jobs[r], RecordOutcome(r, j) PROVE Locks'
    <2>1. /\ UNCHANGED <<rows, epoch, recon>> /\ ~Locked(j.key) /\ HoldsLease(r, j)
          /\ j.answer # "none"
      BY <1>5 DEF RecordOutcome
    <2>2. PICK i \in Job : i.key = j.key /\ i.answer = j.answer /\ Becomes(r, j, i)
      BY <1>0, <1>5, RecordJob
    <2>3. /\ jobs'[r] = (jobs[r] \ {j}) \cup {i}
          /\ \A q \in Runners : q # r => jobs'[q] = jobs[q]
      BY <1>0, <2>2, JobReplaced DEF TypeOK
    <2>4. \A q \in Runners : \A h \in jobs'[q] : h \in jobs[q] \/ (h = i /\ q = r)
      BY <2>3
    <2>5. RecordsHoldLease'
      BY <2>1, <2>2, <2>4 DEF LockInv, Locks, RecordsHoldLease, HoldsLease, Owner
    <2>6. ClosesAreOpen'
      BY <2>1 DEF LockInv, Locks, ClosesAreOpen
    <2>7. /\ \A q \in Runners : i.key \notin recon[q].close
          /\ \A q \in Runners : \A h \in jobs[q] : h.verdict # "none" => h.key # i.key
      BY <2>1, <2>2, LockedByClose, LockedByRecord
    <2>8. \A p, q \in Runners : \A k \in recon'[p].close : k \in recon'[q].close => p = q
      BY <2>1 DEF LockInv, Locks, LocksApart
    <2>9. \A p, q \in Runners : \A h \in jobs'[p] : h.verdict # "none" => h.key \notin recon'[q].close
      BY <2>1, <2>4, <2>7 DEF LockInv, Locks, LocksApart
    <2>10. \A p, q \in Runners : \A g \in jobs'[p], h \in jobs'[q] :
              g.key = h.key /\ g.verdict # "none" /\ h.verdict # "none" => p = q /\ g = h
      BY <2>4, <2>7 DEF LockInv, Locks, LocksApart
    <2>11. LocksApart'
      BY <2>8, <2>9, <2>10 DEF LocksApart
    <2>12. QED
      BY <2>5, <2>6, <2>11 DEF Locks
  <1>6. ASSUME NEW r \in Runners, NEW j \in jobs[r], CommitOutcome(r, j) PROVE Locks'
    <2>1. Without(r, j) /\ UNCHANGED <<epoch, recon>>
      BY <1>6 DEF CommitOutcome
    <2>2. /\ jobs'[r] = jobs[r] \ {j}
          /\ \A q \in Runners : q # r => jobs'[q] = jobs[q]
      BY <1>0, <2>1, JobRemoved DEF TypeOK
    <2>3. j.verdict # "none" /\ \A k \in Keys : k # j.key => rows'[k] = rows[k]
      BY <1>0, <1>6, CommittedRow
    <2>4. \A q \in Runners : \A i \in jobs'[q] :
             i.verdict # "none" => i \in jobs[q] /\ i.key # j.key
      BY <2>2, <2>3 DEF LockInv, Locks, LocksApart
    <2>5. \A q \in Runners : j.key \notin recon[q].close
      BY <2>3 DEF LockInv, Locks, LocksApart
    <2>6. /\ \A q \in Runners : \A i \in jobs'[q] : i.verdict # "none" => rows'[i.key] = rows[i.key]
          /\ \A q \in Runners : \A k \in recon[q].close : Open(rows'[k].state)
      BY <2>3, <2>4, <2>5, UnderLock
    <2>7. QED
      BY <2>1, <2>4, <2>6, NoNewLocks
  <1>7. ASSUME NEW r \in Runners, NEW j \in jobs[r], OutcomeRefused(r, j) \/ OutcomeLost(r, j)
        PROVE  Locks'
    <2>1. Without(r, j) /\ UNCHANGED <<rows, epoch, recon>>
      BY <1>7 DEF OutcomeRefused, OutcomeLost
    <2>2. /\ jobs'[r] = jobs[r] \ {j}
          /\ \A q \in Runners : q # r => jobs'[q] = jobs[q]
      BY <1>0, <2>1, JobRemoved DEF TypeOK
    <2>3. QED
      BY <2>1, <2>2, UnderLock, NoNewLocks
  <1>8. ASSUME NEW r \in Runners, LoopContinues(r) \/ ReconcileSelects(r) \/ ReconcileFails(r)
        PROVE  Locks'
    <2>1. UNCHANGED <<rows, epoch, jobs>>
      BY <1>8 DEF LoopContinues, ReconcileSelects, ReconcileFails
    <2>2. \A q \in Runners : recon'[q].close \subseteq recon[q].close
      <3>1. CASE LoopContinues(r)
        BY <3>1 DEF LoopContinues
      <3>2. CASE ReconcileSelects(r)
        <4>1. PICK B : recon' = [recon EXCEPT ![r].backfill = B]
          BY <3>2 DEF ReconcileSelects
        <4>2. PICK y \in ReconRecord : y = recon[r]
          BY <1>0, ReconType
        <4>3. [y EXCEPT !.backfill = B].close = y.close
          BY DEF ReconRecord
        <4>4. recon' = [recon EXCEPT ![r] = [y EXCEPT !.backfill = B]]
          BY <4>1, <4>2
        <4>5. QED
          BY <1>0, <4>2, <4>3, <4>4 DEF TypeOK
      <3>3. CASE ReconcileFails(r)
        <4>1. recon' = [recon EXCEPT ![r] = NoRecon] /\ NoRecon.close = {}
          BY <3>3 DEF ReconcileFails, NoRecon
        <4>2. QED
          BY <1>0, <4>1 DEF TypeOK
      <3>4. QED
        BY <1>8, <3>1, <3>2, <3>3
    <2>3. QED
      BY <2>1, <2>2, UnderLock, NoNewLocks
  <1>9. ASSUME NEW r \in Runners, ReconcileReads(r) PROVE Locks'
    <2>1. UNCHANGED <<rows, epoch, jobs>> /\ \A k \in Orphaned(r) : ~Locked(k)
      BY <1>9 DEF ReconcileReads
    <2>2. PICK x \in ReconRecord : x.close = Orphaned(r) /\ recon' = [recon EXCEPT ![r] = x]
      BY <1>0, <1>9, ReadRecon
    <2>3. recon'[r] = x /\ \A q \in Runners : q # r => recon'[q] = recon[q]
      BY <1>0, <2>2, ReconAfter
    <2>4. \A k \in x.close : /\ Open(rows[k].state)
                             /\ \A q \in Runners : k \notin recon[q].close
                             /\ \A q \in Runners : \A j \in jobs[q] : j.verdict # "none" => j.key # k
      BY <2>1, <2>2, LockedByClose, LockedByRecord DEF Orphaned, Open
    <2>5. RecordsHoldLease'
      BY <2>1 DEF LockInv, Locks, RecordsHoldLease, HoldsLease, Owner
    <2>6. ClosesAreOpen'
      BY <2>1, <2>3, <2>4 DEF LockInv, Locks, ClosesAreOpen
    <2>7. \A p, q \in Runners : \A k \in recon'[p].close : k \in recon'[q].close => p = q
      BY <2>3, <2>4 DEF LockInv, Locks, LocksApart
    <2>8. \A p, q \in Runners : \A h \in jobs'[p] : h.verdict # "none" => h.key \notin recon'[q].close
      BY <2>1, <2>3, <2>4 DEF LockInv, Locks, LocksApart
    <2>9. \A p, q \in Runners : \A g \in jobs'[p], h \in jobs'[q] :
              g.key = h.key /\ g.verdict # "none" /\ h.verdict # "none" => p = q /\ g = h
      BY <2>1 DEF LockInv, Locks, LocksApart
    <2>10. LocksApart'
      BY <2>7, <2>8, <2>9 DEF LocksApart
    <2>11. QED
      BY <2>5, <2>6, <2>10 DEF Locks
  <1>10. ASSUME NEW r \in Runners, ReconcileCommits(r) PROVE Locks'
    <2>1. UNCHANGED <<epoch, jobs>> /\ recon' = [recon EXCEPT ![r] = NoRecon] /\ NoRecon.close = {}
      BY <1>10 DEF ReconcileCommits, NoRecon
    <2>2. recon'[r].close = {} /\ \A q \in Runners : q # r => recon'[q] = recon[q]
      BY <1>0, <2>1 DEF TypeOK
    <2>3. \A k \in Keys : k \notin recon[r].close /\ Open(rows[k].state) => rows'[k] = rows[k]
      BY <1>0, <1>10, ReconciledRows DEF Inserted, Open
    <2>4. /\ \A q \in Runners : \A j \in jobs[q] : j.verdict # "none" => j.key \notin recon[r].close
          /\ \A q \in Runners : q # r => \A k \in recon[q].close : k \notin recon[r].close
      BY DEF LockInv, Locks, LocksApart
    <2>5. /\ \A q \in Runners : \A j \in jobs[q] : j.verdict # "none" => rows'[j.key] = rows[j.key]
          /\ \A q \in Runners : q # r => \A k \in recon[q].close : Open(rows'[k].state)
      BY <2>3, <2>4, UnderLock DEF Open
    <2>6. QED
      BY <2>1, <2>2, <2>5, NoNewLocks
  <1>11. ASSUME NEW r \in Runners, NEW channels \in Configs, Restart(r, channels) PROVE Locks'
    <2>1. /\ rows' = rows /\ jobs'[r] = {} /\ NoRecon.close = {} /\ recon'[r] = NoRecon
          /\ \A q \in Runners : q # r => /\ recon'[q] = recon[q] /\ jobs'[q] = jobs[q]
                                         /\ epoch'[q] = epoch[q]
      BY <1>0, <1>11 DEF Restart, TypeOK, NoRecon
    <2>2. QED
      BY <2>1, UnderLock, NoNewLocks
  <1>12. QED
    BY <1>1, <1>2, <1>3, <1>4, <1>5, <1>6, <1>7, <1>8, <1>9, <1>10, <1>11, Steps

(* Which rows a step may change, and from which states. *)
LEMMA ChangedRows ==
    ASSUME LockInv, Next, NEW k \in Keys, rows'[k] # rows[k]
    PROVE  rows[k].state \in {"none", "pending", "leased"}
  <1>0. TypeOK /\ rows[k] \in Row
    BY DEF LockInv, TypeOK
  <1>1. ASSUME NEW r \in Runners, NEW a \in Alerts, CreateAlert(r, a)
        PROVE  rows[k].state = "none"
    BY <1>0, <1>1, CreatedRows DEF LockInv, AbsentHasNoRows
  <1>2. ASSUME NEW l \in Keys, BecomesDue(l) \/ LeaseExpires(l) PROVE Open(rows[k].state)
    BY <1>0, <1>2, ClockRows
  <1>3. ASSUME NEW r \in Runners, NEW K \in SUBSET Claimable(r), ClaimAlertDeliveries(r, K)
        PROVE  Open(rows[k].state)
    BY <1>0, <1>3, ClaimedRows DEF Claimable, Open
  <1>4. ASSUME NEW r \in Runners, NEW j \in jobs[r],
               \/ \E answer \in Answers : Send(r, j, answer)
               \/ RecordOutcome(r, j) \/ CommitOutcome(r, j)
               \/ OutcomeRefused(r, j) \/ OutcomeLost(r, j)
        PROVE  rows[k].state = "leased"
    <2>1. CommitOutcome(r, j)
      BY <1>0, <1>4, JobStep
    <2>2. j.verdict # "none" /\ k = j.key
      BY <1>0, <2>1, CommittedRow
    <2>3. QED
      BY <2>2, UnderLock
  <1>5. ASSUME NEW r \in Runners,
               LoopContinues(r) \/ ReconcileSelects(r) \/ ReconcileReads(r) \/ ReconcileFails(r)
        PROVE  FALSE
    BY <1>5 DEF LoopContinues, ReconcileSelects, ReconcileReads, ReconcileFails
  <1>6. ASSUME NEW r \in Runners, ReconcileCommits(r)
        PROVE  rows[k].state \in {"none", "pending", "leased"}
    BY <1>0, <1>6, ReconciledRows, UnderLock DEF Inserted, Open
  <1>7. ASSUME NEW r \in Runners, NEW channels \in Configs, Restart(r, channels) PROVE FALSE
    BY <1>7 DEF Restart
  <1>8. QED
    BY <1>1, <1>2, <1>3, <1>4, <1>5, <1>6, <1>7, Steps DEF Open

LEMMA AbsentStep ==
    ASSUME LockInv, Next
    PROVE  AbsentHasNoRows'
  <1>0. TypeOK /\ TypeOK'
    BY TypeStep DEF LockInv
  <1> SUFFICES ASSUME NEW k \in Keys, summary'[k[1]] = "absent" PROVE rows'[k].state = "none"
    BY DEF AbsentHasNoRows
  <1>k. k[1] \in Alerts
    BY KeyParts
  <1>1. ASSUME NEW r \in Runners, NEW a \in Alerts, CreateAlert(r, a) PROVE rows'[k].state = "none"
    BY <1>0, <1>1, <1>k, CreatedRows DEF LockInv, AbsentHasNoRows
  <1>2. ASSUME NEW l \in Keys, BecomesDue(l) \/ LeaseExpires(l) PROVE rows'[k].state = "none"
    BY <1>0, <1>2, ClockRows DEF LockInv, AbsentHasNoRows
  <1>3. ASSUME NEW r \in Runners, NEW K \in SUBSET Claimable(r), ClaimAlertDeliveries(r, K)
        PROVE  rows'[k].state = "none"
    <2>1. summary' = summary
      BY <1>3 DEF ClaimAlertDeliveries
    <2>2. QED
      BY <1>0, <1>3, <2>1, ClaimedRows DEF LockInv, AbsentHasNoRows, Claimable
  <1>4. ASSUME NEW r \in Runners, NEW j \in jobs[r],
               \/ \E answer \in Answers : Send(r, j, answer)
               \/ RecordOutcome(r, j) \/ CommitOutcome(r, j)
               \/ OutcomeRefused(r, j) \/ OutcomeLost(r, j)
        PROVE  rows'[k].state = "none"
    <2>1. CASE CommitOutcome(r, j)
      <3>1. /\ summary' = [summary EXCEPT ![j.key[1]] = j.verdict] /\ j.key[1] \in Alerts
            /\ \A l \in Keys : l # j.key => rows'[l] = rows[l]
        BY <1>0, <2>1, CommittedRow
      <3>2. j.verdict # "absent"
        BY <1>0, JobFields
      <3>3. k[1] # j.key[1] /\ summary[k[1]] = "absent"
        BY <1>0, <1>k, <3>1, <3>2 DEF TypeOK
      <3>4. QED
        BY <3>1, <3>3 DEF LockInv, AbsentHasNoRows
    <2>2. QED
      BY <1>0, <1>4, <2>1, JobStep DEF LockInv, AbsentHasNoRows
  <1>5. ASSUME NEW r \in Runners,
               LoopContinues(r) \/ ReconcileSelects(r) \/ ReconcileReads(r) \/ ReconcileFails(r)
        PROVE  rows'[k].state = "none"
    BY <1>5 DEF LoopContinues, ReconcileSelects, ReconcileReads, ReconcileFails,
                LockInv, AbsentHasNoRows
  <1>6. ASSUME NEW r \in Runners, ReconcileCommits(r) PROVE rows'[k].state = "none"
    <2>1. /\ recon[r].verdicts[k[1]] = "none" /\ k[1] \notin recon[r].backfill
          /\ summary[k[1]] = "absent"
      <3>1. summary'[k[1]] = IF recon[r].verdicts[k[1]] # "none" THEN recon[r].verdicts[k[1]]
                             ELSE IF k[1] \in recon[r].backfill THEN "unconfigured"
                             ELSE summary[k[1]]
        BY <1>k, <1>6 DEF ReconcileCommits
      <3>2. recon[r].verdicts[k[1]] # "absent"
        BY <1>0, <1>k, ReconType
      <3>3. QED
        BY <3>1, <3>2
    <2>2. k \notin recon[r].close
      BY <2>1, UnderLock
    <2>3. rows'[k] = rows[k]
      BY <1>0, <1>6, <2>1, <2>2, ReconciledRows DEF Inserted
    <2>4. QED
      BY <2>1, <2>3 DEF LockInv, AbsentHasNoRows
  <1>7. ASSUME NEW r \in Runners, NEW channels \in Configs, Restart(r, channels)
        PROVE  rows'[k].state = "none"
    BY <1>7 DEF Restart, LockInv, AbsentHasNoRows
  <1>8. QED
    BY <1>1, <1>2, <1>3, <1>4, <1>5, <1>6, <1>7, Steps

(* RecordDeliveryOutcome and ReconcileAlertDeliveries hold what they locked *)
(* until they commit: a recorded delivery is still under the lease it was   *)
(* recorded under, a delivery being closed is open, and no row is written   *)
(* by two of these transactions at a time.                                   *)
THEOREM LocksHold == Spec => []LockInv
  <1>1. Init => AbsentHasNoRows /\ Locks
    BY DEF Init, AbsentHasNoRows, Locks, RecordsHoldLease, ClosesAreOpen, LocksApart, NoRow, NoRecon
  <1>2. AbsentHasNoRows /\ Locks /\ FenceInv /\ [Next]_vars => (AbsentHasNoRows /\ Locks)'
    <2> SUFFICES ASSUME AbsentHasNoRows, Locks, FenceInv, [Next]_vars
                 PROVE  AbsentHasNoRows' /\ Locks'
      OBVIOUS
    <2>1. CASE UNCHANGED vars
      BY <2>1 DEF vars, AbsentHasNoRows, Locks, RecordsHoldLease, ClosesAreOpen, LocksApart,
                  HoldsLease, Owner
    <2>2. LockInv
      BY DEF LockInv, FenceInv
    <2>3. QED
      BY <2>1, <2>2, LockStep, AbsentStep
  <1>3. AbsentHasNoRows /\ Locks /\ FenceInv => LockInv
    BY DEF LockInv, FenceInv
  <1>4. QED
    BY <1>1, <1>2, <1>3, FenceHolds, PTL DEF Spec

(* A delivery that is over stays as it is: neither a late outcome, nor a    *)
(* claim, nor a reconciliation reopens or rewrites it.                       *)
THEOREM FinishedDeliveriesStay == Spec => OverIsOver
  <1>1. LockInv /\ [Next]_vars =>
           [\A k \in Keys : rows[k].state \in {"delivered", "failed"} => rows'[k] = rows[k]]_vars
    BY ChangedRows
  <1>2. QED
    BY <1>1, LocksHold, PTL DEF Spec, OverIsOver

-------------------------------------------------------------------------------
(* The bound on retries. *)

(* The argument pays for every claim beyond maxAttempts with a fault.  A    *)
(* pending delivery has had fewer than maxAttempts attempts, because an     *)
(* outcome that leaves it pending is that of its latest claim.  A leased    *)
(* one can be claimed again only when its lease runs out; if its holder is  *)
(* no longer at work, a fault has already taken the outcome.                 *)
RetryInv ==
    \A k \in Keys :
        /\ rows[k].state = "none" => rows[k].attempts = 0
        /\ rows[k].state = "pending" => rows[k].attempts < MaxAttempts
        /\ rows[k].state = "leased" /\ (rows[k].expired \/ ~Working(k)) =>
              rows[k].attempts < MaxAttempts + faults
        /\ rows[k].attempts <= MaxAttempts + faults

LEMMA RowFields ==
    ASSUME TypeOK, NEW k \in Keys
    PROVE  /\ rows[k].attempts \in Nat /\ rows[k].expired \in BOOLEAN /\ faults \in Nat
           /\ MaxAttempts \in Nat /\ MaxAttempts > 0
  BY AttemptsAssumption, FaultsAssumption DEF TypeOK, Row

(* A row that stays as it is stays within the bound as long as nobody       *)
(* stops working on it.                                                      *)
LEMMA SameRowRetries ==
    ASSUME TypeOK, TypeOK', RetryInv, NEW k \in Keys, rows'[k] = rows[k],
           \/ faults' = faults /\ (Working(k) => Working(k)')
           \/ faults' = faults + 1
    PROVE  /\ rows'[k].state = "none" => rows'[k].attempts = 0
           /\ rows'[k].state = "pending" => rows'[k].attempts < MaxAttempts
           /\ rows'[k].state = "leased" /\ (rows'[k].expired \/ ~Working(k)') =>
                 rows'[k].attempts < MaxAttempts + faults'
           /\ rows'[k].attempts <= MaxAttempts + faults'
  BY RowFields DEF RetryInv

LEMMA NewRowRetries ==
    ASSUME TypeOK', NEW k \in Keys, rows'[k] = NewDelivery
    PROVE  /\ rows'[k].state = "pending" /\ rows'[k].attempts = 0
           /\ rows'[k].attempts < MaxAttempts
           /\ rows'[k].attempts <= MaxAttempts + faults'
  <1>1. faults' \in Nat
    BY FaultsAssumption DEF TypeOK
  <1>2. rows'[k].state = "pending" /\ rows'[k].attempts = 0
    BY DEF NewDelivery
  <1>3. MaxAttempts \in Nat /\ 0 < MaxAttempts
    BY AttemptsAssumption
  <1>4. \A f \in Nat : 0 < MaxAttempts /\ 0 <= MaxAttempts + f
    BY <1>3
  <1>5. QED
    BY <1>1, <1>2, <1>4

(* Who still works after a step that removes or replaces one job. *)
LEMMA WorkersRemain ==
    ASSUME TypeOK, NEW r \in Runners, NEW j \in jobs[r], NEW k \in Keys, k # j.key \/ ~HoldsLease(r, j),
           rows'[k].state = "leased", rows'[k] = rows[k], epoch' = epoch,
           \A q \in Runners : q # r => jobs'[q] = jobs[q],
           jobs[r] \ {j} \subseteq jobs'[r],
           Working(k)
    PROVE  Working(k)'
  <1>1. PICK q \in Runners : Owner(q) \in rows[k].owner /\ \E i \in jobs[q] : i.key = k
    BY DEF Working
  <1>2. \E i \in jobs'[q] : i.key = k
    BY <1>1 DEF HoldsLease
  <1>3. QED
    BY <1>1, <1>2 DEF Working, Owner

LEMMA RetryStep ==
    ASSUME FenceInv, LockInv, RetryInv, Next
    PROVE  RetryInv'
  <1>0. TypeOK /\ TypeOK'
    BY TypeStep DEF LockInv
  <1> DEFINE Within(k) ==
        /\ rows'[k].state = "none" => rows'[k].attempts = 0
        /\ rows'[k].state = "pending" => rows'[k].attempts < MaxAttempts
        /\ rows'[k].state = "leased" /\ (rows'[k].expired \/ ~Working(k)') =>
              rows'[k].attempts < MaxAttempts + faults'
        /\ rows'[k].attempts <= MaxAttempts + faults'
  <1> SUFFICES ASSUME NEW k \in Keys PROVE Within(k)
    BY DEF RetryInv
  <1>k. /\ rows[k].attempts \in Nat /\ faults \in Nat /\ MaxAttempts \in Nat /\ MaxAttempts > 0
        /\ rows'[k].attempts \in Nat /\ faults' \in Nat
        /\ rows[k].state = "none" => rows[k].attempts = 0
        /\ rows[k].state = "pending" => rows[k].attempts < MaxAttempts
        /\ rows[k].state = "leased" /\ (rows[k].expired \/ ~Working(k)) =>
              rows[k].attempts < MaxAttempts + faults
        /\ rows[k].attempts <= MaxAttempts + faults
    <2>1. rows'[k].attempts \in Nat /\ faults' \in Nat
      BY <1>0, FaultsAssumption DEF TypeOK, Row
    <2>2. QED
      BY <1>0, <2>1, RowFields DEF RetryInv
  <1>1. ASSUME NEW r \in Runners, NEW a \in Alerts, CreateAlert(r, a) PROVE Within(k)
    <2>1. /\ rows'[k] = NewDelivery \/ rows'[k] = rows[k]
          /\ UNCHANGED <<epoch, jobs, faults>>
      BY <1>0, <1>1, CreatedRows
    <2>2. CASE rows'[k] = NewDelivery
      BY <1>0, <2>2, NewRowRetries
    <2>3. CASE rows'[k] = rows[k]
      <3>1. Working(k) => Working(k)'
        BY <2>1, <2>3 DEF Working, Owner
      <3>2. QED
        BY <1>0, <2>1, <2>3, <3>1, SameRowRetries
    <2>4. QED
      BY <2>1, <2>2, <2>3
  <1>2. ASSUME NEW l \in Keys, BecomesDue(l) \/ LeaseExpires(l) PROVE Within(k)
    <2>1. /\ rows'[k].state = rows[k].state /\ rows'[k].attempts = rows[k].attempts
          /\ rows'[k].owner = rows[k].owner
          /\ UNCHANGED <<epoch, jobs>>
          /\ l # k => rows'[k] = rows[k]
          /\ faults' = faults \/ faults' = faults + 1
      BY <1>0, <1>2, ClockRows, FaultType
    <2>2. Working(k)' <=> Working(k)
      BY <2>1 DEF Working, Owner
    <2>3. CASE rows'[k] = rows[k]
      BY <1>0, <2>1, <2>2, <2>3, SameRowRetries
    <2>4. CASE rows'[k] # rows[k] /\ BecomesDue(k)
      <3>1. rows[k].state = "pending" /\ faults' = faults
        BY <2>4 DEF BecomesDue, TypeOK
      <3>2. QED
        BY <1>k, <2>1, <3>1
    <2>5. CASE rows'[k] # rows[k] /\ LeaseExpires(k)
      <3>1. IF Working(k) THEN Fault ELSE faults' = faults
        BY <2>5 DEF LeaseExpires
      <3>2. Working(k) => faults' = faults + 1
        BY <3>1 DEF Fault
      <3>3. rows[k].state = "leased"
        BY <2>5 DEF LeaseExpires
      <3>4. rows'[k].attempts < MaxAttempts + faults'
        <4>1. CASE Working(k)
          BY <1>k, <2>1, <3>2, <4>1
        <4>2. CASE ~Working(k)
          BY <1>k, <2>1, <3>1, <3>3, <4>2
        <4>3. QED
          BY <4>1, <4>2
      <3>5. QED
        BY <1>k, <2>1, <3>3, <3>4
    <2>6. QED
      BY <1>2, <2>1, <2>3, <2>4, <2>5
  <1>3. ASSUME NEW r \in Runners, NEW K \in SUBSET Claimable(r), ClaimAlertDeliveries(r, K)
        PROVE  Within(k)
    <2>1. pc[r] = "process" /\ epoch' = epoch
      BY <1>3 DEF ClaimAlertDeliveries
    <2>2. jobs[r] = {}
      BY <2>1 DEF FenceInv, IdleHasNoJobs
    <2>3. \/ /\ faults' = faults
             /\ \A l \in K : \E j \in jobs'[r] : j.key = l
          \/ faults' = faults + 1
      BY <1>0, <1>3, ClaimedJobs, FaultType
    <2>4. \A q \in Runners : q # r => jobs'[q] = jobs[q]
      BY <1>0, <1>3, ClaimedJobs
    <2>5. CASE k \in K
      <3>1. /\ rows'[k].state = "leased" /\ rows'[k].attempts = rows[k].attempts + 1
            /\ rows'[k].owner = {Owner(r)} /\ ~rows'[k].expired
        BY <1>0, <1>3, <2>5, ClaimedRows
      <3>2. rows[k].attempts < MaxAttempts + faults
        BY <1>k, <2>5 DEF Claimable
      <3>3. faults' = faults => Working(k)'
        BY <1>k, <2>1, <2>3, <2>5, <3>1 DEF Working, Owner
      <3>4. QED
        BY <1>k, <2>3, <3>1, <3>2, <3>3
    <2>6. CASE k \notin K
      <3>1. rows'[k] = rows[k]
        BY <1>0, <1>3, <2>6, ClaimedRows
      <3>2. Working(k) => Working(k)'
        BY <2>1, <2>2, <2>4, <3>1 DEF Working, Owner
      <3>3. QED
        BY <1>0, <2>3, <3>1, <3>2, SameRowRetries
    <2>7. QED
      BY <2>5, <2>6
  <1>4. ASSUME NEW r \in Runners, NEW j \in jobs[r], NEW i \in Job, Becomes(r, j, i), i.key = j.key,
               UNCHANGED <<rows, epoch, faults>>
        PROVE  Within(k)
    <2>1. /\ jobs'[r] = (jobs[r] \ {j}) \cup {i}
          /\ \A q \in Runners : q # r => jobs'[q] = jobs[q]
      BY <1>0, <1>4, JobReplaced DEF TypeOK
    <2>2. Working(k) => Working(k)'
      BY <1>4, <2>1 DEF Working, Owner
    <2>3. QED
      BY <1>0, <1>4, <2>2, SameRowRetries
  <1>5. ASSUME NEW r \in Runners, NEW j \in jobs[r], CommitOutcome(r, j) PROVE Within(k)
    <2>1. Without(r, j) /\ UNCHANGED <<epoch, faults>> /\ j.verdict # "none"
      BY <1>5 DEF CommitOutcome
    <2>2. /\ jobs'[r] = jobs[r] \ {j}
          /\ \A q \in Runners : q # r => jobs'[q] = jobs[q]
      BY <1>0, <2>1, JobRemoved DEF TypeOK
    <2>3. /\ rows'[j.key] = [state |-> Outcome(j), attempts |-> rows[j.key].attempts, owner |-> {},
                              due |-> FALSE, expired |-> FALSE]
          /\ \A l \in Keys : l # j.key => rows'[l] = rows[l]
          /\ Outcome(j) \in {"delivered", "failed", "pending"}
      BY <1>0, <1>5, CommittedRow
    <2>4. CASE k = j.key
      <3>1. rows'[k].state = Outcome(j) /\ rows'[k].attempts = rows[k].attempts
        BY <2>3, <2>4
      <3>2. j.attempt = rows[k].attempts /\ j.attempt \in Nat
        BY <1>0, <2>1, <2>4, JobFields
           DEF LockInv, Locks, RecordsHoldLease, FenceInv, OutcomeIsOfLatestClaim
      <3>3. Outcome(j) = "pending" => j.attempt < MaxAttempts
        BY <1>k, <3>2 DEF Outcome
      <3>4. QED
        BY <1>k, <2>1, <2>3, <3>1, <3>2, <3>3
    <2>5. CASE k # j.key
      <3>1. rows'[k] = rows[k]
        BY <2>3, <2>5
      <3>2. rows'[k].state = "leased" /\ Working(k) => Working(k)'
        BY <1>0, <2>1, <2>2, <2>5, <3>1, WorkersRemain
      <3>3. QED
        BY <1>k, <2>1, <3>1, <3>2
    <2>6. QED
      BY <2>4, <2>5
  <1>6. ASSUME NEW r \in Runners, NEW j \in jobs[r], OutcomeRefused(r, j) PROVE Within(k)
    <2>1. Without(r, j) /\ UNCHANGED <<rows, epoch, faults>> /\ ~HoldsLease(r, j)
      BY <1>6 DEF OutcomeRefused
    <2>2. /\ jobs'[r] = jobs[r] \ {j}
          /\ \A q \in Runners : q # r => jobs'[q] = jobs[q]
      BY <1>0, <2>1, JobRemoved DEF TypeOK
    <2>3. rows'[k].state = "leased" /\ Working(k) => Working(k)'
      BY <1>0, <2>1, <2>2, WorkersRemain
    <2>4. QED
      BY <1>k, <2>1, <2>3
  <1>7. ASSUME NEW r \in Runners,
               \/ \E j \in jobs[r] : OutcomeLost(r, j)
               \/ ReconcileFails(r)
               \/ \E channels \in Configs : Restart(r, channels)
        PROVE  Within(k)
    <2>1. rows' = rows /\ faults' = faults + 1
      BY <1>7 DEF OutcomeLost, ReconcileFails, Restart, Fault
    <2>2. QED
      BY <1>0, <2>1, SameRowRetries
  <1>8. ASSUME NEW r \in Runners, LoopContinues(r) \/ ReconcileSelects(r) \/ ReconcileReads(r)
        PROVE  Within(k)
    <2>1. UNCHANGED <<rows, epoch, jobs, faults>>
      BY <1>8 DEF LoopContinues, ReconcileSelects, ReconcileReads
    <2>2. Working(k) => Working(k)'
      BY <2>1 DEF Working, Owner
    <2>3. QED
      BY <1>0, <2>1, <2>2, SameRowRetries
  <1>9. ASSUME NEW r \in Runners, ReconcileCommits(r) PROVE Within(k)
    <2>1. UNCHANGED <<epoch, jobs, faults>>
      BY <1>9 DEF ReconcileCommits
    <2>2. CASE k \in recon[r].close
      <3>1. rows'[k].state = "failed" /\ rows'[k].attempts = rows[k].attempts
        BY <1>0, <1>9, <2>2, ReconciledRows
      <3>2. QED
        BY <1>k, <2>1, <3>1
    <2>3. CASE k \notin recon[r].close
      <3>1. rows'[k] = NewDelivery \/ rows'[k] = rows[k]
        BY <1>0, <1>9, <2>3, ReconciledRows
      <3>2. CASE rows'[k] = NewDelivery
        BY <1>0, <3>2, NewRowRetries
      <3>3. CASE rows'[k] = rows[k]
        <4>1. Working(k) => Working(k)'
          BY <2>1, <3>3 DEF Working, Owner
        <4>2. QED
          BY <1>0, <2>1, <3>3, <4>1, SameRowRetries
      <3>4. QED
        BY <3>1, <3>2, <3>3
    <2>4. QED
      BY <2>2, <2>3
  <1>10. ASSUME NEW r \in Runners, NEW j \in jobs[r], NEW answer \in Answers, Send(r, j, answer)
         PROVE  Within(k)
    <2>1. PICK i \in Job : i.key = j.key /\ Becomes(r, j, i)
      BY <1>0, <1>10, SendJob
    <2>2. UNCHANGED <<rows, epoch, faults>>
      BY <1>10 DEF Send
    <2>3. QED
      BY <1>4, <2>1, <2>2
  <1>11. ASSUME NEW r \in Runners, NEW j \in jobs[r], RecordOutcome(r, j) PROVE Within(k)
    <2>1. PICK i \in Job : i.key = j.key /\ Becomes(r, j, i)
      BY <1>0, <1>11, RecordJob
    <2>2. UNCHANGED <<rows, epoch, faults>>
      BY <1>11 DEF RecordOutcome
    <2>3. QED
      BY <1>4, <2>1, <2>2
  <1> HIDE DEF Within
  <1>12. QED
    BY <1>1, <1>2, <1>3, <1>5, <1>6, <1>7, <1>8, <1>9, <1>10, <1>11, Steps

(* A delivery is tried more often than maxAttempts only as often as a fault *)
(* kept an outcome from being recorded.                                      *)
THEOREM RetriesArePaidFor == Spec => []RetriesBoundedByFaults
  <1>1. Init => RetryInv
    BY FaultsAssumption, AttemptsAssumption DEF Init, RetryInv, NoRow
  <1>2. FenceInv /\ LockInv /\ RetryInv /\ [Next]_vars => RetryInv'
    <2> SUFFICES ASSUME FenceInv, LockInv, RetryInv, [Next]_vars PROVE RetryInv'
      OBVIOUS
    <2>1. CASE UNCHANGED vars
      BY <2>1 DEF vars, RetryInv, Working, Owner
    <2>2. QED
      BY <2>1, RetryStep
  <1>3. RetryInv => RetriesBoundedByFaults
    BY DEF RetryInv, RetriesBoundedByFaults
  <1>4. QED
    BY <1>1, <1>2, <1>3, FenceHolds, LocksHold, PTL DEF Spec

-------------------------------------------------------------------------------
(* The summary. *)

(* The processes of one deployment read the same settings: a channel is     *)
(* configured everywhere or, before and after a change of the settings,      *)
(* nowhere.  C is the set of configured channels.                            *)
Uniform(C) == C \subseteq Channels /\ Configs \subseteq {{}, C}

(* An alert has delivery rows for all configured channels or for none: both *)
(* createAlert and the backfill insert them together.                        *)
RowsTogether(C) ==
    \A a \in Alerts :
        \/ \A c \in Channels : rows[<<a, c>>].state = "none"
        \/ \A c \in Channels : rows[<<a, c>>].state # "none" <=> c \in C

Final(verdict) == verdict \in {"failed", "delivered"}

(* The states of the rows once those of D are o. *)
After(D, o) == [k \in Keys |-> IF k \in D THEN o ELSE rows[k].state]

(* A final verdict, once shown or about to be committed, is the verdict over *)
(* the rows as they are now with the transaction's own updates applied.      *)
SummaryIsFinal ==
    \A a \in Alerts :
        Final(summary[a]) => HasRows(a, RowStates) /\ summary[a] = Verdict(a, After({}, "none"))

RecordsAreFinal ==
    \A r \in Runners : \A j \in jobs[r] :
        Final(j.verdict) => j.verdict = Verdict(j.key[1], After({j.key}, Outcome(j)))

ReconsAreFinal ==
    \A r \in Runners : \A a \in Alerts :
        Final(recon[r].verdicts[a]) =>
            /\ HasRows(a, RowStates)
            /\ recon[r].verdicts[a] = Verdict(a, After(recon[r].close, "failed"))

SummaryInv == SummaryIsFinal /\ RecordsAreFinal /\ ReconsAreFinal

LEMMA ChannelKeys == \A a \in Alerts, c \in Channels : <<a, c>> \in Keys /\ <<a, c>>[1] = a /\ <<a, c>>[2] = c
  BY DEF Keys

(* A verdict depends on the rows of its alert only. *)
LEMMA SameVerdict ==
    ASSUME NEW a, NEW s, NEW t, \A c \in Channels : s[<<a, c>>] = t[<<a, c>>]
    PROVE  Verdict(a, s) = Verdict(a, t) /\ (HasRows(a, s) <=> HasRows(a, t))
  BY DEF Verdict, HasRows

LEMMA FinalVerdict ==
    ASSUME NEW a, NEW s, Final(Verdict(a, s))
    PROVE  \A c \in Channels : ~Open(s[<<a, c>>])
  BY DEF Verdict, Final

LEMMA RowsOf ==
    ASSUME NEW a \in Alerts
    PROVE  HasRows(a, RowStates) <=> \E c \in Channels : rows[<<a, c>>].state # "none"
  BY ChannelKeys DEF HasRows, RowStates

(* No row disappears. *)
LEMMA RowsRemain ==
    ASSUME LockInv, Next, NEW k \in Keys, rows[k].state # "none"
    PROVE  rows'[k].state # "none"
  <1>0. TypeOK
    BY DEF LockInv
  <1>1. ASSUME NEW r \in Runners, NEW a \in Alerts, CreateAlert(r, a) PROVE rows'[k].state # "none"
    BY <1>0, <1>1, CreatedRows DEF NewDelivery
  <1>2. ASSUME NEW l \in Keys, BecomesDue(l) \/ LeaseExpires(l) PROVE rows'[k].state # "none"
    BY <1>0, <1>2, ClockRows
  <1>3. ASSUME NEW r \in Runners, NEW K \in SUBSET Claimable(r), ClaimAlertDeliveries(r, K)
        PROVE  rows'[k].state # "none"
    BY <1>0, <1>3, ClaimedRows
  <1>4. ASSUME NEW r \in Runners, NEW j \in jobs[r],
               \/ \E answer \in Answers : Send(r, j, answer)
               \/ RecordOutcome(r, j) \/ CommitOutcome(r, j)
               \/ OutcomeRefused(r, j) \/ OutcomeLost(r, j)
        PROVE  rows'[k].state # "none"
    <2>1. CASE CommitOutcome(r, j)
      <3>1. /\ rows'[j.key] = [state |-> Outcome(j), attempts |-> rows[j.key].attempts,
                               owner |-> {}, due |-> FALSE, expired |-> FALSE]
            /\ \A l \in Keys : l # j.key => rows'[l] = rows[l]
            /\ Outcome(j) \in {"delivered", "failed", "pending"}
        BY <1>0, <2>1, CommittedRow
      <3>2. rows'[j.key].state = Outcome(j)
        BY <3>1
      <3>3. QED
        BY <3>1, <3>2
    <2>2. QED
      BY <1>0, <1>4, <2>1, JobStep
  <1>5. ASSUME NEW r \in Runners,
               LoopContinues(r) \/ ReconcileSelects(r) \/ ReconcileReads(r) \/ ReconcileFails(r)
        PROVE  rows'[k].state # "none"
    BY <1>5 DEF LoopContinues, ReconcileSelects, ReconcileReads, ReconcileFails
  <1>6. ASSUME NEW r \in Runners, ReconcileCommits(r) PROVE rows'[k].state # "none"
    BY <1>0, <1>6, ReconciledRows DEF NewDelivery
  <1>7. ASSUME NEW r \in Runners, NEW channels \in Configs, Restart(r, channels)
        PROVE  rows'[k].state # "none"
    BY <1>7 DEF Restart
  <1>8. QED
    BY <1>1, <1>2, <1>3, <1>4, <1>5, <1>6, <1>7, Steps

(* Rows appear in one of two ways. *)
LEMMA RowsAppear ==
    ASSUME LockInv, Next, NEW a \in Alerts, NEW d \in Channels,
           rows[<<a, d>>].state = "none", rows'[<<a, d>>].state # "none"
    PROVE  \E r \in Runners :
              /\ d \in conf[r]
              /\ \A c \in Channels : c \in conf[r] => rows'[<<a, c>>].state # "none"
              /\ \A c \in Channels :
                    c \notin conf[r] /\ rows[<<a, c>>].state = "none" => rows'[<<a, c>>].state = "none"
              /\ \/ summary[a] = "absent"
                 \/ <<a, d>> \in Inserted(r, recon[r].backfill)
  <1> DEFINE k == <<a, d>>
             By(r) == /\ d \in conf[r]
                      /\ \A c \in Channels : c \in conf[r] => rows'[<<a, c>>].state # "none"
                      /\ \A c \in Channels :
                            c \notin conf[r] /\ rows[<<a, c>>].state = "none" => rows'[<<a, c>>].state = "none"
                      /\ \/ summary[a] = "absent"
                         \/ <<a, d>> \in Inserted(r, recon[r].backfill)
  <1>0. TypeOK /\ k \in Keys
    BY ChannelKeys DEF LockInv
  <1>1. ASSUME NEW r \in Runners, NEW b \in Alerts, CreateAlert(r, b) PROVE By(r)
    <2>1. /\ \A l \in Keys : rows'[l] = IF l[1] = b /\ l[2] \in conf[r] THEN NewDelivery ELSE rows[l]
          /\ summary[b] = "absent"
      BY <1>0, <1>1, CreatedRows
    <2>2. a = b /\ d \in conf[r]
      BY <1>0, <2>1, ChannelKeys
    <2>3. \A c \in Channels : rows'[<<a, c>>] = IF c \in conf[r] THEN NewDelivery ELSE rows[<<a, c>>]
      BY <2>1, <2>2, ChannelKeys
    <2>4. QED
      BY <2>1, <2>2, <2>3 DEF NewDelivery
  <1>2. ASSUME NEW l \in Keys, BecomesDue(l) \/ LeaseExpires(l) PROVE FALSE
    BY <1>0, <1>2, ClockRows
  <1>3. ASSUME NEW r \in Runners, NEW K \in SUBSET Claimable(r), ClaimAlertDeliveries(r, K)
        PROVE  FALSE
    BY <1>0, <1>3, ClaimedRows DEF Claimable
  <1>4. ASSUME NEW r \in Runners, NEW j \in jobs[r],
               \/ \E answer \in Answers : Send(r, j, answer)
               \/ RecordOutcome(r, j) \/ CommitOutcome(r, j)
               \/ OutcomeRefused(r, j) \/ OutcomeLost(r, j)
        PROVE  FALSE
    <2>1. CommitOutcome(r, j)
      BY <1>0, <1>4, JobStep
    <2>2. j.verdict # "none" /\ \A l \in Keys : l # j.key => rows'[l] = rows[l]
      BY <1>0, <2>1, CommittedRow
    <2>3. QED
      BY <1>0, <2>2, UnderLock
  <1>5. ASSUME NEW r \in Runners,
               LoopContinues(r) \/ ReconcileSelects(r) \/ ReconcileReads(r) \/ ReconcileFails(r)
        PROVE  FALSE
    BY <1>5 DEF LoopContinues, ReconcileSelects, ReconcileReads, ReconcileFails
  <1>6. ASSUME NEW r \in Runners, ReconcileCommits(r) PROVE By(r)
    <2>1. k \notin recon[r].close
      BY UnderLock DEF Open
    <2>2. k \in Inserted(r, recon[r].backfill)
      BY <1>0, <1>6, <2>1, ReconciledRows
    <2>3. d \in conf[r] /\ a \in recon[r].backfill
      BY <2>2, ChannelKeys DEF Inserted
    <2>4. \A c \in Channels : c \in conf[r] => rows'[<<a, c>>].state # "none"
      <3> SUFFICES ASSUME NEW c \in Channels, c \in conf[r] PROVE rows'[<<a, c>>].state # "none"
        OBVIOUS
      <3>1. CASE rows[<<a, c>>].state # "none"
        BY <3>1, ChannelKeys, RowsRemain
      <3>2. CASE rows[<<a, c>>].state = "none"
        <4>1. <<a, c>> \notin recon[r].close
          BY <3>2, UnderLock DEF Open
        <4>2. <<a, c>> \in Inserted(r, recon[r].backfill)
          BY <2>3, <3>2, ChannelKeys DEF Inserted
        <4>3. rows'[<<a, c>>] = NewDelivery
          BY <1>0, <1>6, <4>1, <4>2, ChannelKeys, ReconciledRows
        <4>4. QED
          BY <4>3 DEF NewDelivery
      <3>3. QED
        BY <3>1, <3>2
    <2>5. \A c \in Channels :
             c \notin conf[r] /\ rows[<<a, c>>].state = "none" => rows'[<<a, c>>].state = "none"
      <3> SUFFICES ASSUME NEW c \in Channels, c \notin conf[r], rows[<<a, c>>].state = "none"
                   PROVE  rows'[<<a, c>>].state = "none"
        OBVIOUS
      <3>1. <<a, c>> \notin recon[r].close
        BY UnderLock DEF Open
      <3>2. <<a, c>> \notin Inserted(r, recon[r].backfill)
        BY ChannelKeys DEF Inserted
      <3>3. rows'[<<a, c>>] = rows[<<a, c>>]
        BY <1>0, <1>6, <3>1, <3>2, ChannelKeys, ReconciledRows
      <3>4. QED
        BY <3>3
    <2>6. QED
      BY <2>2, <2>3, <2>4, <2>5
  <1>7. ASSUME NEW r \in Runners, NEW channels \in Configs, Restart(r, channels) PROVE FALSE
    BY <1>7 DEF Restart
  <1> HIDE DEF By
  <1>8. \E r \in Runners : By(r)
    BY <1>1, <1>2, <1>3, <1>4, <1>5, <1>6, <1>7, Steps
  <1>9. QED
    BY <1>8 DEF By

LEMMA TogetherStep ==
    ASSUME NEW C, Uniform(C), LockInv, RowsTogether(C), Next
    PROVE  RowsTogether(C)'
  <1> SUFFICES ASSUME NEW a \in Alerts
               PROVE  \/ \A c \in Channels : rows'[<<a, c>>].state = "none"
                      \/ \A c \in Channels : rows'[<<a, c>>].state # "none" <=> c \in C
    BY DEF RowsTogether
  <1>1. \A c \in Channels : rows[<<a, c>>].state # "none" => rows'[<<a, c>>].state # "none"
    BY ChannelKeys, RowsRemain
  <1>2. CASE \A c \in Channels : rows'[<<a, c>>].state # "none" => rows[<<a, c>>].state # "none"
    BY <1>1, <1>2 DEF RowsTogether
  <1>3. ASSUME NEW d \in Channels, rows[<<a, d>>].state = "none", rows'[<<a, d>>].state # "none"
        PROVE  \A c \in Channels : rows'[<<a, c>>].state # "none" <=> c \in C
    <2>1. PICK r \in Runners :
             /\ d \in conf[r]
             /\ \A c \in Channels : c \in conf[r] => rows'[<<a, c>>].state # "none"
             /\ \A c \in Channels :
                   c \notin conf[r] /\ rows[<<a, c>>].state = "none" => rows'[<<a, c>>].state = "none"
      BY <1>3, RowsAppear
    <2>2. conf[r] = C
      BY <2>1 DEF Uniform, LockInv, TypeOK
    <2>3. QED
      BY <2>1, <2>2 DEF RowsTogether
  <1>4. QED
    BY <1>2, <1>3

(* Once an alert has delivery rows, those that are not open stay. *)
LEMMA NotOpenStays ==
    ASSUME NEW C, Uniform(C), LockInv, RowsTogether(C), Next, NEW a \in Alerts, HasRows(a, RowStates),
           NEW c \in Channels, ~Open(rows[<<a, c>>].state)
    PROVE  rows'[<<a, c>>].state = rows[<<a, c>>].state
  <1>1. rows[<<a, c>>] \in Row /\ <<a, c>> \in Keys
    BY ChannelKeys DEF LockInv, TypeOK
  <1>2. rows[<<a, c>>].state \in {"none", "delivered", "failed"}
    BY <1>1 DEF Open, Row
  <1>3. CASE rows[<<a, c>>].state # "none"
    BY <1>1, <1>2, <1>3, ChangedRows
  <1>4. CASE rows[<<a, c>>].state = "none"
    <2>1. PICK d \in Channels : rows[<<a, d>>].state # "none"
      BY RowsOf
    <2>2. c \notin C /\ summary[a] # "absent"
      BY <1>4, <2>1, ChannelKeys DEF RowsTogether, LockInv, AbsentHasNoRows
    <2>3. SUFFICES ASSUME rows'[<<a, c>>].state # "none" PROVE FALSE
      BY <1>4
    <2>4. PICK r \in Runners : c \in conf[r]
      BY <1>4, <2>3, RowsAppear
    <2>5. QED
      BY <2>2, <2>4 DEF Uniform, LockInv, TypeOK
  <1>5. QED
    BY <1>3, <1>4

(* A final verdict stays the verdict, whatever happens to the rows of D. *)
LEMMA FinalStays ==
    ASSUME NEW C, Uniform(C), LockInv, RowsTogether(C), Next, NEW a \in Alerts, HasRows(a, RowStates),
           NEW D, NEW o, Final(Verdict(a, After(D, o)))
    PROVE  /\ HasRows(a, RowStates)'
           /\ Verdict(a, After(D, o)') = Verdict(a, After(D, o))
           /\ Final(Verdict(a, After(D, o)'))
  <1>1. \A c \in Channels : ~Open(After(D, o)[<<a, c>>])
    BY FinalVerdict
  <1>2. \A c \in Channels : After(D, o)'[<<a, c>>] = After(D, o)[<<a, c>>]
    <2> SUFFICES ASSUME NEW c \in Channels PROVE After(D, o)'[<<a, c>>] = After(D, o)[<<a, c>>]
      OBVIOUS
    <2>1. CASE <<a, c>> \in D
      BY <2>1, ChannelKeys DEF After
    <2>2. CASE <<a, c>> \notin D
      <3>1. After(D, o)[<<a, c>>] = rows[<<a, c>>].state
        BY <2>2, ChannelKeys DEF After
      <3>2. rows'[<<a, c>>].state = rows[<<a, c>>].state
        BY <1>1, <3>1, NotOpenStays
      <3>3. QED
        BY <2>2, <3>2, ChannelKeys DEF After
    <2>3. QED
      BY <2>1, <2>2
  <1>3. PICK s, t : s = After(D, o)' /\ t = After(D, o)
    OBVIOUS
  <1>4. Verdict(a, s) = Verdict(a, t)
    BY <1>2, <1>3, SameVerdict
  <1>5. HasRows(a, RowStates)'
    <2>1. \E c \in Channels : rows[<<a, c>>].state # "none"
      BY RowsOf
    <2>2. PICK c \in Channels : rows'[<<a, c>>].state # "none"
      BY <2>1, ChannelKeys, RowsRemain
    <2>3. QED
      BY <2>2, ChannelKeys DEF HasRows, RowStates
  <1>6. QED
    BY <1>3, <1>4, <1>5

(* The verdicts about to be recorded. *)
LEMMA RecordsFinalStep ==
    ASSUME NEW C, Uniform(C), LockInv, RowsTogether(C), SummaryInv, Next
    PROVE  RecordsAreFinal'
  <1>0. TypeOK
    BY DEF LockInv
  <1> SUFFICES ASSUME NEW q \in Runners, NEW i \in jobs'[q], Final(i.verdict)
               PROVE  i.verdict = Verdict(i.key[1], After({i.key}, Outcome(i))')
    BY DEF RecordsAreFinal
  <1>1. CASE i \in jobs[q]
    <2>1. i.verdict # "none" /\ i.verdict = Verdict(i.key[1], After({i.key}, Outcome(i)))
      BY <1>1 DEF SummaryInv, RecordsAreFinal, Final
    <2>2. i.key \in Keys /\ rows[i.key].state = "leased"
      BY <1>1, <2>1, UnderLock
    <2>3. PICK a \in Alerts, c \in Channels : i.key = <<a, c>>
      BY <2>2, KeyParts
    <2>4. HasRows(a, RowStates) /\ i.key[1] = a
      BY <2>2, <2>3, RowsOf
    <2>5. PICK D, o : D = {i.key} /\ o = Outcome(i)
      OBVIOUS
    <2>6. Final(Verdict(a, After(D, o)))
      BY <2>1, <2>4, <2>5
    <2>7. Verdict(a, After(D, o)') = Verdict(a, After(D, o))
      BY <2>4, <2>6, FinalStays
    <2>8. QED
      BY <2>1, <2>4, <2>5, <2>7
  <1>2. CASE i \notin jobs[q]
    <2>1. ASSUME NEW r \in Runners, NEW K \in SUBSET Claimable(r), ClaimAlertDeliveries(r, K)
          PROVE  FALSE
      BY <1>0, <1>2, <2>1, ClaimedJobs DEF Final
    <2>2. ASSUME NEW r \in Runners, NEW j \in jobs[r], NEW answer \in Answers, Send(r, j, answer)
          PROVE  FALSE
      <3>1. PICK h \in Job : h.verdict = j.verdict /\ j.answer = "none" /\ Becomes(r, j, h)
        BY <1>0, <2>2, SendJob
      <3>2. j.verdict = "none"
        BY <3>1 DEF LockInv, Locks, RecordsHoldLease
      <3>3. /\ jobs'[r] = (jobs[r] \ {j}) \cup {h}
            /\ \A p \in Runners : p # r => jobs'[p] = jobs[p]
        BY <1>0, <3>1, JobReplaced DEF TypeOK
      <3>4. QED
        BY <1>2, <3>1, <3>2, <3>3 DEF Final
    <2>3. ASSUME NEW r \in Runners, NEW j \in jobs[r], RecordOutcome(r, j)
          PROVE  i.verdict = Verdict(i.key[1], After({i.key}, Outcome(i))')
      <3>1. PICK h \in Job : /\ h.key = j.key /\ h.attempt = j.attempt /\ h.answer = j.answer
                             /\ h.verdict = Verdict(j.key[1], [RowStates EXCEPT ![j.key] = Outcome(j)])
                             /\ Becomes(r, j, h)
        BY <1>0, <2>3, RecordJob
      <3>2. /\ jobs'[r] = (jobs[r] \ {j}) \cup {h}
            /\ \A p \in Runners : p # r => jobs'[p] = jobs[p]
        BY <1>0, <3>1, JobReplaced DEF TypeOK
      <3>3. i = h /\ rows' = rows
        BY <1>2, <2>3, <3>2 DEF RecordOutcome
      <3>4. Outcome(i) = Outcome(j) /\ i.key = j.key /\ j.key \in Keys
        BY <1>0, <3>1, <3>3, JobFields DEF Outcome
      <3>5. [RowStates EXCEPT ![j.key] = Outcome(j)] = After({j.key}, Outcome(j))'
        BY <3>3, <3>4 DEF RowStates, After
      <3>6. QED
        BY <3>1, <3>3, <3>4, <3>5
    <2>4. ASSUME NEW r \in Runners, NEW j \in jobs[r],
                 CommitOutcome(r, j) \/ OutcomeRefused(r, j) \/ OutcomeLost(r, j)
          PROVE  FALSE
      <3>1. Without(r, j)
        BY <2>4 DEF CommitOutcome, OutcomeRefused, OutcomeLost
      <3>2. QED
        BY <1>0, <1>2, <3>1, JobRemoved DEF TypeOK
    <2>5. ASSUME NEW r \in Runners,
                 \/ \E a \in Alerts : CreateAlert(r, a)
                 \/ LoopContinues(r) \/ ReconcileSelects(r) \/ ReconcileReads(r)
                 \/ ReconcileCommits(r) \/ ReconcileFails(r)
          PROVE  FALSE
      BY <1>2, <2>5 DEF CreateAlert, LoopContinues, ReconcileSelects, ReconcileReads, ReconcileCommits,
                    ReconcileFails
    <2>6. ASSUME NEW k \in Keys, BecomesDue(k) \/ LeaseExpires(k) PROVE FALSE
      BY <1>0, <1>2, <2>6, ClockRows
    <2>7. ASSUME NEW r \in Runners, NEW channels \in Configs, Restart(r, channels) PROVE FALSE
      BY <1>0, <1>2, <2>7 DEF Restart, TypeOK
    <2>8. QED
      BY <2>1, <2>2, <2>3, <2>4, <2>5, <2>6, <2>7, Steps
  <1>3. QED
    BY <1>1, <1>2

(* What a reconciliation keeps of its record until it commits. *)
LEMMA ReconKept ==
    ASSUME TypeOK, Next, NEW q \in Runners, NEW a \in Alerts, Final(recon'[q].verdicts[a])
    PROVE  \/ /\ recon'[q].verdicts[a] = recon[q].verdicts[a]
              /\ recon'[q].close = recon[q].close
           \/ ReconcileReads(q)
  <1>1. CASE recon'[q] = recon[q]
    BY <1>1
  <1>2. CASE recon'[q] # recon[q]
    <2>1. ASSUME NEW r \in Runners, ReconcileSelects(r)
          PROVE  recon'[q].verdicts = recon[q].verdicts /\ recon'[q].close = recon[q].close
      <3>1. PICK B : recon' = [recon EXCEPT ![r].backfill = B]
        BY <2>1 DEF ReconcileSelects
      <3>2. PICK y \in ReconRecord : y = recon[r]
        BY ReconType
      <3>3. /\ [y EXCEPT !.backfill = B].close = y.close
            /\ [y EXCEPT !.backfill = B].verdicts = y.verdicts
        BY DEF ReconRecord
      <3>4. recon' = [recon EXCEPT ![r] = [y EXCEPT !.backfill = B]]
        BY <3>1, <3>2
      <3>5. QED
        BY <3>2, <3>3, <3>4 DEF TypeOK
    <2>2. ASSUME NEW r \in Runners, ReconcileReads(r) PROVE q = r
      BY <1>2, <2>2, ReadRecon, ReconAfter
    <2>3. ASSUME NEW r \in Runners,
                 \/ ReconcileCommits(r) \/ ReconcileFails(r)
                 \/ \E channels \in Configs : Restart(r, channels)
          PROVE  FALSE
      <3>1. recon' = [recon EXCEPT ![r] = NoRecon] /\ NoRecon.verdicts[a] = "none"
        BY <2>3 DEF ReconcileCommits, ReconcileFails, Restart, NoRecon
      <3>2. QED
        BY <1>2, <3>1 DEF TypeOK, Final
    <2>4. ASSUME NEW r \in Runners,
                 \/ \E b \in Alerts : CreateAlert(r, b)
                 \/ \E K \in SUBSET Claimable(r) : ClaimAlertDeliveries(r, K)
                 \/ \E j \in jobs[r] :
                       \/ \E answer \in Answers : Send(r, j, answer)
                       \/ RecordOutcome(r, j) \/ CommitOutcome(r, j)
                       \/ OutcomeRefused(r, j) \/ OutcomeLost(r, j)
                 \/ LoopContinues(r)
          PROVE  FALSE
      BY <1>2, <2>4, JobStep DEF CreateAlert, LoopContinues, ClaimAlertDeliveries
    <2>5. ASSUME NEW k \in Keys, BecomesDue(k) \/ LeaseExpires(k) PROVE FALSE
      BY <1>2, <2>5, ClockRows
    <2>6. QED
      BY <2>1, <2>2, <2>3, <2>4, <2>5, Steps
  <1>3. QED
    BY <1>1, <1>2

LEMMA ReconsFinalStep ==
    ASSUME NEW C, Uniform(C), LockInv, RowsTogether(C), SummaryInv, Next
    PROVE  ReconsAreFinal'
  <1>0. TypeOK
    BY DEF LockInv
  <1> SUFFICES ASSUME NEW q \in Runners, NEW a \in Alerts, Final(recon'[q].verdicts[a])
               PROVE  /\ HasRows(a, RowStates)'
                      /\ recon'[q].verdicts[a] =
                            Verdict(a, [k \in Keys |-> IF k \in recon'[q].close THEN "failed"
                                                       ELSE rows'[k].state])
    BY DEF ReconsAreFinal, After
  <1>1. CASE recon'[q].verdicts[a] = recon[q].verdicts[a] /\ recon'[q].close = recon[q].close
    <2>1. PICK D : D = recon[q].close
      OBVIOUS
    <2>2. HasRows(a, RowStates) /\ recon[q].verdicts[a] = Verdict(a, After(D, "failed"))
      BY <1>1, <2>1 DEF SummaryInv, ReconsAreFinal
    <2>3. Final(Verdict(a, After(D, "failed")))
      BY <1>1, <2>2
    <2>4. HasRows(a, RowStates)' /\ Verdict(a, After(D, "failed")') = Verdict(a, After(D, "failed"))
      BY <2>2, <2>3, FinalStays
    <2>5. QED
      BY <1>1, <2>1, <2>2, <2>4 DEF After
  <1>2. CASE ReconcileReads(q)
    <2> DEFINE states == [k \in Keys |->
                            IF k \in Orphaned(q) THEN "failed"
                            ELSE IF k \in Inserted(q, Backfilled(q)) THEN "pending"
                            ELSE rows[k].state]
    <2>1. PICK x \in ReconRecord :
             /\ x.close = Orphaned(q)
             /\ x.verdicts = [b \in Alerts |-> IF HasRows(b, states) THEN Verdict(b, states) ELSE "none"]
             /\ recon' = [recon EXCEPT ![q] = x]
      BY <1>0, <1>2, ReadRecon
    <2>2. recon'[q] = x
      BY <1>0, <2>1, ReconAfter
    <2>3. x.verdicts[a] = IF HasRows(a, states) THEN Verdict(a, states) ELSE "none"
      BY <2>1
    <2>4. HasRows(a, states) /\ x.verdicts[a] = Verdict(a, states) /\ Final(Verdict(a, states))
      BY <2>2, <2>3 DEF Final
    <2>5. \A c \in Channels : ~Open(states[<<a, c>>])
      BY <2>4, FinalVerdict
    <2>6. \A c \in Channels : states[<<a, c>>] = IF <<a, c>> \in Orphaned(q) THEN "failed"
                                                 ELSE rows[<<a, c>>].state
      BY <2>5, ChannelKeys DEF Open
    <2>7. rows' = rows
      BY <1>2 DEF ReconcileReads
    <2>8. \A c \in Channels : states[<<a, c>>] = After(x.close, "failed")'[<<a, c>>]
      BY <2>1, <2>6, <2>7, ChannelKeys DEF After
    <2>9. PICK s, t : s = states /\ t = After(x.close, "failed")'
      OBVIOUS
    <2>10. Verdict(a, states) = Verdict(a, After(x.close, "failed")')
      BY <2>8, <2>9, SameVerdict
    <2>11. \E c \in Channels : rows[<<a, c>>].state # "none"
      <3>1. PICK c \in Channels : states[<<a, c>>] # "none"
        BY <2>4 DEF HasRows
      <3>2. QED
        BY <2>6, <3>1 DEF Orphaned
    <2>12. HasRows(a, RowStates)'
      BY <2>7, <2>11, ChannelKeys DEF HasRows, RowStates
    <2> HIDE DEF states
    <2>13. QED
      BY <2>2, <2>4, <2>10, <2>12 DEF After
  <1>3. QED
    BY <1>0, <1>1, <1>2, ReconKept

LEMMA SummaryFinalStep ==
    ASSUME NEW C, Uniform(C), LockInv, RowsTogether(C), SummaryInv, Next
    PROVE  SummaryIsFinal'
  <1>0. TypeOK
    BY DEF LockInv
  <1> SUFFICES ASSUME NEW a \in Alerts, Final(summary'[a])
               PROVE  HasRows(a, RowStates)' /\ summary'[a] = Verdict(a, After({}, "none")')
    BY DEF SummaryIsFinal
  <1>1. CASE summary'[a] = summary[a]
    <2>1. HasRows(a, RowStates) /\ summary[a] = Verdict(a, After({}, "none"))
      BY <1>1 DEF SummaryInv, SummaryIsFinal
    <2>2. Final(Verdict(a, After({}, "none")))
      BY <1>1, <2>1
    <2>3. HasRows(a, RowStates)' /\ Verdict(a, After({}, "none")') = Verdict(a, After({}, "none"))
      BY <2>1, <2>2, FinalStays
    <2>4. QED
      BY <1>1, <2>1, <2>3
  (* A verdict with its row updates: the rows end as the verdict assumed. *)
  <1>2. ASSUME NEW D, NEW o, HasRows(a, RowStates), Final(Verdict(a, After(D, o))),
               summary'[a] = Verdict(a, After(D, o)),
               \A c \in Channels : <<a, c>> \in D => rows'[<<a, c>>].state = o
        PROVE  HasRows(a, RowStates)' /\ summary'[a] = Verdict(a, After({}, "none")')
    <2>1. HasRows(a, RowStates)' /\ Verdict(a, After(D, o)') = Verdict(a, After(D, o))
      BY <1>2, FinalStays
    <2>2. \A c \in Channels : After(D, o)'[<<a, c>>] = After({}, "none")'[<<a, c>>]
      BY <1>2, ChannelKeys DEF After
    <2>3. PICK s, t : s = After(D, o)' /\ t = After({}, "none")'
      OBVIOUS
    <2>4. Verdict(a, s) = Verdict(a, t)
      BY <2>2, <2>3, SameVerdict
    <2>5. QED
      BY <1>2, <2>1, <2>3, <2>4
  <1>3. ASSUME NEW r \in Runners, NEW j \in jobs[r], CommitOutcome(r, j), summary'[a] # summary[a]
        PROVE  HasRows(a, RowStates)' /\ summary'[a] = Verdict(a, After({}, "none")')
    <2>1. /\ rows'[j.key] = [state |-> Outcome(j), attempts |-> rows[j.key].attempts,
                             owner |-> {}, due |-> FALSE, expired |-> FALSE]
          /\ j.verdict # "none" /\ j.key[1] \in Alerts
          /\ summary' = [summary EXCEPT ![j.key[1]] = j.verdict]
      BY <1>0, <1>3, CommittedRow
    <2>2. rows'[j.key].state = Outcome(j)
      BY <2>1
    <2>3. a = j.key[1] /\ summary'[a] = j.verdict
      BY <1>0, <1>3, <2>1 DEF TypeOK
    <2>4. PICK c \in Channels : j.key = <<a, c>>
      BY <1>0, <2>3, JobFields, KeyParts
    <2>5. HasRows(a, RowStates)
      BY <2>1, <2>4, UnderLock, RowsOf
    <2>6. PICK D, o : D = {j.key} /\ o = Outcome(j)
      OBVIOUS
    <2>7. j.verdict = Verdict(a, After(D, o))
      BY <2>3, <2>6 DEF SummaryInv, RecordsAreFinal
    <2>8. Final(Verdict(a, After(D, o)))
      BY <2>3, <2>7
    <2>9. QED
      BY <1>2, <2>2, <2>3, <2>5, <2>6, <2>7, <2>8
  <1>4. ASSUME NEW r \in Runners, ReconcileCommits(r), summary'[a] # summary[a]
        PROVE  HasRows(a, RowStates)' /\ summary'[a] = Verdict(a, After({}, "none")')
    <2>1. summary'[a] = IF recon[r].verdicts[a] # "none" THEN recon[r].verdicts[a]
                        ELSE IF a \in recon[r].backfill THEN "unconfigured" ELSE summary[a]
      BY <1>4 DEF ReconcileCommits
    <2>2. summary'[a] = recon[r].verdicts[a]
      BY <1>4, <2>1 DEF Final
    <2>3. PICK D : D = recon[r].close
      OBVIOUS
    <2>4. HasRows(a, RowStates) /\ recon[r].verdicts[a] = Verdict(a, After(D, "failed"))
      BY <2>2, <2>3 DEF SummaryInv, ReconsAreFinal
    <2>5. \A c \in Channels : <<a, c>> \in D => rows'[<<a, c>>].state = "failed"
      BY <1>0, <1>4, <2>3, ReconciledRows
    <2>6. QED
      BY <1>2, <2>2, <2>4, <2>5
  <1>5. ASSUME NEW r \in Runners, NEW b \in Alerts, CreateAlert(r, b) PROVE summary'[a] = summary[a]
    BY <1>0, <1>5, CreatedRows DEF Final
  <1>6. ASSUME NEW k \in Keys, BecomesDue(k) \/ LeaseExpires(k) PROVE summary' = summary
    BY <1>0, <1>6, ClockRows
  <1>7. ASSUME NEW r \in Runners,
               \/ \E K \in SUBSET Claimable(r) : ClaimAlertDeliveries(r, K)
               \/ LoopContinues(r) \/ ReconcileSelects(r) \/ ReconcileReads(r) \/ ReconcileFails(r)
               \/ \E channels \in Configs : Restart(r, channels)
        PROVE  summary' = summary
    BY <1>7 DEF ClaimAlertDeliveries, LoopContinues, ReconcileSelects, ReconcileReads, ReconcileFails,
                Restart
  <1>8. ASSUME NEW r \in Runners, NEW j \in jobs[r],
               \/ \E answer \in Answers : Send(r, j, answer)
               \/ RecordOutcome(r, j) \/ OutcomeRefused(r, j) \/ OutcomeLost(r, j)
        PROVE  summary' = summary
    BY <1>8 DEF Send, RecordOutcome, OutcomeRefused, OutcomeLost
  <1>9. QED
    BY <1>1, <1>3, <1>4, <1>5, <1>6, <1>7, <1>8, Steps

(* alerts.delivery_state says failed or delivered only when every delivery  *)
(* of the alert is over and that is the verdict, whatever transactions were *)
(* open when it was computed, provided all processes have the same settings. *)
THEOREM SummaryIsNotPremature ==
    ASSUME NEW C, Uniform(C)
    PROVE  Spec => []SummaryNeverPremature
  <1>1. Init => RowsTogether(C) /\ SummaryInv
    BY ChannelKeys DEF Init, RowsTogether, SummaryInv, SummaryIsFinal, RecordsAreFinal, ReconsAreFinal, Final,
           NoRow, NoRecon
  <1>2. RowsTogether(C) /\ SummaryInv /\ LockInv /\ [Next]_vars => (RowsTogether(C) /\ SummaryInv)'
    <2> SUFFICES ASSUME RowsTogether(C), SummaryInv, LockInv, [Next]_vars
                 PROVE  RowsTogether(C)' /\ SummaryInv'
      OBVIOUS
    <2>1. CASE UNCHANGED vars
      <3>1. RowsTogether(C)'
        BY <2>1 DEF vars, RowsTogether
      <3>2. SummaryIsFinal' /\ RecordsAreFinal'
        BY <2>1 DEF vars, SummaryInv, SummaryIsFinal, RecordsAreFinal, HasRows, RowStates, After
      <3>3. ReconsAreFinal'
        BY <2>1 DEF vars, SummaryInv, ReconsAreFinal, HasRows, RowStates, After
      <3>4. QED
        BY <3>1, <3>2, <3>3 DEF SummaryInv
    <2>2. CASE Next
      <3>1. RowsTogether(C)'
        BY <2>2, TogetherStep
      <3>2. SummaryIsFinal' /\ RecordsAreFinal' /\ ReconsAreFinal'
        BY <2>2, SummaryFinalStep, RecordsFinalStep, ReconsFinalStep
      <3>3. QED
        BY <3>1, <3>2 DEF SummaryInv
    <2>3. QED
      BY <2>1, <2>2
  <1>3. SummaryInv => SummaryNeverPremature
    <2> SUFFICES ASSUME SummaryInv, NEW a \in Alerts, summary[a] \in {"failed", "delivered"}
                 PROVE  /\ \A c \in Channels : ~Open(rows[<<a, c>>].state)
                        /\ summary[a] = Verdict(a, RowStates)
      BY DEF SummaryNeverPremature
    <2>1. summary[a] = Verdict(a, After({}, "none")) /\ Final(summary[a])
      BY DEF SummaryInv, SummaryIsFinal, Final
    <2>2. After({}, "none") = RowStates
      BY DEF After, RowStates
    <2>3. \A c \in Channels : ~Open(RowStates[<<a, c>>])
      BY <2>1, <2>2, FinalVerdict
    <2>4. QED
      BY <2>1, <2>2, <2>3, ChannelKeys DEF RowStates
  <1>4. QED
    BY <1>1, <1>2, <1>3, LocksHold, PTL DEF Spec

===============================================================================
