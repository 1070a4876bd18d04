----------------------------- MODULE AlertDelivery -----------------------------
(***************************************************************************)
(* Delivery of alerts to webhook and Discord: the alert_deliveries rows of  *)
(* internal/store/alerts.go and the runner of internal/alertdelivery that   *)
(* every API process starts.                                                 *)
(*                                                                          *)
(* A runner loops: claim due deliveries under a lease, send them in         *)
(* parallel, record each outcome, wait for all of them, and now and then    *)
(* reconcile.  Recording an outcome and reconciling are transactions whose  *)
(* last statement recomputes alerts.delivery_state from a snapshot of the   *)
(* delivery rows; under READ COMMITTED another transaction may commit       *)
(* between that snapshot and the commit, so each is two actions: one fixes  *)
(* the snapshot, the other commits.  Rows written by an open transaction    *)
(* are locked.                                                               *)
(*                                                                          *)
(* Faults (a process restart, a lease that runs out while its holder still  *)
(* works, a failed or lost database call) are counted, so that everything   *)
(* else is the normal operation of the code.                                *)
(***************************************************************************)
EXTENDS Naturals, FiniteSets

CONSTANTS
    Alerts,          \* alerts that may be raised
    Channels,        \* delivery channels: webhook and discord
    Runners,         \* API processes
    Configs,         \* sets of channels a process may be configured with
    MaxAttempts,     \* runner.go maxAttempts
    ClaimBatch,      \* runner.go claimBatch
    MaxFaults        \* bound: faults of one behaviour

ASSUME AttemptsAssumption == MaxAttempts \in Nat \ {0} /\ ClaimBatch \in Nat \ {0}
ASSUME ConfigsAssumption == Configs \subseteq SUBSET Channels
ASSUME FaultsAssumption == MaxFaults \in Nat

VARIABLES
    summary,         \* alerts.delivery_state ("absent" before the alert exists)
    rows,            \* alert_deliveries, by alert and channel
    pc,              \* where the loop of each runner is
    epoch,           \* incarnation of each process: its owner uuid
    conf,            \* the channels each process has configured
    jobs,            \* deliveries each runner is working on
    recon,           \* what the open reconciliation of each runner will write
    accepted,        \* deliveries some endpoint has accepted
    faults           \* number of faults so far

vars == <<summary, rows, pc, epoch, conf, jobs, recon, accepted, faults>>

Keys == Alerts \X Channels

Owners == Runners \X Nat

(* owner is the empty set when lease_owner is NULL; due says that           *)
(* next_attempt_at has passed, expired that lease_expires_at has.           *)
Row ==
    [state: {"none", "pending", "leased", "delivered", "failed"},
     attempts: Nat,
     owner: SUBSET Owners,
     due: BOOLEAN,
     expired: BOOLEAN]

NoRow == [state |-> "none", attempts |-> 0, owner |-> {}, due |-> FALSE, expired |-> FALSE]

NewDelivery ==
    [state |-> "pending", attempts |-> 0, owner |-> {}, due |-> TRUE, expired |-> FALSE]

(* verdict is "none" until the recording transaction has its snapshot. *)
Job ==
    [key: Keys, attempt: Nat,
     answer: {"none", "ok", "retry", "permanent"},
     verdict: {"none", "pending", "failed", "delivered"}]

(* Faulty variant: leases are taken under the host's name. *)
OwnerByHost(r) == r

(* owner: uuid.New() of the runner, so every incarnation is another owner. *)
Owner(r) == <<r, epoch[r]>>

RowStates == [k \in Keys |-> rows[k].state]

Open(state) == state \in {"pending", "leased"}

HasRows(a, states) == \E c \in Channels : states[<<a, c>>] # "none"

(* Faulty variant: a leased delivery is not counted as pending. *)
VerdictIgnoringLeases(a, states) ==
    IF \E c \in Channels : states[<<a, c>>] = "pending" THEN "pending"
    ELSE IF \E c \in Channels : states[<<a, c>>] = "failed" THEN "failed"
    ELSE "delivered"

(* The CASE of refreshAlertState over the delivery rows of alert a. *)
Verdict(a, states) ==
    IF \E c \in Channels : Open(states[<<a, c>>]) THEN "pending"
    ELSE IF \E c \in Channels : states[<<a, c>>] = "failed" THEN "failed"
    ELSE "delivered"

(* Delivery rows that an open transaction has locked. *)
Locked(k) ==
    \E r \in Runners :
        k \in recon[r].close \/ \E j \in jobs[r] : j.key = k /\ j.verdict # "none"

(* close and backfill are what the transaction will write; a verdict of     *)
(* "none" leaves the alert alone: it has no delivery rows.                   *)
NoRecon == [close |-> {}, backfill |-> {}, verdicts |-> [a \in Alerts |-> "none"]]

Fault == faults < MaxFaults /\ faults' = faults + 1

-------------------------------------------------------------------------------
Init ==
    /\ summary = [a \in Alerts |-> "absent"]
    /\ rows = [k \in Keys |-> NoRow]
    /\ pc = [r \in Runners |-> "reconcile"]
    /\ epoch = [r \in Runners |-> 0]
    /\ conf \in [Runners -> Configs]
    /\ jobs = [r \in Runners |-> {}]
    /\ recon = [r \in Runners |-> NoRecon]
    /\ accepted = {}
    /\ faults = 0

(* createAlert, in the transaction that applies a confirming check. *)
CreateAlert(r, a) ==
    /\ summary[a] = "absent"
    /\ summary' = [summary EXCEPT ![a] = IF conf[r] = {} THEN "unconfigured" ELSE "pending"]
    /\ rows' = [k \in Keys |-> IF k[1] = a /\ k[2] \in conf[r] THEN NewDelivery ELSE rows[k]]
    /\ UNCHANGED <<pc, epoch, conf, jobs, recon, accepted, faults>>

(* Time passes. *)
BecomesDue(k) ==
    /\ rows[k].state = "pending" /\ ~rows[k].due
    /\ rows' = [rows EXCEPT ![k].due = TRUE]
    /\ UNCHANGED <<summary, pc, epoch, conf, jobs, recon, accepted, faults>>

Working(k) == \E r \in Runners : Owner(r) \in rows[k].owner /\ \E j \in jobs[r] : j.key = k

(* The lease outlives the request timeout by far: it runs out under a       *)
(* holder that is still at work only when that holder stalls.               *)
LeaseExpires(k) ==
    /\ rows[k].state = "leased" /\ ~rows[k].expired
    /\ rows' = [rows EXCEPT ![k].expired = TRUE]
    /\ IF Working(k) THEN Fault ELSE UNCHANGED faults
    /\ UNCHANGED <<summary, pc, epoch, conf, jobs, recon, accepted>>

-------------------------------------------------------------------------------
(* The loop of a runner. *)

(* Faulty variant: an abandoned lease is never taken over. *)
ClaimablePending(r) ==
    {k \in Keys : k[2] \in conf[r] /\ rows[k].state = "pending" /\ rows[k].due /\ ~Locked(k)}

Claimable(r) ==
    {k \in Keys :
        /\ k[2] \in conf[r]
        /\ \/ rows[k].state = "pending" /\ rows[k].due
           \/ rows[k].state = "leased" /\ rows[k].expired
        /\ ~Locked(k)}

(* LIMIT claimBatch: all claimable rows, or as many as fit. *)
Batch(r, K) ==
    /\ K \subseteq Claimable(r)
    /\ Cardinality(K) <= ClaimBatch
    /\ K = Claimable(r) \/ Cardinality(K) = ClaimBatch

Claimed(r, k) ==
    [state |-> "leased", attempts |-> rows[k].attempts + 1, owner |-> {Owner(r)},
     due |-> rows[k].due, expired |-> FALSE]

(* process: the loop goes on only when every claimed delivery is done. *)
ClaimAlertDeliveries(r, K) ==
    /\ pc[r] = "process"
    /\ Batch(r, K)
    /\ rows' = [k \in Keys |-> IF k \in K THEN Claimed(r, k) ELSE rows[k]]
    /\ pc' = [pc EXCEPT ![r] = "deliver"]
    /\ \/ /\ jobs' = [jobs EXCEPT ![r] =
                        {[key |-> k, attempt |-> rows[k].attempts + 1,
                          answer |-> "none", verdict |-> "none"] : k \in K}]
          /\ UNCHANGED faults
       \/ K # {} /\ Fault /\ UNCHANGED jobs     \* committed, but the reply was lost
    /\ UNCHANGED <<summary, epoch, conf, recon, accepted>>

Without(r, j) == jobs' = [jobs EXCEPT ![r] = @ \ {j}]

Becomes(r, j, i) == jobs' = [jobs EXCEPT ![r] = (@ \ {j}) \cup {i}]

(* send: the endpoint may have accepted a request whose answer is an error. *)
Send(r, j, answer) ==
    /\ j.answer = "none"
    /\ Becomes(r, j, [j EXCEPT !.answer = answer])
    /\ accepted' \in IF answer = "ok" THEN {accepted \cup {j.key}}
                     ELSE IF answer = "retry" THEN {accepted, accepted \cup {j.key}}
                     ELSE {accepted}
    /\ UNCHANGED <<summary, rows, pc, epoch, conf, recon, faults>>

(* Faulty variant: a request that failed on the way counts as accepted. *)
OutcomeOptimistic(j) == IF j.answer = "permanent" THEN "failed" ELSE "delivered"

(* Faulty variant: the attempt is not compared with maxAttempts. *)
OutcomeUnbounded(j) ==
    IF j.answer = "ok" THEN "delivered" ELSE IF j.answer = "permanent" THEN "failed" ELSE "pending"

(* The state CompleteAlertDelivery or FailAlertDelivery gives the row. *)
Outcome(j) ==
    IF j.answer = "ok" THEN "delivered"
    ELSE IF j.answer = "permanent" \/ j.attempt >= MaxAttempts THEN "failed"
    ELSE "pending"

(* Faulty variant: the owner of the lease is not checked. *)
HoldsAnyLease(r, j) == rows[j.key].state = "leased"

(* WHERE state='leased' AND lease_owner=owner. *)
HoldsLease(r, j) == rows[j.key].state = "leased" /\ Owner(r) \in rows[j.key].owner

(* The UPDATE of the row and the snapshot of refreshAlertState. *)
RecordOutcome(r, j) ==
    /\ j.answer # "none" /\ j.verdict = "none"
    /\ ~Locked(j.key)
    /\ HoldsLease(r, j)
    /\ Becomes(r, j, [j EXCEPT !.verdict =
                        Verdict(j.key[1], [RowStates EXCEPT ![j.key] = Outcome(j)])])
    /\ UNCHANGED <<summary, rows, pc, epoch, conf, recon, accepted, faults>>

CommitOutcome(r, j) ==
    /\ j.verdict # "none"
    /\ rows' = [rows EXCEPT ![j.key] =
                  [state |-> Outcome(j), attempts |-> @.attempts, owner |-> {},
                   due |-> FALSE, expired |-> FALSE]]
    /\ summary' = [summary EXCEPT ![j.key[1]] = j.verdict]
    /\ Without(r, j)
    /\ UNCHANGED <<pc, epoch, conf, recon, accepted, faults>>

(* The lease was lost to another runner or closed: ErrNotFound, logged. *)
OutcomeRefused(r, j) ==
    /\ j.answer # "none" /\ j.verdict = "none"
    /\ ~Locked(j.key)
    /\ ~HoldsLease(r, j)
    /\ Without(r, j)
    /\ UNCHANGED <<summary, rows, pc, epoch, conf, recon, accepted, faults>>

(* The store call fails: the outcome is logged and dropped. *)
OutcomeLost(r, j) ==
    /\ j.answer # "none"
    /\ Fault
    /\ Without(r, j)
    /\ UNCHANGED <<summary, rows, pc, epoch, conf, recon, accepted>>

(* Faulty variant: the reconciliation ticker is not selected. *)
LoopNeverReconciles(r) ==
    /\ pc[r] = "deliver" /\ jobs[r] = {}
    /\ pc' = [pc EXCEPT ![r] = "process"]
    /\ UNCHANGED <<summary, rows, epoch, conf, jobs, recon, accepted, faults>>

(* group.Wait, then the select: poll again, or reconcile first. *)
LoopContinues(r) ==
    /\ pc[r] = "deliver" /\ jobs[r] = {}
    /\ \E next \in {"process", "reconcile"} : pc' = [pc EXCEPT ![r] = next]
    /\ UNCHANGED <<summary, rows, epoch, conf, jobs, recon, accepted, faults>>

-------------------------------------------------------------------------------
(* ReconcileAlertDeliveries. *)

(* The snapshot of SELECT ... FOR UPDATE SKIP LOCKED: alerts without any    *)
(* delivery row.  Whether such rows exist is not looked up again when the   *)
(* alert's row is locked.                                                    *)
ReconcileSelects(r) ==
    /\ pc[r] = "reconcile"
    /\ recon' = [recon EXCEPT ![r].backfill =
                   {a \in Alerts : /\ summary[a] \in {"pending", "unconfigured"}
                                  /\ ~HasRows(a, RowStates)}]
    /\ pc' = [pc EXCEPT ![r] = "selected"]
    /\ UNCHANGED <<summary, rows, epoch, conf, jobs, accepted, faults>>

(* The selected alerts that are not locked and still need a delivery. *)
Backfilled(r) ==
    {a \in recon[r].backfill :
        /\ summary[a] \in {"pending", "unconfigured"}
        /\ \A q \in Runners \ {r} : pc[q] = "reconciling" => a \notin recon[q].backfill}

(* Faulty variant: every row of a removed channel is closed. *)
OrphanedAll(r) == {k \in Keys : k[2] \notin conf[r] /\ rows[k].state # "none"}

(* Open rows of channels this process does not have; a running lease waits. *)
Orphaned(r) ==
    {k \in Keys :
        /\ k[2] \notin conf[r]
        /\ \/ rows[k].state = "pending"
           \/ rows[k].state = "leased" /\ rows[k].expired}

(* INSERT ... ON CONFLICT DO NOTHING. *)
Inserted(r, A) == {k \in Keys : k[1] \in A /\ k[2] \in conf[r] /\ rows[k].state = "none"}

(* Both updates, then the snapshot of refreshAllAlertStates. *)
ReconcileReads(r) ==
    LET states == [k \in Keys |->
                     IF k \in Orphaned(r) THEN "failed"
                     ELSE IF k \in Inserted(r, Backfilled(r)) THEN "pending"
                     ELSE rows[k].state]
    IN
    /\ pc[r] = "selected"
    /\ \A k \in Orphaned(r) : ~Locked(k)
    /\ recon' = [recon EXCEPT ![r] =
                   [close |-> Orphaned(r), backfill |-> Backfilled(r),
                    verdicts |-> [a \in Alerts |->
                                    IF HasRows(a, states) THEN Verdict(a, states) ELSE "none"]]]
    /\ pc' = [pc EXCEPT ![r] = "reconciling"]
    /\ UNCHANGED <<summary, rows, epoch, conf, jobs, accepted, faults>>

ReconcileCommits(r) ==
    LET x == recon[r] IN
    /\ pc[r] = "reconciling"
    /\ rows' = [k \in Keys |->
                  IF k \in x.close
                  THEN [rows[k] EXCEPT !.state = "failed", !.owner = {}, !.expired = FALSE]
                  ELSE IF k \in Inserted(r, x.backfill) THEN NewDelivery
                  ELSE rows[k]]
    /\ summary' = [a \in Alerts |->
                     IF x.verdicts[a] # "none" THEN x.verdicts[a]
                     ELSE IF a \in x.backfill THEN "unconfigured"
                     ELSE summary[a]]
    /\ recon' = [recon EXCEPT ![r] = NoRecon]
    /\ pc' = [pc EXCEPT ![r] = "process"]
    /\ UNCHANGED <<epoch, conf, jobs, accepted, faults>>

(* An error or a deadlock rolls the transaction back; it is logged. *)
ReconcileFails(r) ==
    /\ pc[r] \in {"selected", "reconciling"}
    /\ Fault
    /\ recon' = [recon EXCEPT ![r] = NoRecon]
    /\ pc' = [pc EXCEPT ![r] = "process"]
    /\ UNCHANGED <<summary, rows, epoch, conf, jobs, accepted>>

(* A process dies and comes back, possibly with other channels: goroutines  *)
(* and open transactions are gone, leases stay behind under the old owner.  *)
Restart(r, channels) ==
    /\ Fault
    /\ epoch' = [epoch EXCEPT ![r] = @ + 1]
    /\ conf' = [conf EXCEPT ![r] = channels]
    /\ jobs' = [jobs EXCEPT ![r] = {}]
    /\ recon' = [recon EXCEPT ![r] = NoRecon]
    /\ pc' = [pc EXCEPT ![r] = "reconcile"]
    /\ UNCHANGED <<summary, rows, accepted>>

-------------------------------------------------------------------------------
ClaimStep(r) == \E K \in SUBSET Claimable(r) : ClaimAlertDeliveries(r, K)

SendStep(r) ==
    \E j \in jobs[r] : \E answer \in {"ok", "retry", "permanent"} : Send(r, j, answer)

OutcomeStep(r) ==
    \E j \in jobs[r] : RecordOutcome(r, j) \/ CommitOutcome(r, j) \/ OutcomeRefused(r, j)

RunnerStep(r) ==
    \/ ClaimStep(r)
    \/ SendStep(r)
    \/ OutcomeStep(r)
    \/ LoopContinues(r)
    \/ ReconcileSelects(r)
    \/ ReconcileReads(r)
    \/ ReconcileCommits(r)

FaultStep(r) ==
    \/ \E j \in jobs[r] : OutcomeLost(r, j)
    \/ ReconcileFails(r)
    \/ \E channels \in Configs : Restart(r, channels)

ClockStep(k) == BecomesDue(k) \/ LeaseExpires(k)

Next ==
    \/ \E r \in Runners : RunnerStep(r) \/ FaultStep(r) \/ \E a \in Alerts : CreateAlert(r, a)
    \/ \E k \in Keys : ClockStep(k)

(* Time passes, a live runner keeps running, requests and transactions end, *)
(* and the ticker that makes the loop reconcile is not starved by the one   *)
(* that makes it poll.                                                       *)
Fairness ==
    /\ \A k \in Keys : WF_vars(BecomesDue(k)) /\ WF_vars(~Working(k) /\ LeaseExpires(k))
    /\ \A r \in Runners :
          /\ WF_vars(RunnerStep(r))
          /\ SF_vars(LoopContinues(r) /\ pc'[r] = "reconcile")

Spec == Init /\ [][Next]_vars

FairSpec == Spec /\ Fairness

-------------------------------------------------------------------------------
(* Properties. *)

(* Every table and every runner's bookkeeping is well typed. *)
TypeOK ==
    /\ summary \in [Alerts -> {"absent", "unconfigured", "pending", "failed", "delivered"}]
    /\ rows \in [Keys -> Row]
    /\ pc \in [Runners -> {"process", "deliver", "reconcile", "selected", "reconciling"}]
    /\ epoch \in [Runners -> Nat]
    /\ conf \in [Runners -> Configs]
    /\ jobs \in [Runners -> SUBSET Job]
    /\ recon \in [Runners ->
                   [close: SUBSET Keys, backfill: SUBSET Alerts,
                    verdicts: [Alerts -> {"none", "pending", "failed", "delivered"}]]]
    /\ accepted \subseteq Keys
    /\ faults \in 0..MaxFaults

(* Nothing is reported as delivered that no endpoint accepted, although     *)
(* outcomes of expired leases arrive late and other runners retry meanwhile. *)
DeliveredWasAccepted ==
    \A k \in Keys : rows[k].state = "delivered" => k \in accepted

(* The owner uuid is a sufficient fence: an outcome that the UPDATE lets    *)
(* through is the outcome of the latest claim of that delivery.             *)
OutcomeIsOfLatestClaim ==
    \A r \in Runners : \A j \in jobs[r] :
        HoldsLease(r, j) => j.attempt = rows[j.key].attempts

(* alerts.delivery_state says failed or delivered only when every delivery  *)
(* of the alert is over and that is the verdict, whatever transactions were *)
(* open when it was computed.                                                *)
SummaryNeverPremature ==
    \A a \in Alerts :
        summary[a] \in {"failed", "delivered"} =>
            /\ \A c \in Channels : ~Open(rows[<<a, c>>].state)
            /\ summary[a] = Verdict(a, RowStates)

(* A delivery is tried more often than maxAttempts only as often as a fault *)
(* kept an outcome from being recorded.                                      *)
RetriesBoundedByFaults ==
    \A k \in Keys : rows[k].attempts <= MaxAttempts + faults

(* A delivery that is over stays as it is: neither a late outcome nor a     *)
(* reconciliation reopens or rewrites it.                                    *)
OverIsOver ==
    [][\A k \in Keys : rows[k].state \in {"delivered", "failed"} => rows'[k] = rows[k]]_vars

Settled(a) ==
    summary[a] # "absent" /\ HasRows(a, RowStates) /\
    \A c \in Channels : ~Open(rows[<<a, c>>].state)

(* Every delivery ends, and then the alert comes to show its verdict and    *)
(* keeps it: a stale delivery_state lasts until the next reconciliation.    *)
DeliveriesEnd ==
    \A k \in Keys : Open(rows[k].state) ~> rows[k].state \in {"delivered", "failed"}

SummarySettles ==
    \A a \in Alerts : Settled(a) ~> [](summary[a] = Verdict(a, RowStates))

===============================================================================
