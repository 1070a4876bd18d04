------------------------------- MODULE WorkQueue -------------------------------
(***************************************************************************)
(* How an execution gets from the database to a worker and back: the outbox *)
(* that every control-plane process relays (internal/store/outbox.go), the  *)
(* JetStream work queue (internal/queue, external service), the worker loop *)
(* (worker/src/queue.ts) and the recovery of stale executions.              *)
(*                                                                          *)
(* What an execution does is the subject of ControlPlane; here a job is one *)
(* piece of work and its executions are its attempts.  An execution is      *)
(* created in the transaction that creates its outbox row.  Delivery is at  *)
(* least once: publishing, fetching the input, reporting and acknowledging  *)
(* may each take effect although the caller sees an error, and processes    *)
(* may die anywhere.  These faults are counted; everything else is normal   *)
(* operation.                                                                *)
(***************************************************************************)
EXTENDS Naturals, Sequences, FiniteSets

CONSTANTS
    Jobs,            \* pieces of work that may be enqueued
    Workers,         \* worker processes
    Relays,          \* control-plane processes, each with an outbox runner
    MaxAttempts,     \* EXECUTION_MAX_ATTEMPTS
    MaxInFlight,     \* WORKER_MAX_IN_FLIGHT: max_ack_pending of the consumer
    MayExpire,       \* whether a message may stay queued beyond MaxAge
    MaxFaults        \* bound: faults of one behaviour

ASSUME LimitsAssumption == MaxAttempts \in Nat \ {0} /\ MaxInFlight \in Nat \ {0}
ASSUME FaultsAssumption == MayExpire \in BOOLEAN /\ MaxFaults \in Nat

VARIABLES
    work,            \* executions; an execution's id is its index
    outbox,          \* executions whose outbox row is not published
    relay,           \* the open transaction of each outbox runner
    stored,          \* messages JetStream ever stored
    stream,          \* messages that are not acknowledged
    pending,         \* messages that are delivered and not acknowledged
    recent,          \* outbox ids in the deduplication window
    dropped,         \* executions of which the stream dropped a message by age
    worker,          \* what each worker process does
    faults           \* number of faults so far

vars == <<work, outbox, relay, stored, stream, pending, recent, dropped, worker, faults>>

queue == <<stored, stream, pending, recent, dropped>>

Execution ==
    [job: Jobs, attempt: 1..MaxAttempts, state: {"queued", "running", "succeeded", "failed"}]

Ids == 1..Len(work)

Terminal(i) == work[i].state \in {"succeeded", "failed"}

(* A message is an outbox id and the number of its copy. *)
Copies(i) == {m \in stored : m[1] = i}

Idle == [pc |-> "idle", msg |-> <<0, 0>>]

NoBatch == [batch |-> {}, sent |-> {}]

Fault == faults < MaxFaults /\ faults' = faults + 1

Init ==
    /\ work = <<>>
    /\ outbox = {}
    /\ relay = [p \in Relays |-> NoBatch]
    /\ stored = {} /\ stream = {} /\ pending = {} /\ recent = {} /\ dropped = {}
    /\ worker = [w \in Workers |-> Idle]
    /\ faults = 0

-------------------------------------------------------------------------------
(* The control plane's transactions. *)

(* Any transaction that inserts a first execution: insertOutbox. *)
Enqueue(j) ==
    /\ \A i \in Ids : work[i].job # j
    /\ work' = Append(work, [job |-> j, attempt |-> 1, state |-> "queued"])
    /\ outbox' = outbox \cup {Len(work) + 1}
    /\ UNCHANGED <<relay, queue, worker, faults>>

(* Faulty variant: one attempt too many. *)
RetryOnceMore(i) == work[i].attempt <= MaxAttempts

AttemptsLeft(i) == work[i].attempt < MaxAttempts

(* Execution i ends; a failure that is retried gets a successor. *)
Ends(i, result) ==
    IF result = "retry"
    THEN /\ AttemptsLeft(i)
         /\ work' = Append([work EXCEPT ![i].state = "failed"],
                           [job |-> work[i].job, attempt |-> work[i].attempt + 1,
                            state |-> "queued"])
         /\ outbox' = outbox \cup {Len(work) + 1}
    ELSE /\ work' = [work EXCEPT ![i].state = result]
         /\ UNCHANGED outbox

(* Faulty variant: a late result of a failed execution is applied. *)
AcceptsLate(i) == work[i].state # "succeeded"

Accepts(i) == ~Terminal(i)

ApplyResult(i, result) ==
    IF Accepts(i) THEN Ends(i, result) ELSE UNCHANGED <<work, outbox>>

GetExecutionInput(i) ==
    /\ work' = IF work[i].state = "queued" THEN [work EXCEPT ![i].state = "running"] ELSE work
    /\ UNCHANGED outbox

(* A worker is busy with execution i. *)
WorkedOn(i) == \E w \in Workers : worker[w].pc = "executing" /\ worker[w].msg[1] = i

(* Faulty variant: looks for executions nobody has claimed yet. *)
SweepableQueued(i) == work[i].state = "queued"

Sweepable(i) == work[i].state = "running"

(* The stale timeout exceeds the job timeout: an execution that is still    *)
(* worked on is swept only when its worker stalls.                           *)
SweepStaleExecutions(i) ==
    /\ Sweepable(i)
    /\ Ends(i, IF AttemptsLeft(i) THEN "retry" ELSE "failed")
    /\ IF WorkedOn(i) THEN Fault ELSE UNCHANGED faults
    /\ UNCHANGED <<relay, queue, worker>>

-------------------------------------------------------------------------------
(* ProcessOutbox: one transaction that publishes while it holds row locks. *)

(* Faulty variant: rows that another runner publishes are not skipped. *)
AllUnpublished(p) == outbox

Selectable(p) == outbox \ UNION {relay[q].batch : q \in Relays}

RelaySelects(p) ==
    /\ relay[p] = NoBatch
    /\ Selectable(p) # {}
    /\ relay' = [relay EXCEPT ![p].batch = Selectable(p)]
    /\ UNCHANGED <<work, outbox, queue, worker, faults>>

(* ORDER BY id: the rows of the batch are published in this order. *)
IsNext(p, i) ==
    LET todo == relay[p].batch \ relay[p].sent IN
    i \in todo /\ \A k \in todo : i <= k

(* JetStream drops a message whose Nats-Msg-Id it has seen recently. *)
Store(i) ==
    LET m == <<i, Cardinality(Copies(i))>> IN
    /\ stored' = IF i \in recent THEN stored ELSE stored \cup {m}
    /\ stream' = IF i \in recent THEN stream ELSE stream \cup {m}
    /\ recent' = recent \cup {i}
    /\ UNCHANGED <<pending, dropped>>

RelayPublishes(p, i) ==
    /\ IsNext(p, i)
    /\ Store(i)
    /\ relay' = [relay EXCEPT ![p].sent = @ \cup {i}]
    /\ UNCHANGED <<work, outbox, worker, faults>>

RelayCommits(p) ==
    /\ relay[p] # NoBatch
    /\ relay[p].sent = relay[p].batch
    /\ outbox' = outbox \ relay[p].batch
    /\ relay' = [relay EXCEPT ![p] = NoBatch]
    /\ UNCHANGED <<work, queue, worker, faults>>

(* Faulty variant: the whole batch is marked after a failure. *)
BatchMarked(p) == relay[p].batch

(* Rows marked published before a publish failed. *)
Marked(p) == relay[p].sent

(* The publish fails, or only its reply is lost: what was sent is committed. *)
RelayPublishFails(p, i) ==
    /\ IsNext(p, i)
    /\ Fault
    /\ Store(i) \/ UNCHANGED queue
    /\ outbox' = outbox \ Marked(p)
    /\ relay' = [relay EXCEPT ![p] = NoBatch]
    /\ UNCHANGED <<work, worker>>

(* The process dies or the commit fails after some rows were published. *)
RelayRollsBack(p) ==
    /\ relay[p] # NoBatch
    /\ Fault
    /\ relay' = [relay EXCEPT ![p] = NoBatch]
    /\ UNCHANGED <<work, outbox, queue, worker>>

-------------------------------------------------------------------------------
(* JetStream: explicit acknowledgement, work-queue retention. *)

(* The window matters only while the row may be published again. *)
WindowPasses(i) ==
    /\ i \in recent /\ i \in outbox
    /\ recent' = recent \ {i}
    /\ UNCHANGED <<work, outbox, relay, stored, stream, pending, dropped, worker, faults>>

Remove(m) ==
    /\ stream' = stream \ {m}
    /\ pending' = pending \ {m}
    /\ UNCHANGED <<stored, recent>>

Ack(m) == Remove(m) /\ UNCHANGED dropped

(* Faulty variant: a delivery that failed is acknowledged. *)
NakLost(m) == Ack(m)

(* The message stays pending until its delay has passed. *)
Nak(m) == UNCHANGED queue

Holds(w, m) == worker[w].pc # "idle" /\ worker[w].msg = m

(* The nak delay or ack_wait is over.  A worker that holds the message      *)
(* sends heartbeats, so this overtakes it only when it stalls.              *)
RedeliveryDue(m) ==
    /\ m \in pending
    /\ pending' = pending \ {m}
    /\ IF \E w \in Workers : Holds(w, m) THEN Fault ELSE UNCHANGED faults
    /\ UNCHANGED <<work, outbox, relay, stored, stream, recent, dropped, worker>>

(* The stream's MaxAge. *)
MessageExpires(m) ==
    /\ MayExpire
    /\ m \in stream
    /\ Remove(m)
    /\ dropped' = dropped \cup {m[1]}
    /\ UNCHANGED <<work, outbox, relay, worker, faults>>

-------------------------------------------------------------------------------
(* The worker: one delivery at a time. *)

Pull(w, m) ==
    /\ worker[w].pc = "idle"
    /\ m \in stream \ pending
    /\ Cardinality(pending) < MaxInFlight
    /\ pending' = pending \cup {m}
    /\ worker' = [worker EXCEPT ![w] = [pc |-> "input", msg |-> m]]
    /\ UNCHANGED <<work, outbox, relay, stored, stream, recent, dropped, faults>>

(* Faulty variant: a duplicate of finished work is put back. *)
DuplicatePutBack(m) == Nak(m)

(* A delivery of finished work is acknowledged without doing it again. *)
SettleDuplicate(m) == Ack(m)

FetchInput(w) ==
    LET m == worker[w].msg IN
    /\ worker[w].pc = "input"
    /\ GetExecutionInput(m[1])
    /\ IF Terminal(m[1])
       THEN SettleDuplicate(m) /\ worker' = [worker EXCEPT ![w] = Idle]
       ELSE UNCHANGED queue /\ worker' = [worker EXCEPT ![w].pc = "executing"]
    /\ UNCHANGED <<relay, faults>>

Results == {"succeeded", "failed", "retry"}

(* executeJob always comes back with a result, at its deadline if need be;  *)
(* the control plane takes it and the message is acknowledged.              *)
Report(w, result) ==
    LET m == worker[w].msg IN
    /\ worker[w].pc = "executing"
    /\ ApplyResult(m[1], result)
    /\ Ack(m)
    /\ worker' = [worker EXCEPT ![w] = Idle]
    /\ UNCHANGED <<relay, faults>>

(* A call of the control plane fails, its reply is lost, or the final       *)
(* acknowledgement is: the effect may have happened, the message comes back. *)
DeliveryFails(w) ==
    LET m == worker[w].msg IN
    /\ Fault
    /\ \/ /\ worker[w].pc = "input"
          /\ GetExecutionInput(m[1]) \/ UNCHANGED <<work, outbox>>
       \/ /\ worker[w].pc = "executing"
          /\ UNCHANGED <<work, outbox>> \/ \E result \in Results : ApplyResult(m[1], result)
    /\ Nak(m)
    /\ worker' = [worker EXCEPT ![w] = Idle]
    /\ UNCHANGED relay

(* The process dies and is started again; its message waits for ack_wait. *)
WorkerRestarts(w) ==
    /\ worker[w].pc # "idle"
    /\ Fault
    /\ worker' = [worker EXCEPT ![w] = Idle]
    /\ UNCHANGED <<work, outbox, relay, queue>>

-------------------------------------------------------------------------------
RelayStep(p) ==
    \/ RelaySelects(p)
    \/ \E i \in Ids : RelayPublishes(p, i)
    \/ RelayCommits(p)

WorkerStep(w) ==
    \/ \E m \in stream : Pull(w, m)
    \/ FetchInput(w)
    \/ \E result \in Results : Report(w, result)

FaultStep ==
    \/ \E p \in Relays : RelayRollsBack(p) \/ \E i \in Ids : RelayPublishFails(p, i)
    \/ \E w \in Workers : DeliveryFails(w) \/ WorkerRestarts(w)

QueueStep ==
    \/ \E i \in recent : WindowPasses(i)
    \/ \E m \in stream : RedeliveryDue(m) \/ MessageExpires(m)

Next ==
    \/ \E j \in Jobs : Enqueue(j)
    \/ \E i \in Ids : SweepStaleExecutions(i)
    \/ \E p \in Relays : RelayStep(p)
    \/ \E w \in Workers : WorkerStep(w)
    \/ QueueStep
    \/ FaultStep

(* Outbox runners and the scheduler tick forever, workers pull and finish   *)
(* what they started, and JetStream redelivers what nobody holds.           *)
Fairness ==
    /\ \A p \in Relays : WF_vars(RelayStep(p))
    /\ \A w \in Workers : WF_vars(WorkerStep(w))
    /\ WF_vars(\E m \in pending : (\A w \in Workers : ~Holds(w, m)) /\ RedeliveryDue(m))
    /\ WF_vars(\E i \in Ids : ~WorkedOn(i) /\ SweepStaleExecutions(i))

Spec == Init /\ [][Next]_vars

FairSpec == Spec /\ Fairness

-------------------------------------------------------------------------------
(* Properties. *)

(* Tables, queue and workers are well typed. *)
TypeOK ==
    /\ work \in Seq(Execution)
    /\ outbox \subseteq Ids
    /\ relay \in [Relays -> [batch: SUBSET Ids, sent: SUBSET Ids]]
    /\ stored \subseteq Ids \X Nat
    /\ stream \subseteq stored
    /\ pending \subseteq stream
    /\ recent \subseteq Ids /\ dropped \subseteq Ids
    /\ \A w \in Workers :
          worker[w] = Idle \/ (worker[w].pc \in {"input", "executing"} /\ worker[w].msg \in stored)
    /\ faults \in 0..MaxFaults

(* Work is never lost: an execution that is not finished has an unpublished *)
(* outbox row or an unacknowledged message, whatever dies in between.  Only *)
(* claimed executions are swept, so queued ones depend on it.               *)
UnfinishedIsDeliverable ==
    \A i \in Ids : ~Terminal(i) => (i \in outbox \/ \E m \in stream : m[1] = i)

(* A job has one outcome: at most one of its executions is unfinished or    *)
(* succeeded, although abandoned workers report late, messages come twice   *)
(* and sweeps replace executions.                                            *)
OneOutcomePerJob ==
    \A i, k \in Ids :
        (work[i].job = work[k].job /\ work[i].state # "failed" /\ work[k].state # "failed") => i = k

(* Two workers run attempts of the same job at a time only after a fault:   *)
(* relays and consumers do not duplicate work by themselves.                *)
RedundantWorkNeedsFaults ==
    \A j \in Jobs :
        Cardinality({w \in Workers : worker[w].pc = "executing" /\ work[worker[w].msg[1]].job = j})
            <= 1 + faults

(* Every job comes to an end, unless the stream dropped the message of an   *)
(* execution that nobody had claimed.                                        *)
JobsEnd ==
    \A j \in Jobs :
        (\E i \in Ids : work[i].job = j) ~>
            [](\A i \in Ids : work[i].job = j =>
                  (Terminal(i) \/ (work[i].state = "queued" /\ i \in dropped)))

(* Duplicates and naks do not circulate forever: the queue drains. *)
QueueDrains == []<>(stream = {} /\ outbox = {})

(* A claimed execution ends even if its message is gone: the sweep finds it. *)
RunningEnds ==
    \A i \in 1..(Cardinality(Jobs) * MaxAttempts) :
        (i \in Ids /\ work[i].state = "running") ~> (i \in Ids /\ Terminal(i))

JobOf(tries) ==
    LET open == {i \in tries : ~Terminal(i)}
        succeeded == {i \in tries : work[i].state = "succeeded"}
    IN [outcome |-> IF tries = {} THEN "none"
                    ELSE IF Cardinality(open \cup succeeded) > 1 THEN "forked"
                    ELSE IF open # {} THEN "open"
                    ELSE IF succeeded # {} THEN "succeeded"
                    ELSE "failed",
        tries |-> Cardinality(tries)]

Contract == INSTANCE JobContract WITH
    job <- [j \in Jobs |-> JobOf({i \in Ids : work[i].job = j})]

(* The outbox, the queue and the workers implement the contract of a job    *)
(* although every hop between them may happen twice or be lost.             *)
WorkKeepsContract == Contract!Spec

(* docs/architecture.md:41: "Queued work is never expired by age, because   *)
(* queue delay may represent legitimate capacity pressure."                 *)
QueuedNeverExpires ==
    \A i \in Ids : work[i].state = "queued" => (i \in outbox \/ \E m \in stream : m[1] = i)

===============================================================================
