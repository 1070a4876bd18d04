---------------------------- MODULE WorkQueueProofs ----------------------------
(***************************************************************************)
(* Proofs about WorkQueue: what at-least-once delivery through the outbox,  *)
(* JetStream and the workers can and cannot do to a job, for any number of  *)
(* jobs, workers, outbox runners and faults.                                 *)
(***************************************************************************)
EXTENDS WorkQueue, FunctionTheorems, FiniteSetTheorems, SequenceTheorems, TLAPS

(* Types in full: the worker table is a function, and JetStream has stored  *)
(* finitely many messages, so that copies can be counted.                   *)
Shape ==
    /\ TypeOK
    /\ worker \in [Workers -> [pc: {"idle", "input", "executing"}, msg: Nat \X Nat]]
    /\ IsFiniteSet(stored)

(* How a step may treat the table of executions: jobs and attempts stay,    *)
(* finished executions stay as they are, and a new execution comes when     *)
(* every other try of its job has failed.                                    *)
Grows ==
    /\ work' \in Seq(Execution)
    /\ Len(work') \in {Len(work), Len(work) + 1}
    /\ \A k \in Ids :
          /\ work'[k].job = work[k].job /\ work'[k].attempt = work[k].attempt
          /\ Terminal(k) => work'[k] = work[k]
    /\ \A k \in Ids, n \in Ids' \ Ids :
          work'[k].job = work'[n].job => work'[k].state = "failed"

(* An execution comes with its outbox row. *)
RowsAdded == outbox' = outbox \cup (Ids' \ Ids)

-------------------------------------------------------------------------------
(* The table of executions. *)

(* A state is written in one row. *)
LEMMA StateWritten ==
    ASSUME work \in Seq(Execution), NEW i \in Ids,
           NEW s \in {"queued", "running", "succeeded", "failed"}
    PROVE  /\ [work EXCEPT ![i].state = s] \in Seq(Execution)
           /\ Len([work EXCEPT ![i].state = s]) = Len(work)
           /\ \A k \in Ids : k # i => [work EXCEPT ![i].state = s][k] = work[k]
           /\ [work EXCEPT ![i].state = s][i]
                 = [job |-> work[i].job, attempt |-> work[i].attempt, state |-> s]
  <1> DEFINE x == [work[i] EXCEPT !.state = s]
  <1>1. work[i] \in Execution
    BY DEF Ids
  <1>2. x \in Execution /\ x = [job |-> work[i].job, attempt |-> work[i].attempt, state |-> s]
    BY <1>1 DEF Execution
  <1>3. [work EXCEPT ![i].state = s] = [work EXCEPT ![i] = x]
    OBVIOUS
  <1> HIDE DEF x
  <1>4. QED
    BY <1>2, <1>3, ExceptSeq DEF Ids

LEMMA RowAppended ==
    ASSUME NEW t \in Seq(Execution), NEW x \in Execution
    PROVE  /\ Append(t, x) \in Seq(Execution)
           /\ Len(Append(t, x)) = Len(t) + 1
           /\ \A k \in 1..Len(t) : Append(t, x)[k] = t[k]
           /\ Append(t, x)[Len(t) + 1] = x
  OBVIOUS

(* Execution i is finished after the step. *)
Ended(i) == work'[i].state \in {"succeeded", "failed"}

(* An execution that the step creates is another try of i's job. *)
SameJob(i) == \A n \in Ids' \ Ids : work'[n].job = work[i].job

(* The execution fails and is tried again. *)
Retries(i) == Ends(i, "retry")

(* What a retry does to the table. *)
LEMMA RetriedTable ==
    ASSUME Shape, NEW i \in Ids, Retries(i)
    PROVE  /\ work' \in Seq(Execution)
           /\ Len(work') = Len(work) + 1
           /\ \A k \in Ids : k # i => work'[k] = work[k]
           /\ work'[i] = [job |-> work[i].job, attempt |-> work[i].attempt, state |-> "failed"]
           /\ work'[Len(work) + 1] = [job |-> work[i].job, attempt |-> work[i].attempt + 1,
                                      state |-> "queued"]
           /\ work[i].attempt < MaxAttempts
           /\ outbox' = outbox \cup {Len(work) + 1}
  <1> DEFINE t == [work EXCEPT ![i].state = "failed"]
             x == [job |-> work[i].job, attempt |-> work[i].attempt + 1, state |-> "queued"]
  <1>1. work \in Seq(Execution) /\ work[i] \in Execution /\ work[i].attempt < MaxAttempts
    BY DEF Shape, TypeOK, Ids, Ends, Retries, AttemptsLeft
  <1>2. x \in Execution
    BY <1>1, LimitsAssumption DEF Execution
  <1>3. work' = Append(t, x) /\ outbox' = outbox \cup {Len(work) + 1}
    BY DEF Ends, Retries
  <1>4. /\ t \in Seq(Execution) /\ Len(t) = Len(work)
        /\ \A k \in Ids : k # i => t[k] = work[k]
        /\ t[i] = [job |-> work[i].job, attempt |-> work[i].attempt, state |-> "failed"]
    BY <1>1, StateWritten
  <1> HIDE DEF t, x
  <1>5. /\ work' \in Seq(Execution) /\ Len(work') = Len(work) + 1
        /\ \A k \in Ids : work'[k] = t[k]
        /\ work'[Len(work) + 1] = x
    <2>1. /\ Append(t, x) \in Seq(Execution) /\ Len(Append(t, x)) = Len(t) + 1
          /\ \A k \in 1..Len(t) : Append(t, x)[k] = t[k]
          /\ Append(t, x)[Len(t) + 1] = x
      BY <1>2, <1>4, RowAppended
    <2>2. QED
      BY <1>3, <1>4, <2>1 DEF Ids
  <1>6. QED
    BY <1>1, <1>3, <1>4, <1>5 DEF x

LEMMA EnqueueGrows ==
    ASSUME Shape, NEW j \in Jobs, Enqueue(j)
    PROVE  Grows /\ RowsAdded /\ \A n \in Ids' \ Ids : work'[n].job = j
  <1> DEFINE x == [job |-> j, attempt |-> 1, state |-> "queued"]
  <1>1. work \in Seq(Execution) /\ x \in Execution
    BY LimitsAssumption DEF Shape, TypeOK, Execution
  <1>2. work' = Append(work, x) /\ outbox' = outbox \cup {Len(work) + 1}
    BY DEF Enqueue
  <1>3. x.job = j
    OBVIOUS
  <1> HIDE DEF x
  <1>4. /\ work' \in Seq(Execution) /\ Len(work') = Len(work) + 1
        /\ \A k \in Ids : work'[k] = work[k]
        /\ work'[Len(work) + 1] = x
    BY <1>1, <1>2, RowAppended DEF Ids
  <1>5. Ids' \ Ids = {Len(work) + 1}
    BY <1>1, <1>4 DEF Ids
  <1>6. \A k \in Ids : work'[k].job # x.job
    BY <1>3, <1>4 DEF Enqueue
  <1>7. QED
    BY <1>2, <1>3, <1>4, <1>5, <1>6 DEF Grows, RowsAdded

LEMMA EndsGrows ==
    ASSUME Shape, OneOutcomePerJob, NEW i \in Ids, ~Terminal(i),
           NEW r \in {"succeeded", "failed", "retry"}, Ends(i, r)
    PROVE  Grows /\ RowsAdded /\ Ended(i) /\ SameJob(i)
  <1>0. work \in Seq(Execution) /\ \A k \in Ids : work[k] \in Execution
    BY DEF Shape, TypeOK, Ids
  <1>1. CASE r = "retry"
    <2>0. Retries(i)
      BY <1>1 DEF Ends, Retries
    <2>1. /\ work' \in Seq(Execution)
          /\ Len(work') = Len(work) + 1
          /\ \A k \in Ids : k # i => work'[k] = work[k]
          /\ work'[i] = [job |-> work[i].job, attempt |-> work[i].attempt, state |-> "failed"]
          /\ work'[Len(work) + 1] = [job |-> work[i].job, attempt |-> work[i].attempt + 1,
                                     state |-> "queued"]
          /\ outbox' = outbox \cup {Len(work) + 1}
      BY <2>0, RetriedTable
    <2>2. Ids' \ Ids = {Len(work) + 1}
      BY <1>0, <2>1 DEF Ids
    <2>3. \A k \in Ids : work'[k].job = work[i].job => work'[k].state = "failed"
      BY <2>1 DEF OneOutcomePerJob, Terminal
    <2>4. QED
      BY <1>0, <2>1, <2>2, <2>3 DEF Grows, RowsAdded, Terminal, Ended, SameJob
  <1>2. CASE r \in {"succeeded", "failed"}
    <2>1. work' = [work EXCEPT ![i].state = r] /\ outbox' = outbox
      BY <1>2 DEF Ends
    <2>2. /\ work' \in Seq(Execution) /\ Len(work') = Len(work)
          /\ \A k \in Ids : k # i => work'[k] = work[k]
          /\ work'[i] = [job |-> work[i].job, attempt |-> work[i].attempt, state |-> r]
      <3>1. CASE r = "succeeded"
        <4>1. work' = [work EXCEPT ![i].state = "succeeded"]
          BY <2>1, <3>1
        <4>2. /\ work' \in Seq(Execution) /\ Len(work') = Len(work)
              /\ \A k \in Ids : k # i => work'[k] = work[k]
              /\ work'[i] = [job |-> work[i].job, attempt |-> work[i].attempt,
                             state |-> "succeeded"]
          BY <1>0, <4>1, StateWritten
        <4>3. QED
          BY <3>1, <4>2
      <3>2. CASE r = "failed"
        <4>1. work' = [work EXCEPT ![i].state = "failed"]
          BY <2>1, <3>2
        <4>2. /\ work' \in Seq(Execution) /\ Len(work') = Len(work)
              /\ \A k \in Ids : k # i => work'[k] = work[k]
              /\ work'[i] = [job |-> work[i].job, attempt |-> work[i].attempt,
                             state |-> "failed"]
          BY <1>0, <4>1, StateWritten
        <4>3. QED
          BY <3>2, <4>2
      <3>3. QED
        BY <1>2, <3>1, <3>2
    <2>3. Ids' = Ids /\ Ids' \ Ids = {} /\ outbox' = outbox \cup (Ids' \ Ids)
      BY <2>1, <2>2 DEF Ids
    <2>4. Ended(i)
      BY <1>2, <2>2 DEF Ended
    <2>5. Grows /\ RowsAdded
      <3>1. \A k \in Ids : /\ work'[k].job = work[k].job /\ work'[k].attempt = work[k].attempt
                           /\ Terminal(k) => work'[k] = work[k]
        BY <2>2
      <3>2. QED
        BY <2>2, <2>3, <3>1 DEF Grows, RowsAdded
    <2>6. QED
      BY <2>3, <2>4, <2>5 DEF SameJob
  <1>3. QED
    BY <1>1, <1>2

LEMMA StayGrows ==
    ASSUME Shape, UNCHANGED <<work, outbox>>
    PROVE  Grows /\ RowsAdded
  BY DEF Shape, TypeOK, Grows, RowsAdded, Ids

LEMMA ResultGrows ==
    ASSUME Shape, OneOutcomePerJob, NEW i \in Ids, NEW r \in Results, ApplyResult(i, r)
    PROVE  Grows /\ RowsAdded /\ Ended(i) /\ SameJob(i)
  <1>1. CASE Accepts(i)
    BY <1>1, EndsGrows DEF ApplyResult, Accepts, Results
  <1>2. CASE ~Accepts(i)
    BY <1>2, StayGrows DEF ApplyResult, Accepts, Terminal, Ended, SameJob, Ids
  <1>3. QED
    BY <1>1, <1>2

LEMMA InputGrows ==
    ASSUME Shape, NEW i \in Ids, GetExecutionInput(i)
    PROVE  /\ Grows /\ RowsAdded /\ Ids' = Ids /\ outbox' = outbox
           /\ \A k \in Ids : Terminal(k)' <=> Terminal(k)
  <1>0. work \in Seq(Execution)
    BY DEF Shape, TypeOK
  <1>1. CASE work[i].state = "queued"
    <2>1. work' = [work EXCEPT ![i].state = "running"] /\ outbox' = outbox
      BY <1>1 DEF GetExecutionInput
    <2>2. /\ work' \in Seq(Execution) /\ Len(work') = Len(work)
          /\ \A k \in Ids : k # i => work'[k] = work[k]
          /\ work'[i] = [job |-> work[i].job, attempt |-> work[i].attempt, state |-> "running"]
      BY <1>0, <2>1, StateWritten
    <2>3. Ids' = Ids /\ Ids' \ Ids = {} /\ outbox' = outbox \cup (Ids' \ Ids)
      BY <2>1, <2>2 DEF Ids
    <2>4. \A k \in Ids : Terminal(k)' <=> Terminal(k)
      BY <1>1, <2>2 DEF Terminal
    <2>5. Grows /\ RowsAdded
      <3>1. \A k \in Ids : /\ work'[k].job = work[k].job /\ work'[k].attempt = work[k].attempt
                           /\ Terminal(k) => work'[k] = work[k]
        BY <1>1, <2>2 DEF Terminal
      <3>2. QED
        BY <2>2, <2>3, <3>1 DEF Grows, RowsAdded
    <2>6. QED
      BY <2>1, <2>3, <2>4, <2>5
  <1>2. CASE work[i].state # "queued"
    BY <1>2, StayGrows DEF GetExecutionInput, Ids, Terminal
  <1>3. QED
    BY <1>1, <1>2

LEMMA SweepGrows ==
    ASSUME Shape, OneOutcomePerJob, NEW i \in Ids, SweepStaleExecutions(i)
    PROVE  Grows /\ RowsAdded /\ Ended(i) /\ SameJob(i)
  <1>1. ~Terminal(i)
    BY DEF SweepStaleExecutions, Sweepable, Terminal
  <1>2. QED
    BY <1>1, EndsGrows DEF SweepStaleExecutions

(* A step that creates no execution out of turn leaves a job one outcome. *)
LEMMA OutcomeKept ==
    ASSUME Shape, OneOutcomePerJob, Grows
    PROVE  OneOutcomePerJob'
  <1>0. \A k \in Ids : work[k] \in Execution
    BY DEF Shape, TypeOK, Ids
  <1> SUFFICES ASSUME NEW i \in Ids', NEW k \in Ids', work'[i].job = work'[k].job,
                      work'[i].state # "failed", work'[k].state # "failed"
               PROVE  i = k
    BY DEF OneOutcomePerJob
  <1>1. CASE i \in Ids /\ k \in Ids
    <2>1. work[i].state # "failed" /\ work[k].state # "failed"
      BY <1>1 DEF Grows, Terminal
    <2>2. QED
      BY <1>1, <2>1 DEF Grows, OneOutcomePerJob
  <1>2. CASE i \notin Ids /\ k \notin Ids
    BY <1>2 DEF Grows, Ids, Shape, TypeOK
  <1>3. CASE i \in Ids /\ k \notin Ids
    BY <1>3 DEF Grows
  <1>4. CASE i \notin Ids /\ k \in Ids
    BY <1>4 DEF Grows
  <1>5. QED
    BY <1>1, <1>2, <1>3, <1>4

LEMMA IdsGrow ==
    ASSUME Shape, Grows
    PROVE  /\ Ids \subseteq Ids' /\ Len(work) \in Nat
           /\ \A k \in Ids : Terminal(k) => Terminal(k)'
  BY DEF Shape, TypeOK, Grows, Ids, Terminal

-------------------------------------------------------------------------------
(* Types. *)

LEMMA ShapeInit == Init => Shape
  <1> SUFFICES ASSUME Init PROVE Shape
    OBVIOUS
  <1>1. IsFiniteSet(stored)
    BY FS_EmptySet DEF Init
  <1>2. worker \in [Workers -> [pc: {"idle", "input", "executing"}, msg: Nat \X Nat]]
    BY DEF Init, Idle
  <1>3. TypeOK
    BY FaultsAssumption DEF Init, TypeOK, NoBatch, Idle
  <1>4. QED
    BY <1>1, <1>2, <1>3 DEF Shape

(* Storing a message. *)
LEMMA StoreShape ==
    ASSUME Shape, NEW i \in Ids, Store(i)
    PROVE  /\ stored' \subseteq Ids \X Nat /\ IsFiniteSet(stored')
           /\ stream' \subseteq stored' /\ pending' \subseteq stream'
           /\ recent' \subseteq Ids /\ dropped' \subseteq Ids
           /\ stored \subseteq stored' /\ stream \subseteq stream'
           /\ recent' = recent \cup {i} /\ pending' = pending /\ dropped' = dropped
           /\ i \notin recent => \E m \in stream' :
                 /\ m[1] = i
                 /\ stored' = stored \cup {m} /\ stream' = stream \cup {m}
           /\ i \in recent => stored' = stored /\ stream' = stream
  <1> DEFINE m == <<i, Cardinality(Copies(i))>>
  <1>1. Copies(i) \in SUBSET stored
    BY DEF Copies
  <1>2. Cardinality(Copies(i)) \in Nat
    BY <1>1, FS_Subset, FS_CardinalityType DEF Shape
  <1>3. m \in Ids \X Nat /\ m[1] = i
    BY <1>2
  <1>4. IsFiniteSet(stored \cup {m})
    BY FS_AddElement DEF Shape
  <1>5. /\ stored' = IF i \in recent THEN stored ELSE stored \cup {m}
        /\ stream' = IF i \in recent THEN stream ELSE stream \cup {m}
        /\ recent' = recent \cup {i} /\ pending' = pending /\ dropped' = dropped
    BY DEF Store
  <1> HIDE DEF m
  <1>6. QED
    BY <1>3, <1>4, <1>5 DEF Shape, TypeOK

(* Steps of the control plane's transactions keep the types. *)
LEMMA TableShape ==
    ASSUME Shape, Grows, RowsAdded, UNCHANGED <<relay, queue>>,
           worker' \in [Workers -> [pc: {"idle", "input", "executing"}, msg: Nat \X Nat]],
           \A w \in Workers :
              worker'[w] = Idle
              \/ (worker'[w].pc \in {"input", "executing"} /\ worker'[w].msg \in stored),
           faults' \in 0..MaxFaults
    PROVE  Shape'
  <1>1. Ids \subseteq Ids'
    BY IdsGrow
  <1>2. work' \in Seq(Execution) /\ outbox' \subseteq Ids'
    BY <1>1 DEF Grows, RowsAdded, Shape, TypeOK
  <1>3. relay' \in [Relays -> [batch: SUBSET Ids', sent: SUBSET Ids']]
    BY <1>1 DEF Shape, TypeOK
  <1>4. stored' \subseteq Ids' \X Nat
    BY <1>1 DEF Shape, TypeOK, queue
  <1>5. QED
    BY <1>1, <1>2, <1>3, <1>4 DEF Shape, TypeOK, queue

(* Whatever becomes of a worker, it is idle or holds a stored message. *)
LEMMA WorkerShape ==
    ASSUME Shape, NEW w \in Workers,
           \/ worker' = worker
           \/ worker' = [worker EXCEPT ![w] = Idle]
           \/ worker[w].pc # "idle" /\ worker' = [worker EXCEPT ![w].pc = "executing"]
           \/ \E m \in stored : worker' = [worker EXCEPT ![w] = [pc |-> "input", msg |-> m]]
    PROVE  /\ worker' \in [Workers -> [pc: {"idle", "input", "executing"}, msg: Nat \X Nat]]
           /\ \A v \in Workers :
                 worker'[v] = Idle
                 \/ (worker'[v].pc \in {"input", "executing"} /\ worker'[v].msg \in stored)
  <1>0. stored \subseteq Nat \X Nat /\ Idle \in [pc: {"idle", "input", "executing"}, msg: Nat \X Nat]
    BY DEF Shape, TypeOK, Idle, Ids
  <1>1. CASE worker' = worker
    BY <1>1 DEF Shape, TypeOK
  <1>2. CASE worker' = [worker EXCEPT ![w] = Idle]
    BY <1>0, <1>2 DEF Shape, TypeOK
  <1>3. CASE worker[w].pc # "idle" /\ worker' = [worker EXCEPT ![w].pc = "executing"]
    <2>1. worker[w].msg \in stored
      BY <1>3 DEF Shape, TypeOK, Idle
    <2>2. QED
      BY <1>0, <1>3, <2>1 DEF Shape, TypeOK
  <1>4. ASSUME NEW m \in stored, worker' = [worker EXCEPT ![w] = [pc |-> "input", msg |-> m]]
        PROVE  /\ worker' \in [Workers -> [pc: {"idle", "input", "executing"}, msg: Nat \X Nat]]
               /\ \A v \in Workers :
                     worker'[v] = Idle
                     \/ (worker'[v].pc \in {"input", "executing"} /\ worker'[v].msg \in stored)
    BY <1>0, <1>4 DEF Shape, TypeOK
  <1>5. QED
    BY <1>1, <1>2, <1>3, <1>4

(* The execution a busy worker works on exists. *)
LEMMA HeldExists ==
    ASSUME Shape, NEW w \in Workers, worker[w].pc # "idle"
    PROVE  /\ worker[w].msg \in stored /\ worker[w].msg[1] \in Ids
           /\ worker[w].pc \in {"input", "executing"}
  BY DEF Shape, TypeOK, Idle

LEMMA FaultType == ASSUME Shape, Fault PROVE faults' \in 0..MaxFaults /\ faults' = faults + 1
  BY FaultsAssumption DEF Fault, Shape, TypeOK

(* A worker goes on to its next delivery. *)
Leaves(w) == worker' = [worker EXCEPT ![w] = Idle]

(* A delivery that ends with an acknowledgement or without it. *)
LEMMA DeliveryShape ==
    ASSUME Shape, Grows, RowsAdded, NEW w \in Workers, worker[w].pc # "idle",
           Ack(worker[w].msg) \/ UNCHANGED queue,
           Leaves(w) \/ worker' = [worker EXCEPT ![w].pc = "executing"],
           relay' = relay, faults' \in 0..MaxFaults
    PROVE  Shape'
  <1>1. Ids \subseteq Ids'
    BY IdsGrow
  <1>2. work' \in Seq(Execution) /\ outbox' \subseteq Ids'
    BY <1>1 DEF Grows, RowsAdded, Shape, TypeOK
  <1>3. relay' \in [Relays -> [batch: SUBSET Ids', sent: SUBSET Ids']]
    BY <1>1 DEF Shape, TypeOK
  <1>4. /\ stored' = stored /\ stream' \subseteq stream /\ pending' \subseteq stream'
        /\ recent' = recent /\ dropped' = dropped
    BY DEF Ack, Remove, queue, Shape, TypeOK
  <1>5. stored' \subseteq Ids' \X Nat
    BY <1>1, <1>4 DEF Shape, TypeOK
  <1>6. /\ worker' \in [Workers -> [pc: {"idle", "input", "executing"}, msg: Nat \X Nat]]
        /\ \A v \in Workers :
              worker'[v] = Idle
              \/ (worker'[v].pc \in {"input", "executing"} /\ worker'[v].msg \in stored')
    BY <1>4, WorkerShape DEF Leaves
  <1>7. QED
    BY <1>1, <1>2, <1>3, <1>4, <1>5, <1>6 DEF Shape, TypeOK

(* The ways a delivery goes on: an acknowledgement is sent only for work    *)
(* that is finished by then.                                                 *)
Delivers(w) ==
    \/ FetchInput(w)
    \/ \E result \in Results : Report(w, result)
    \/ DeliveryFails(w)
    \/ WorkerRestarts(w)

LEMMA DeliveryStep ==
    ASSUME Shape, OneOutcomePerJob, NEW w \in Workers, Delivers(w)
    PROVE  /\ Grows /\ RowsAdded /\ worker[w].pc # "idle"
           /\ \/ Leaves(w)
              \/ /\ worker' = [worker EXCEPT ![w].pc = "executing"]
                 /\ ~Terminal(worker[w].msg[1]) /\ UNCHANGED queue /\ Ids' = Ids
           /\ \A n \in Ids' \ Ids :
                 /\ worker[w].pc = "executing" /\ Ended(worker[w].msg[1])
                 /\ work'[n].job = work[worker[w].msg[1]].job
           /\ (Ack(worker[w].msg) /\ Ended(worker[w].msg[1])) \/ UNCHANGED queue
           /\ relay' = relay
           /\ faults' \in 0..MaxFaults
  <1> DEFINE m == worker[w].msg
  <1>1. worker[w].pc # "idle"
    BY DEF Delivers, FetchInput, Report, DeliveryFails, WorkerRestarts
  <1>2. m[1] \in Ids
    BY <1>1, HeldExists
  <1>3. CASE FetchInput(w)
    <2>1. GetExecutionInput(m[1]) /\ relay' = relay /\ faults' = faults
      BY <1>3 DEF FetchInput
    <2>2. Grows /\ RowsAdded /\ (Terminal(m[1]) => Ended(m[1])) /\ Ids' = Ids
      BY <1>2, <2>1, InputGrows DEF Grows, Ended, Terminal
    <2>3. \/ Terminal(m[1]) /\ Ack(m) /\ Leaves(w)
          \/ /\ UNCHANGED queue /\ worker' = [worker EXCEPT ![w].pc = "executing"]
             /\ ~Terminal(m[1])
      BY <1>3 DEF FetchInput, SettleDuplicate, Leaves
    <2>4. QED
      BY <1>1, <2>1, <2>2, <2>3 DEF Shape, TypeOK
  <1>4. ASSUME NEW result \in Results, Report(w, result)
        PROVE  /\ Grows /\ RowsAdded /\ Leaves(w) /\ Ack(m) /\ Ended(m[1])
               /\ relay' = relay /\ faults' = faults /\ worker[w].pc = "executing"
               /\ SameJob(m[1])
    <2>1. ApplyResult(m[1], result)
      BY <1>4 DEF Report
    <2>2. Grows /\ RowsAdded /\ Ended(m[1]) /\ SameJob(m[1])
      BY <1>2, <2>1, ResultGrows
    <2>3. QED
      BY <1>4, <2>2 DEF Report, Leaves
  <1>5. CASE DeliveryFails(w)
    <2>1. \/ GetExecutionInput(m[1])
          \/ UNCHANGED <<work, outbox>>
          \/ worker[w].pc = "executing" /\ \E result \in Results : ApplyResult(m[1], result)
      BY <1>5 DEF DeliveryFails
    <2>2. /\ Grows /\ RowsAdded
          /\ Ids' = Ids \/ (worker[w].pc = "executing" /\ Ended(m[1]) /\ SameJob(m[1]))
      BY <1>2, <2>1, InputGrows, StayGrows, ResultGrows DEF Ids
    <2>3. Leaves(w) /\ UNCHANGED queue /\ relay' = relay /\ Fault
      BY <1>5 DEF DeliveryFails, Leaves, Nak
    <2>4. QED
      BY <1>1, <2>2, <2>3, FaultType DEF SameJob
  <1>6. CASE WorkerRestarts(w)
    <2>1. Leaves(w) /\ UNCHANGED queue /\ relay' = relay /\ Fault /\ UNCHANGED <<work, outbox>>
      BY <1>6 DEF WorkerRestarts, Leaves
    <2>2. QED
      BY <1>1, <2>1, FaultType, StayGrows DEF Ids
  <1>7. QED
    BY <1>1, <1>3, <1>4, <1>5, <1>6 DEF Delivers, Shape, TypeOK, SameJob

(* The actions by what they touch. *)
LEMMA Steps ==
    ASSUME Next
    PROVE  \/ \E j \in Jobs : Enqueue(j)
           \/ \E i \in Ids : SweepStaleExecutions(i)
           \/ \E p \in Relays : RelaySelects(p) \/ RelayCommits(p) \/ RelayRollsBack(p)
           \/ \E p \in Relays : \E i \in Ids : RelayPublishes(p, i) \/ RelayPublishFails(p, i)
           \/ \E i \in recent : WindowPasses(i)
           \/ \E m \in stream : RedeliveryDue(m) \/ MessageExpires(m)
           \/ \E w \in Workers : \E m \in stream : Pull(w, m)
           \/ \E w \in Workers : Delivers(w)
  BY DEF Next, RelayStep, WorkerStep, FaultStep, QueueStep, Delivers

LEMMA RelayShape ==
    ASSUME Shape, NEW p \in Relays,
           \/ Selectable(p) \subseteq Ids /\ relay' = [relay EXCEPT ![p].batch = Selectable(p)]
           \/ relay' = [relay EXCEPT ![p] = NoBatch]
           \/ \E i \in Ids : relay' = [relay EXCEPT ![p].sent = @ \cup {i}]
    PROVE  relay' \in [Relays -> [batch: SUBSET Ids, sent: SUBSET Ids]]
  <1> DEFINE T == [batch: SUBSET Ids, sent: SUBSET Ids]
  <1>0. relay \in [Relays -> T] /\ relay[p] \in T /\ NoBatch \in T
    BY DEF Shape, TypeOK, NoBatch
  <1>1. CASE relay' = [relay EXCEPT ![p] = NoBatch]
    BY <1>0, <1>1
  <1>2. CASE Selectable(p) \subseteq Ids /\ relay' = [relay EXCEPT ![p].batch = Selectable(p)]
    <2>1. [relay[p] EXCEPT !.batch = Selectable(p)] \in T
      BY <1>0, <1>2
    <2>2. QED
      BY <1>0, <1>2, <2>1
  <1>3. ASSUME NEW i \in Ids, relay' = [relay EXCEPT ![p].sent = @ \cup {i}]
        PROVE  relay' \in [Relays -> T]
    <2>1. [relay[p] EXCEPT !.sent = @ \cup {i}] \in T
      BY <1>0
    <2>2. QED
      BY <1>0, <1>3, <2>1
  <1>4. QED
    BY <1>1, <1>2, <1>3

LEMMA ShapeStep ==
    ASSUME Shape, OneOutcomePerJob, Next
    PROVE  Shape' /\ Grows
  <1>1. ASSUME NEW j \in Jobs, Enqueue(j) PROVE Shape' /\ Grows
    <2>1. UNCHANGED <<relay, queue, worker, faults>>
      BY <1>1 DEF Enqueue
    <2>2. Grows /\ RowsAdded
      BY <1>1, EnqueueGrows
    <2>3. QED
      BY <2>1, <2>2, TableShape DEF Shape, TypeOK
  <1>2. ASSUME NEW i \in Ids, SweepStaleExecutions(i) PROVE Shape' /\ Grows
    <2>1. UNCHANGED <<relay, queue, worker>> /\ (Fault \/ faults' = faults)
      BY <1>2 DEF SweepStaleExecutions
    <2>2. Grows /\ RowsAdded
      BY <1>2, SweepGrows
    <2>3. faults' \in 0..MaxFaults
      BY <2>1, FaultType DEF Shape, TypeOK
    <2>4. QED
      BY <2>1, <2>2, <2>3, TableShape DEF Shape, TypeOK
  <1>3. ASSUME NEW p \in Relays, RelaySelects(p) \/ RelayCommits(p) \/ RelayRollsBack(p)
        PROVE  Shape' /\ Grows
    <2>1. UNCHANGED <<work, queue, worker>> /\ outbox' \subseteq outbox /\ (Fault \/ faults' = faults)
      BY <1>3 DEF RelaySelects, RelayCommits, RelayRollsBack
    <2>2. relay' = [relay EXCEPT ![p].batch = Selectable(p)] \/ relay' = [relay EXCEPT ![p] = NoBatch]
      BY <1>3 DEF RelaySelects, RelayCommits, RelayRollsBack
    <2>3. Selectable(p) \subseteq Ids
      BY DEF Selectable, Shape, TypeOK
    <2>4. relay' \in [Relays -> [batch: SUBSET Ids, sent: SUBSET Ids]]
      BY <2>2, <2>3, RelayShape
    <2>5. faults' \in 0..MaxFaults
      BY <2>1, FaultType DEF Shape, TypeOK
    <2>6. Ids' = Ids /\ Grows
      BY <2>1 DEF Ids, Grows, Shape, TypeOK
    <2>7. QED
      BY <2>1, <2>4, <2>5, <2>6 DEF Shape, TypeOK, queue
  <1>4. ASSUME NEW p \in Relays, NEW i \in Ids, RelayPublishes(p, i) \/ RelayPublishFails(p, i)
        PROVE  Shape' /\ Grows
    <2>1. UNCHANGED <<work, worker>> /\ outbox' \subseteq outbox /\ (Fault \/ faults' = faults)
      BY <1>4 DEF RelayPublishes, RelayPublishFails
    <2>2. relay' = [relay EXCEPT ![p].sent = @ \cup {i}] \/ relay' = [relay EXCEPT ![p] = NoBatch]
      BY <1>4 DEF RelayPublishes, RelayPublishFails
    <2>3. relay' \in [Relays -> [batch: SUBSET Ids, sent: SUBSET Ids]]
      BY <2>2, RelayShape
    <2>4. Store(i) \/ UNCHANGED queue
      BY <1>4 DEF RelayPublishes, RelayPublishFails
    <2>5. /\ stored' \subseteq Ids \X Nat /\ IsFiniteSet(stored') /\ stored \subseteq stored'
          /\ stream' \subseteq stored' /\ pending' \subseteq stream'
          /\ recent' \subseteq Ids /\ dropped' \subseteq Ids
      BY <2>4, StoreShape DEF queue, Shape, TypeOK
    <2>6. faults' \in 0..MaxFaults
      BY <2>1, FaultType DEF Shape, TypeOK
    <2>7. Ids' = Ids /\ Grows
      BY <2>1 DEF Ids, Grows, Shape, TypeOK
    <2>8. QED
      BY <2>1, <2>3, <2>5, <2>6, <2>7 DEF Shape, TypeOK
  <1>5. ASSUME NEW i \in recent, WindowPasses(i) PROVE Shape' /\ Grows
    BY <1>5 DEF WindowPasses, Shape, TypeOK, Grows, Ids
  <1>6. ASSUME NEW m \in stream, RedeliveryDue(m) \/ MessageExpires(m) PROVE Shape' /\ Grows
    <2>1. UNCHANGED <<work, outbox, relay, stored, recent, worker>> /\ (Fault \/ faults' = faults)
      BY <1>6 DEF RedeliveryDue, MessageExpires, Remove
    <2>2. faults' \in 0..MaxFaults
      BY <2>1, FaultType DEF Shape, TypeOK
    <2>3. m[1] \in Ids
      BY DEF Shape, TypeOK
    <2>4. stream' \subseteq stored /\ pending' \subseteq stream' /\ dropped' \subseteq Ids
      BY <1>6, <2>3 DEF RedeliveryDue, MessageExpires, Remove, Shape, TypeOK
    <2>5. Ids' = Ids /\ Grows
      BY <2>1 DEF Ids, Grows, Shape, TypeOK
    <2>6. QED
      BY <2>1, <2>2, <2>4, <2>5 DEF Shape, TypeOK
  <1>7. ASSUME NEW w \in Workers, NEW m \in stream, Pull(w, m) PROVE Shape' /\ Grows
    <2>1. /\ UNCHANGED <<work, outbox, relay, stored, stream, recent, dropped, faults>>
          /\ m \in stored /\ pending' = pending \cup {m}
          /\ worker' = [worker EXCEPT ![w] = [pc |-> "input", msg |-> m]]
      BY <1>7 DEF Pull, Shape, TypeOK
    <2>2. /\ worker' \in [Workers -> [pc: {"idle", "input", "executing"}, msg: Nat \X Nat]]
          /\ \A v \in Workers :
                worker'[v] = Idle
                \/ (worker'[v].pc \in {"input", "executing"} /\ worker'[v].msg \in stored)
      BY <2>1, WorkerShape
    <2>3. Ids' = Ids /\ Grows
      BY <2>1 DEF Ids, Grows, Shape, TypeOK
    <2>4. QED
      BY <2>1, <2>2, <2>3 DEF Shape, TypeOK
  <1>8. ASSUME NEW w \in Workers, Delivers(w) PROVE Shape' /\ Grows
    BY <1>8, DeliveryStep, DeliveryShape
  <1>9. QED
    BY <1>1, <1>2, <1>3, <1>4, <1>5, <1>6, <1>7, <1>8, Steps

-------------------------------------------------------------------------------
(* Every reachable state is well typed, for any number of jobs, workers,    *)
(* outbox runners and faults, and no job has two executions that are        *)
(* unfinished or succeeded.                                                  *)
THEOREM QueueTyped == Spec => [](Shape /\ OneOutcomePerJob)
  <1>1. Init => Shape /\ OneOutcomePerJob
    <2>1. Init => OneOutcomePerJob
      BY DEF Init, OneOutcomePerJob, Ids
    <2>2. QED
      BY <2>1, ShapeInit
  <1>2. Shape /\ OneOutcomePerJob /\ [Next]_vars => (Shape /\ OneOutcomePerJob)'
    <2> SUFFICES ASSUME Shape, OneOutcomePerJob, [Next]_vars
                 PROVE  (Shape /\ OneOutcomePerJob)'
      OBVIOUS
    <2>1. CASE Next
      BY <2>1, ShapeStep, OutcomeKept
    <2>2. CASE UNCHANGED vars
      BY <2>2 DEF vars, Shape, TypeOK, OneOutcomePerJob, Ids
    <2>3. QED
      BY <2>1, <2>2
  <1>3. QED
    BY <1>1, <1>2, PTL DEF Spec

(* A job has one outcome however often it is delivered: the invariant is    *)
(* inductive with the types alone.                                           *)
THEOREM OutcomeIsUnique == Spec => []OneOutcomePerJob
  BY QueueTyped, PTL

(* Every table, message and worker stays well typed, whatever is lost.      *)
THEOREM QueueTypes == Spec => []TypeOK
  <1>1. Shape => TypeOK
    BY DEF Shape
  <1>2. QED
    BY <1>1, QueueTyped, PTL

-------------------------------------------------------------------------------
(* Work is not lost. *)

(* JetStream took a message of execution i over and gives it up only when   *)
(* the execution is finished, or by age.                                     *)
HandedOver(i) == Terminal(i) \/ i \in dropped \/ \E m \in stream : m[1] = i

(* Whoever relies on JetStream having the message is right: the commit that *)
(* marks the row published, the open transaction that has sent it, and the  *)
(* deduplication window that will swallow it when it is sent again.         *)
NotLost ==
    /\ \A i \in Ids : i \in outbox \/ HandedOver(i)
    /\ \A i \in recent : HandedOver(i)
    /\ \A p \in Relays : \A i \in relay[p].sent : HandedOver(i)
    /\ ~MayExpire => dropped = {}

(* What was handed over stays so. *)
HandedStays ==
    /\ \A i \in Ids : Terminal(i) => Ended(i)
    /\ dropped \subseteq dropped'
    /\ \A m \in stream : m \in stream' \/ Ended(m[1]) \/ m[1] \in dropped'

LEMMA HandedOverStays ==
    ASSUME Shape, Grows, HandedStays
    PROVE  \A i \in Ids : HandedOver(i) => HandedOver(i)'
  BY DEF HandedStays, HandedOver, Terminal, Ended

LEMMA DeliveryStays ==
    ASSUME Shape, Grows, NEW w \in Workers,
           (Ack(worker[w].msg) /\ Ended(worker[w].msg[1])) \/ UNCHANGED queue
    PROVE  HandedStays /\ recent' = recent /\ dropped' = dropped
  BY DEF HandedStays, Grows, Terminal, Ended, Ack, Remove, queue

LEMMA EndedStays == ASSUME Grows PROVE \A i \in Ids : Terminal(i) => Ended(i)
  BY DEF Grows, Terminal, Ended

LEMMA NotLostStep ==
    ASSUME Shape, OneOutcomePerJob, NotLost, Next
    PROVE  NotLost'
  <1>0. Shape' /\ Grows /\ Ids \subseteq Ids' /\ \A i \in Ids : Terminal(i) => Ended(i)
    BY ShapeStep, IdsGrow, EndedStays
  <1>1. ASSUME HandedStays, RowsAdded, recent' = recent, relay' = relay, dropped' = dropped
        PROVE  NotLost'
    <2>1. \A i \in Ids : HandedOver(i) => HandedOver(i)'
      BY <1>0, <1>1, HandedOverStays
    <2>2. \A i \in Ids' : i \in outbox' \/ HandedOver(i)'
      BY <1>1, <2>1 DEF NotLost, RowsAdded
    <2>3. \A i \in recent' : HandedOver(i)'
      BY <1>1, <2>1 DEF NotLost, Shape, TypeOK
    <2>4. \A p \in Relays : \A i \in relay'[p].sent : HandedOver(i)'
      BY <1>1, <2>1 DEF NotLost, Shape, TypeOK
    <2>5. QED
      BY <1>1, <2>2, <2>3, <2>4 DEF NotLost
  <1>2. ASSUME NEW j \in Jobs, Enqueue(j) PROVE NotLost'
    <2>1. RowsAdded /\ UNCHANGED <<relay, queue>>
      BY <1>2, EnqueueGrows DEF Enqueue
    <2>2. QED
      BY <1>0, <1>1, <2>1 DEF HandedStays, queue
  <1>3. ASSUME NEW i \in Ids, SweepStaleExecutions(i) PROVE NotLost'
    <2>1. RowsAdded /\ UNCHANGED <<relay, queue>>
      BY <1>3, SweepGrows DEF SweepStaleExecutions
    <2>2. QED
      BY <1>0, <1>1, <2>1 DEF HandedStays, queue
  <1>4. ASSUME NEW p \in Relays, RelaySelects(p) \/ RelayCommits(p) \/ RelayRollsBack(p)
        PROVE  NotLost'
    <2>1. UNCHANGED <<work, queue>> /\ outbox' \subseteq outbox /\ outbox \ relay[p].sent \subseteq outbox'
      BY <1>4 DEF RelaySelects, RelayCommits, RelayRollsBack
    <2>2. relay' = [relay EXCEPT ![p].batch = Selectable(p)] \/ relay' = [relay EXCEPT ![p] = NoBatch]
      BY <1>4 DEF RelaySelects, RelayCommits, RelayRollsBack
    <2>3. \A q \in Relays : relay'[q].sent \subseteq relay[q].sent
      <3>1. CASE relay' = [relay EXCEPT ![p].batch = Selectable(p)]
        BY <3>1 DEF Shape, TypeOK
      <3>2. CASE relay' = [relay EXCEPT ![p] = NoBatch]
        BY <3>2 DEF Shape, TypeOK, NoBatch
      <3>3. QED
        BY <2>2, <3>1, <3>2
    <2>4. \A i \in Ids : HandedOver(i) => HandedOver(i)'
      BY <2>1 DEF HandedOver, Terminal, queue
    <2>5. Ids' = Ids /\ recent' = recent /\ dropped' = dropped
      BY <2>1 DEF Ids, queue
    <2>6. \A i \in relay[p].sent : i \in Ids /\ HandedOver(i)
      BY DEF NotLost, Shape, TypeOK
    <2>7. \A i \in Ids' : i \in outbox' \/ HandedOver(i)'
      BY <2>1, <2>4, <2>5, <2>6 DEF NotLost
    <2>8. \A i \in recent' : HandedOver(i)'
      BY <2>4, <2>5 DEF NotLost, Shape, TypeOK
    <2>9. \A q \in Relays : \A i \in relay'[q].sent : HandedOver(i)'
      BY <2>3, <2>4 DEF NotLost, Shape, TypeOK
    <2>10. QED
      BY <2>5, <2>7, <2>8, <2>9 DEF NotLost
  <1>5. ASSUME NEW p \in Relays, NEW i \in Ids, RelayPublishes(p, i) \/ RelayPublishFails(p, i)
        PROVE  NotLost'
    <2>1. work' = work /\ outbox' \subseteq outbox /\ outbox \ relay[p].sent \subseteq outbox'
      BY <1>5 DEF RelayPublishes, RelayPublishFails, Marked
    <2>2. \/ relay' = [relay EXCEPT ![p].sent = @ \cup {i}] /\ Store(i)
          \/ relay' = [relay EXCEPT ![p] = NoBatch] /\ (Store(i) \/ UNCHANGED queue)
      BY <1>5 DEF RelayPublishes, RelayPublishFails
    <2>3. /\ dropped' = dropped /\ stream \subseteq stream' /\ recent' \subseteq recent \cup {i}
          /\ recent' # recent => i \in recent'
      BY <2>2, StoreShape DEF queue
    <2>4. \A k \in Ids : HandedOver(k) => HandedOver(k)'
      BY <2>1, <2>3 DEF HandedOver, Terminal
    <2>5. Store(i) => HandedOver(i)'
      <3>1. ASSUME Store(i), i \in recent PROVE HandedOver(i)'
        BY <2>4, <3>1 DEF NotLost
      <3>2. ASSUME Store(i), i \notin recent PROVE HandedOver(i)'
        BY <3>2, StoreShape DEF HandedOver
      <3>3. QED
        BY <3>1, <3>2
    <2>6. Ids' = Ids
      BY <2>1 DEF Ids
    <2>7. \A q \in Relays : relay'[q].sent \subseteq relay[q].sent \/ (q = p /\ Store(i) /\ relay'[q].sent = relay[q].sent \cup {i})
      BY <2>2 DEF Shape, TypeOK, NoBatch
    <2>8. \A k \in Ids' : k \in outbox' \/ HandedOver(k)'
      BY <2>1, <2>4, <2>6 DEF NotLost
    <2>9. \A k \in recent' : HandedOver(k)'
      <3>1. CASE Store(i)
        BY <2>3, <2>4, <2>5, <3>1 DEF NotLost, Shape, TypeOK
      <3>2. CASE UNCHANGED queue
        BY <2>4, <3>2 DEF NotLost, Shape, TypeOK, queue
      <3>3. QED
        BY <2>2, <3>1, <3>2
    <2>10. \A q \in Relays : \A k \in relay'[q].sent : HandedOver(k)'
      BY <2>4, <2>5, <2>7 DEF NotLost, Shape, TypeOK
    <2>11. QED
      BY <2>3, <2>8, <2>9, <2>10 DEF NotLost
  <1>6. ASSUME NEW i \in recent, WindowPasses(i) PROVE NotLost'
    BY <1>6 DEF WindowPasses, NotLost, HandedOver, Terminal, Ids
  <1>7. ASSUME NEW m \in stream, RedeliveryDue(m) \/ MessageExpires(m) PROVE NotLost'
    <2>1. CASE RedeliveryDue(m)
      BY <2>1 DEF RedeliveryDue, NotLost, HandedOver, Terminal, Ids
    <2>2. CASE MessageExpires(m)
      <3>1. UNCHANGED <<work, outbox, relay, recent>> /\ MayExpire
        BY <2>2 DEF MessageExpires, Remove
      <3>2. stream' = stream \ {m} /\ dropped' = dropped \cup {m[1]}
        BY <2>2 DEF MessageExpires, Remove
      <3>3. \A i \in Ids : HandedOver(i) => HandedOver(i)'
        BY <3>1, <3>2 DEF HandedOver, Terminal
      <3>4. QED
        BY <3>1, <3>3 DEF NotLost, Shape, TypeOK, Ids
    <2>3. QED
      BY <1>7, <2>1, <2>2
  <1>8. ASSUME NEW w \in Workers, NEW m \in stream, Pull(w, m) PROVE NotLost'
    BY <1>8 DEF Pull, NotLost, HandedOver, Terminal, Ids
  <1>9. ASSUME NEW w \in Workers, Delivers(w) PROVE NotLost'
    BY <1>0, <1>1, <1>9, DeliveryStep, DeliveryStays
  <1>10. QED
    BY <1>2, <1>3, <1>4, <1>5, <1>6, <1>7, <1>8, <1>9, Steps

(* What has left the outbox was handed over: the commit that marks rows     *)
(* published and JetStream's deduplication of a repeated publication rest   *)
(* on a message that is in the stream, has expired or was done with.        *)
THEOREM NeverLost == Spec => []NotLost
  <1>1. Init => NotLost
    BY DEF Init, NotLost, Ids, NoBatch
  <1>2. Shape /\ OneOutcomePerJob /\ NotLost /\ [Next]_vars => NotLost'
    <2> SUFFICES ASSUME Shape, OneOutcomePerJob, NotLost, [Next]_vars PROVE NotLost'
      OBVIOUS
    <2>1. CASE UNCHANGED vars
      BY <2>1 DEF vars, NotLost, HandedOver, Terminal, Ids
    <2>2. QED
      BY <2>1, NotLostStep
  <1>3. QED
    BY <1>1, <1>2, QueueTyped, PTL DEF Spec

(* Where no message stays queued beyond the stream's MaxAge, unfinished     *)
(* work always has an unpublished row or a message, whatever processes die  *)
(* and whatever answers are lost.                                            *)
THEOREM UnfinishedWorkIsDeliverable ==
    ASSUME ~MayExpire
    PROVE  Spec => []UnfinishedIsDeliverable
  <1>1. NotLost => UnfinishedIsDeliverable
    BY DEF NotLost, HandedOver, UnfinishedIsDeliverable
  <1>2. QED
    BY <1>1, NeverLost, PTL

-------------------------------------------------------------------------------
(* Redundant work needs faults. *)

(* Outbox runners publish different rows, and only unpublished ones. *)
BatchesApart ==
    /\ \A p \in Relays : relay[p].sent \subseteq relay[p].batch /\ relay[p].batch \subseteq outbox
    /\ \A p, q \in Relays : p # q => relay[p].batch \cap relay[q].batch = {}

(* JetStream stored a message of execution i once. *)
Known(i) == \E m \in stored : m[1] = i

Published ==
    /\ \A i \in Ids : i \in outbox \/ Known(i)
    /\ \A i \in recent : Known(i)
    /\ \A p \in Relays : \A i \in relay[p].sent : Known(i)

RelayInv == Shape /\ OneOutcomePerJob /\ BatchesApart /\ Published

(* What the steps of an outbox runner do to its transaction. *)
LEMMA RelayFields ==
    ASSUME Shape, NEW p \in Relays
    PROVE  /\ relay' = [relay EXCEPT ![p] = NoBatch] =>
                 /\ relay'[p].batch = {} /\ relay'[p].sent = {}
                 /\ \A q \in Relays : q # p => relay'[q] = relay[q]
           /\ relay' = [relay EXCEPT ![p].batch = Selectable(p)] =>
                 /\ relay'[p].batch = Selectable(p) /\ relay'[p].sent = relay[p].sent
                 /\ \A q \in Relays : q # p => relay'[q] = relay[q]
           /\ \A i \in Ids : relay' = [relay EXCEPT ![p].sent = @ \cup {i}] =>
                 /\ relay'[p].batch = relay[p].batch /\ relay'[p].sent = relay[p].sent \cup {i}
                 /\ \A q \in Relays : q # p => relay'[q] = relay[q]
  <1>1. relay' = [relay EXCEPT ![p] = NoBatch] =>
                 /\ relay'[p].batch = {} /\ relay'[p].sent = {}
                 /\ \A q \in Relays : q # p => relay'[q] = relay[q]
    BY DEF Shape, TypeOK, NoBatch
  <1>2. relay' = [relay EXCEPT ![p].batch = Selectable(p)] =>
                 /\ relay'[p].batch = Selectable(p) /\ relay'[p].sent = relay[p].sent
                 /\ \A q \in Relays : q # p => relay'[q] = relay[q]
    BY DEF Shape, TypeOK
  <1>3. ASSUME NEW i \in Ids, relay' = [relay EXCEPT ![p].sent = @ \cup {i}]
        PROVE  /\ relay'[p].batch = relay[p].batch /\ relay'[p].sent = relay[p].sent \cup {i}
               /\ \A q \in Relays : q # p => relay'[q] = relay[q]
    BY <1>3 DEF Shape, TypeOK
  <1>4. QED
    BY <1>1, <1>2, <1>3

LEMMA RelayInvStep ==
    ASSUME RelayInv, Next
    PROVE  RelayInv'
  <1> USE DEF RelayInv
  <1>0. Shape' /\ OneOutcomePerJob' /\ Grows /\ Ids \subseteq Ids'
    BY ShapeStep, OutcomeKept, IdsGrow
  <1>1. ASSUME RowsAdded \/ UNCHANGED <<work, outbox>>, stored' = stored, recent' \subseteq recent, relay' = relay
        PROVE  RelayInv'
    <2>1. BatchesApart'
      BY <1>1 DEF BatchesApart, RowsAdded
    <2>2. Published'
      BY <1>1 DEF Published, Known, RowsAdded, Ids
    <2>3. QED
      BY <1>0, <2>1, <2>2
  <1>2. ASSUME NEW j \in Jobs, Enqueue(j) PROVE RelayInv'
    <2>1. RowsAdded /\ UNCHANGED <<relay, queue>>
      BY <1>2, EnqueueGrows DEF Enqueue
    <2>2. QED
      BY <1>1, <2>1 DEF queue
  <1>3. ASSUME NEW i \in Ids, SweepStaleExecutions(i) PROVE RelayInv'
    <2>1. RowsAdded /\ UNCHANGED <<relay, queue>>
      BY <1>3, SweepGrows DEF SweepStaleExecutions
    <2>2. QED
      BY <1>1, <2>1 DEF queue
  <1>4. ASSUME NEW p \in Relays, RelaySelects(p) PROVE RelayInv'
    <2>1. /\ UNCHANGED <<work, outbox, queue>> /\ relay[p] = NoBatch
          /\ relay' = [relay EXCEPT ![p].batch = Selectable(p)]
      BY <1>4 DEF RelaySelects
    <2>2. /\ relay'[p].batch = Selectable(p) /\ relay'[p].sent = {}
          /\ \A q \in Relays : q # p => relay'[q] = relay[q]
      <3>1. relay[p].sent = {}
        BY <2>1 DEF NoBatch
      <3>2. QED
        BY <2>1, <3>1, RelayFields
    <2>3. BatchesApart'
      BY <2>1, <2>2 DEF BatchesApart, Selectable
    <2>4. Published'
      BY <2>1, <2>2 DEF Published, Known, Ids, queue
    <2>5. QED
      BY <1>0, <2>3, <2>4
  <1>5. ASSUME NEW p \in Relays, RelayCommits(p) \/ RelayRollsBack(p) PROVE RelayInv'
    <2>1. /\ UNCHANGED <<work, queue>> /\ relay' = [relay EXCEPT ![p] = NoBatch]
          /\ outbox' = outbox \/ (outbox' = outbox \ relay[p].batch /\ relay[p].sent = relay[p].batch)
      BY <1>5 DEF RelayCommits, RelayRollsBack
    <2>2. /\ relay'[p].batch = {} /\ relay'[p].sent = {}
          /\ \A q \in Relays : q # p => relay'[q] = relay[q]
      BY <2>1, RelayFields
    <2>3. BatchesApart'
      BY <2>1, <2>2 DEF BatchesApart
    <2>4. Published'
      BY <2>1, <2>2 DEF Published, Known, Ids, queue
    <2>5. QED
      BY <1>0, <2>3, <2>4
  <1>6. ASSUME NEW p \in Relays, NEW i \in Ids, RelayPublishes(p, i) PROVE RelayInv'
    <2>1. /\ UNCHANGED <<work, outbox>> /\ relay' = [relay EXCEPT ![p].sent = @ \cup {i}]
          /\ Store(i) /\ i \in relay[p].batch
      BY <1>6 DEF RelayPublishes, IsNext
    <2>2. /\ relay'[p].batch = relay[p].batch /\ relay'[p].sent = relay[p].sent \cup {i}
          /\ \A q \in Relays : q # p => relay'[q] = relay[q]
      BY <2>1, RelayFields
    <2>3. BatchesApart'
      BY <2>1, <2>2 DEF BatchesApart
    <2>4. /\ stored \subseteq stored' /\ recent' = recent \cup {i}
          /\ i \notin recent => \E m \in stored' : m[1] = i
      BY <2>1, StoreShape
    <2>5. Known(i)'
      BY <2>4 DEF Known, Published
    <2>6. Published'
      BY <2>1, <2>2, <2>4, <2>5 DEF Published, Known, Ids
    <2>7. QED
      BY <1>0, <2>3, <2>6
  <1>7. ASSUME NEW p \in Relays, NEW i \in Ids, RelayPublishFails(p, i) PROVE RelayInv'
    <2>1. /\ work' = work /\ relay' = [relay EXCEPT ![p] = NoBatch]
          /\ Store(i) \/ UNCHANGED queue
          /\ outbox' = outbox \ relay[p].sent
      BY <1>7 DEF RelayPublishFails, Marked
    <2>2. /\ relay'[p].batch = {} /\ relay'[p].sent = {}
          /\ \A q \in Relays : q # p => relay'[q] = relay[q]
      BY <2>1, RelayFields
    <2>3. BatchesApart'
      BY <2>1, <2>2 DEF BatchesApart
    <2>4. /\ stored \subseteq stored'
          /\ recent' = recent \/ (recent' = recent \cup {i} /\ (i \notin recent => \E m \in stored' : m[1] = i))
      BY <2>1, StoreShape DEF queue
    <2>5. Published'
      BY <2>1, <2>2, <2>4 DEF Published, Known, Ids
    <2>6. QED
      BY <1>0, <2>3, <2>5
  <1>8. ASSUME NEW i \in recent, WindowPasses(i) PROVE RelayInv'
    BY <1>1, <1>8 DEF WindowPasses
  <1>9. ASSUME NEW m \in stream, RedeliveryDue(m) \/ MessageExpires(m) PROVE RelayInv'
    BY <1>1, <1>9 DEF RedeliveryDue, MessageExpires, Remove
  <1>10. ASSUME NEW w \in Workers, NEW m \in stream, Pull(w, m) PROVE RelayInv'
    BY <1>1, <1>10 DEF Pull
  <1>11. ASSUME NEW w \in Workers, Delivers(w) PROVE RelayInv'
    <2>1. RowsAdded /\ relay' = relay /\ (Ack(worker[w].msg) \/ UNCHANGED queue)
      BY <1>11, DeliveryStep
    <2>2. QED
      BY <1>1, <2>1 DEF Ack, Remove, queue
  <1>12. QED
    BY <1>2, <1>3, <1>4, <1>5, <1>6, <1>7, <1>8, <1>9, <1>10, <1>11, Steps

(* Outbox runners hold different rows, and what is committed as published   *)
(* was stored by JetStream.                                                  *)
THEOREM RelaysApart == Spec => []RelayInv
  <1>1. Init => RelayInv
    <2>1. Init => BatchesApart /\ Published /\ OneOutcomePerJob
      BY DEF Init, BatchesApart, Published, NoBatch, Ids, OneOutcomePerJob
    <2>2. QED
      BY <2>1, ShapeInit DEF RelayInv
  <1>2. RelayInv /\ [Next]_vars => RelayInv'
    <2> SUFFICES ASSUME RelayInv, [Next]_vars PROVE RelayInv'
      OBVIOUS
    <2>1. CASE UNCHANGED vars
      BY <2>1 DEF vars, RelayInv, Shape, TypeOK, OneOutcomePerJob, BatchesApart, Published, Known, Ids
    <2>2. QED
      BY <2>1, RelayInvStep
  <1>3. QED
    BY <1>1, <1>2, PTL DEF Spec

(* What may still lead to a try of job j, none of them counted twice: a     *)
(* worker that is at it, a message that can be delivered to a worker, and   *)
(* an outbox row that no open transaction has sent.                          *)
OnJob(i, j) == i \in Ids /\ work[i].job = j

AtWork(w, j) ==
    /\ worker[w].pc # "idle" /\ OnJob(worker[w].msg[1], j)
    /\ worker[w].pc = "executing" \/ ~Terminal(worker[w].msg[1])

Due(m, j) ==
    /\ OnJob(m[1], j) /\ ~Terminal(m[1])
    /\ m \in stream \ pending \/ \A w \in Workers : ~Holds(w, m)

Waiting(i, j) == OnJob(i, j) /\ ~Terminal(i) /\ \A p \in Relays : i \notin relay[p].sent

Tokens(j) ==
    {<<"worker", w>> : w \in {v \in Workers : AtWork(v, j)}}
    \cup {<<"message", m>> : m \in {n \in stored : Due(n, j)}}
    \cup {<<"row", i>> : i \in {k \in outbox : Waiting(k, j)}}

TokensBounded ==
    \A j \in Jobs : IsFiniteSet(Tokens(j)) /\ Cardinality(Tokens(j)) <= 1 + faults

(* What a step may do to the tokens of job j: without a fault none is       *)
(* added, except to a job that has none.                                     *)
Stays(j) == Tokens(j)' \subseteq Tokens(j)

Moves(j) == \E x \in Tokens(j) : \E y : Tokens(j)' \subseteq (Tokens(j) \ {x}) \cup {y}

Spawns(j) == faults' = faults + 1 /\ \E y : Tokens(j)' \subseteq Tokens(j) \cup {y}

Starts(j) == Tokens(j) = {} /\ \E y : Tokens(j)' \subseteq {y}

LEMMA OneAdded ==
    ASSUME NEW S, IsFiniteSet(S), NEW y, NEW T, T \subseteq S \cup {y}
    PROVE  IsFiniteSet(T) /\ Cardinality(T) \in Nat /\ Cardinality(T) <= Cardinality(S) + 1
  <1>1. /\ IsFiniteSet(S \cup {y})
        /\ Cardinality(S \cup {y}) = IF y \in S THEN Cardinality(S) ELSE Cardinality(S) + 1
    BY FS_AddElement
  <1>2. IsFiniteSet(T) /\ Cardinality(T) <= Cardinality(S \cup {y})
    BY <1>1, FS_Subset
  <1>3. Cardinality(S) \in Nat /\ Cardinality(T) \in Nat /\ Cardinality(S \cup {y}) \in Nat
    BY <1>1, <1>2, FS_CardinalityType
  <1>4. QED
    BY <1>1, <1>2, <1>3

LEMMA OneReplaced ==
    ASSUME NEW S, IsFiniteSet(S), NEW x \in S, NEW y, NEW T, T \subseteq (S \ {x}) \cup {y}
    PROVE  IsFiniteSet(T) /\ Cardinality(T) \in Nat /\ Cardinality(T) <= Cardinality(S)
  <1>1. IsFiniteSet(S \ {x}) /\ Cardinality(S \ {x}) = Cardinality(S) - 1
    BY FS_RemoveElement
  <1>2. IsFiniteSet(T) /\ Cardinality(T) \in Nat /\ Cardinality(T) <= Cardinality(S \ {x}) + 1
    BY <1>1, OneAdded
  <1>3. Cardinality(S) \in Nat
    BY FS_CardinalityType
  <1>4. QED
    BY <1>1, <1>2, <1>3

LEMMA TokensCounted ==
    ASSUME TokensBounded, faults \in Nat, faults' \in Nat, faults <= faults',
           \A j \in Jobs : Stays(j) \/ Moves(j) \/ Spawns(j) \/ Starts(j)
    PROVE  TokensBounded'
  <1> SUFFICES ASSUME NEW j \in Jobs
               PROVE  IsFiniteSet(Tokens(j)') /\ Cardinality(Tokens(j)') <= 1 + faults'
    BY DEF TokensBounded
  <1> DEFINE S == Tokens(j)
             T == Tokens(j)'
  <1>0. IsFiniteSet(S) /\ Cardinality(S) <= 1 + faults /\ Cardinality(S) \in Nat
    BY FS_CardinalityType DEF TokensBounded
  <1>1. CASE T \subseteq S
    <2>1. IsFiniteSet(T) /\ Cardinality(T) <= Cardinality(S) /\ Cardinality(T) \in Nat
      BY <1>0, <1>1, FS_Subset, FS_CardinalityType
    <2>2. QED
      BY <1>0, <2>1
  <1>2. ASSUME NEW x \in S, NEW y, T \subseteq (S \ {x}) \cup {y}
        PROVE  IsFiniteSet(T) /\ Cardinality(T) <= 1 + faults'
    <2>1. IsFiniteSet(T) /\ Cardinality(T) <= Cardinality(S) /\ Cardinality(T) \in Nat
      BY <1>0, <1>2, OneReplaced
    <2>2. QED
      BY <1>0, <2>1
  <1>3. ASSUME faults' = faults + 1, NEW y, T \subseteq S \cup {y}
        PROVE  IsFiniteSet(T) /\ Cardinality(T) <= 1 + faults'
    <2>1. IsFiniteSet(T) /\ Cardinality(T) <= Cardinality(S) + 1 /\ Cardinality(T) \in Nat
      BY <1>0, <1>3, OneAdded
    <2>2. QED
      BY <1>0, <1>3, <2>1
  <1>4. ASSUME S = {}, NEW y, T \subseteq {y}
        PROVE  IsFiniteSet(T) /\ Cardinality(T) <= 1 + faults'
    <2>1. IsFiniteSet(T) /\ Cardinality(T) <= Cardinality(S) + 1 /\ Cardinality(T) \in Nat
      BY <1>0, <1>4, OneAdded
    <2>2. Cardinality(S) = 0
      BY <1>4, FS_EmptySet
    <2>3. QED
      BY <1>0, <2>1, <2>2
  <1> HIDE DEF S, T
  <1>5. QED
    BY <1>1, <1>2, <1>3, <1>4 DEF Stays, Moves, Spawns, Starts, S, T

(* Tokens are compared kind by kind: those of Gone have gone, those of New  *)
(* may have come.                                                            *)
LEMMA TokensWithin ==
    ASSUME NEW j \in Jobs, NEW Gone, NEW New,
           \A w \in Workers :
              AtWork(w, j)' => (AtWork(w, j) /\ <<"worker", w>> \notin Gone)
                               \/ <<"worker", w>> \in New,
           \A m \in stored' :
              Due(m, j)' => (m \in stored /\ Due(m, j) /\ <<"message", m>> \notin Gone)
                            \/ <<"message", m>> \in New,
           \A i \in outbox' :
              Waiting(i, j)' => (i \in outbox /\ Waiting(i, j) /\ <<"row", i>> \notin Gone)
                                \/ <<"row", i>> \in New
    PROVE  Tokens(j)' \subseteq (Tokens(j) \ Gone) \cup New
  <1> SUFFICES ASSUME NEW t \in Tokens(j)' PROVE t \in (Tokens(j) \ Gone) \cup New
    OBVIOUS
  <1>1. ASSUME NEW w \in Workers, AtWork(w, j)', t = <<"worker", w>>
        PROVE  t \in (Tokens(j) \ Gone) \cup New
    BY <1>1 DEF Tokens
  <1>2. ASSUME NEW m \in stored', Due(m, j)', t = <<"message", m>>
        PROVE  t \in (Tokens(j) \ Gone) \cup New
    BY <1>2 DEF Tokens
  <1>3. ASSUME NEW i \in outbox', Waiting(i, j)', t = <<"row", i>>
        PROVE  t \in (Tokens(j) \ Gone) \cup New
    BY <1>3 DEF Tokens
  <1>4. QED
    BY <1>1, <1>2, <1>3 DEF Tokens

LEMMA TokensStay ==
    ASSUME NEW j \in Jobs,
           \A w \in Workers : AtWork(w, j)' => AtWork(w, j),
           \A m \in stored' : Due(m, j)' => m \in stored /\ Due(m, j),
           \A i \in outbox' : Waiting(i, j)' => i \in outbox /\ Waiting(i, j)
    PROVE  Stays(j)
  <1>1. Tokens(j)' \subseteq (Tokens(j) \ {}) \cup {}
    BY TokensWithin
  <1>2. QED
    BY <1>1 DEF Stays

LEMMA TokensSpawn ==
    ASSUME NEW j \in Jobs, NEW y, faults' = faults + 1,
           \A w \in Workers : AtWork(w, j)' => AtWork(w, j),
           \A m \in stored' : Due(m, j)' => (m \in stored /\ Due(m, j)) \/ y = <<"message", m>>,
           \A i \in outbox' : Waiting(i, j)' => (i \in outbox /\ Waiting(i, j)) \/ y = <<"row", i>>
    PROVE  Spawns(j)
  <1>1. Tokens(j)' \subseteq (Tokens(j) \ {}) \cup {y}
    BY TokensWithin
  <1>2. QED
    BY <1>1 DEF Spawns

LEMMA TokensStart ==
    ASSUME NEW j \in Jobs, NEW y, Tokens(j) = {},
           \A w \in Workers : AtWork(w, j)' => AtWork(w, j),
           \A m \in stored' : Due(m, j)' => m \in stored /\ Due(m, j),
           \A i \in outbox' : Waiting(i, j)' => (i \in outbox /\ Waiting(i, j)) \/ y = <<"row", i>>
    PROVE  Starts(j)
  <1>1. Tokens(j)' \subseteq (Tokens(j) \ {}) \cup {y}
    BY TokensWithin
  <1>2. QED
    BY <1>1 DEF Starts

LEMMA TokensMove ==
    ASSUME NEW j \in Jobs, NEW x \in Tokens(j), NEW y,
           \A w \in Workers :
              AtWork(w, j)' => (AtWork(w, j) /\ x # <<"worker", w>>) \/ y = <<"worker", w>>,
           \A m \in stored' :
              Due(m, j)' => (m \in stored /\ Due(m, j) /\ x # <<"message", m>>)
                            \/ y = <<"message", m>>,
           \A i \in outbox' :
              Waiting(i, j)' => (i \in outbox /\ Waiting(i, j) /\ x # <<"row", i>>)
                                \/ y = <<"row", i>>
    PROVE  Moves(j)
  <1>1. Tokens(j)' \subseteq (Tokens(j) \ {x}) \cup {y}
    BY TokensWithin
  <1>2. QED
    BY <1>1 DEF Moves

(* Finished executions make no tokens, and jobs stay. *)
LEMMA OldJobs ==
    ASSUME Shape, Grows, NEW i \in Ids, NEW j \in Jobs
    PROVE  /\ OnJob(i, j)' <=> OnJob(i, j)
           /\ ~Terminal(i)' => ~Terminal(i)
  <1>1. i \in Ids'
    BY IdsGrow
  <1>2. QED
    BY <1>1 DEF Grows, OnJob, Terminal

(* Rows of a step that only adds executions. *)
LEMMA OldRows ==
    ASSUME Shape, Grows, RowsAdded, relay' = relay, NEW j \in Jobs
    PROVE  \A i \in outbox' : Waiting(i, j)' =>
              (i \in outbox /\ Waiting(i, j)) \/ (i \in Ids' \ Ids /\ work'[i].job = j)
  <1> SUFFICES ASSUME NEW i \in outbox', Waiting(i, j)'
               PROVE  (i \in outbox /\ Waiting(i, j)) \/ (i \in Ids' \ Ids /\ work'[i].job = j)
    OBVIOUS
  <1>1. CASE i \in outbox
    <2>1. i \in Ids
      BY <1>1 DEF Shape, TypeOK
    <2>2. QED
      BY <1>1, <2>1, OldJobs DEF Waiting
  <1>2. CASE i \notin outbox
    BY <1>2 DEF RowsAdded, Waiting, OnJob
  <1>3. QED
    BY <1>1, <1>2

LEMMA OneNew ==
    ASSUME Shape, Grows
    PROVE  \E n : \A i \in Ids' \ Ids : i = n
  <1>1. \A i \in Ids' \ Ids : i = Len(work) + 1
    BY DEF Shape, TypeOK, Grows, Ids
  <1>2. QED
    BY <1>1

LEMMA OldWorkers ==
    ASSUME Shape, Grows, NEW j \in Jobs, NEW w \in Workers, worker'[w] = worker[w]
    PROVE  AtWork(w, j)' => AtWork(w, j)
  <1> SUFFICES ASSUME AtWork(w, j)' PROVE AtWork(w, j)
    OBVIOUS
  <1>1. PICK i \in Ids : i = worker[w].msg[1]
    BY HeldExists DEF AtWork
  <1>2. i = worker'[w].msg[1]
    BY <1>1
  <1>3. OnJob(i, j)' /\ (worker[w].pc = "executing" \/ ~Terminal(i)') /\ worker[w].pc # "idle"
    BY <1>2 DEF AtWork, OnJob, Terminal
  <1>4. QED
    BY <1>1, <1>3, OldJobs DEF AtWork

(* Messages that no step concerns. *)
LEMMA OldMessages ==
    ASSUME Shape, Grows, NEW j \in Jobs, NEW m \in stored,
           m \in stream' \ pending' => m \in stream \ pending,
           \A w \in Workers : Holds(w, m) => Holds(w, m)'
    PROVE  Due(m, j)' => Due(m, j)
  <1>1. PICK i \in Ids : i = m[1]
    BY DEF Shape, TypeOK
  <1>2. QED
    BY <1>1, OldJobs DEF Due

(* Every step accounts for the tokens of every job j. *)
Accounted(j) == Stays(j) \/ Moves(j) \/ Spawns(j) \/ Starts(j)

LEMMA EnqueueTokens ==
    ASSUME RelayInv, NEW j \in Jobs, NEW k \in Jobs, Enqueue(k)
    PROVE  Accounted(j)
  <1>0. Shape
    BY DEF RelayInv
  <1>1. Grows /\ RowsAdded /\ UNCHANGED <<relay, queue, worker, faults>>
    BY <1>0, EnqueueGrows DEF Enqueue
  <1>2. \A w \in Workers : AtWork(w, j)' => AtWork(w, j)
    BY <1>0, <1>1, OldWorkers
  <1>3. \A m \in stored' : Due(m, j)' => m \in stored /\ Due(m, j)
    BY <1>0, <1>1, OldMessages DEF queue, Holds
  <1>4. \A i \in outbox' : Waiting(i, j)' =>
              (i \in outbox /\ Waiting(i, j)) \/ (i \in Ids' \ Ids /\ work'[i].job = j)
    BY <1>0, <1>1, OldRows
  <1>5. PICK n : \A i \in Ids' \ Ids : i = n /\ work'[i].job = k
    BY <1>0, <1>1, OneNew, EnqueueGrows
  <1>6. CASE j # k
    BY <1>2, <1>3, <1>4, <1>5, <1>6, TokensStay DEF Accounted
  <1>7. CASE j = k
    <2>1. \A i \in Ids : ~OnJob(i, j)
      BY <1>7 DEF Enqueue, OnJob
    <2>2. Tokens(j) = {}
      BY <2>1 DEF Tokens, AtWork, Due, Waiting, OnJob
    <2>3. \A i \in outbox' : Waiting(i, j)' =>
             (i \in outbox /\ Waiting(i, j)) \/ <<"row", n>> = <<"row", i>>
      BY <1>4, <1>5
    <2>4. Starts(j)
      BY <1>2, <1>3, <2>2, <2>3, TokensStart
    <2>5. QED
      BY <2>4 DEF Accounted
  <1>8. QED
    BY <1>6, <1>7

(* An unfinished execution that no worker executes has a token that goes    *)
(* with it.                                                                  *)
LEMMA UnfinishedHasToken ==
    ASSUME RelayInv, NEW j \in Jobs, NEW i \in Ids, OnJob(i, j), ~Terminal(i), ~WorkedOn(i)
    PROVE  \/ i \in outbox /\ Waiting(i, j)
           \/ \E m \in stored : m[1] = i /\ Due(m, j)
           \/ \E w \in Workers : worker[w].pc = "input" /\ worker[w].msg[1] = i /\ AtWork(w, j)
  <1>1. CASE i \in outbox /\ \A p \in Relays : i \notin relay[p].sent
    BY <1>1 DEF Waiting
  <1>2. CASE ~(i \in outbox /\ \A p \in Relays : i \notin relay[p].sent)
    <2>1. PICK m \in stored : m[1] = i
      BY <1>2 DEF RelayInv, Published, Known
    <2>2. CASE \A w \in Workers : ~Holds(w, m)
      BY <2>1, <2>2 DEF Due
    <2>3. ASSUME NEW w \in Workers, Holds(w, m)
          PROVE  worker[w].pc = "input" /\ worker[w].msg[1] = i /\ AtWork(w, j)
      <3>1. worker[w].pc \in {"input", "executing"} /\ worker[w].msg = m
        BY <2>3, HeldExists DEF Holds, RelayInv
      <3>2. worker[w].pc = "input"
        BY <2>1, <3>1 DEF WorkedOn
      <3>3. QED
        BY <2>1, <3>1, <3>2 DEF AtWork
    <2>4. QED
      BY <2>2, <2>3
  <1>3. QED
    BY <1>1, <1>2

LEMMA SweepTokens ==
    ASSUME RelayInv, NEW j \in Jobs, NEW i \in Ids, SweepStaleExecutions(i)
    PROVE  Accounted(j)
  <1>0. Shape /\ OneOutcomePerJob
    BY DEF RelayInv
  <1>1. /\ Grows /\ RowsAdded /\ Ended(i) /\ SameJob(i)
        /\ UNCHANGED <<relay, queue, worker>>
        /\ (WorkedOn(i) /\ faults' = faults + 1) \/ ~WorkedOn(i)
    BY <1>0, SweepGrows DEF SweepStaleExecutions, Fault
  <1>2. \A w \in Workers : AtWork(w, j)' => AtWork(w, j)
    BY <1>0, <1>1, OldWorkers
  <1>3. \A m \in stored' : Due(m, j)' => m \in stored /\ Due(m, j)
    BY <1>0, <1>1, OldMessages DEF queue, Holds
  <1>4. \A k \in outbox' : Waiting(k, j)' =>
              (k \in outbox /\ Waiting(k, j)) \/ (k \in Ids' \ Ids /\ work'[k].job = j)
    BY <1>0, <1>1, OldRows
  <1>5. PICK n : \A k \in Ids' \ Ids : k = n
    BY <1>0, <1>1, OneNew
  <1>6. CASE work[i].job # j
    BY <1>1, <1>2, <1>3, <1>4, <1>6, TokensStay DEF Accounted, SameJob
  <1>7. CASE WorkedOn(i)
    <2>1. \A k \in outbox' : Waiting(k, j)' =>
             (k \in outbox /\ Waiting(k, j)) \/ <<"row", n>> = <<"row", k>>
      BY <1>4, <1>5
    <2>2. QED
      BY <1>1, <1>2, <1>3, <1>7, <2>1, TokensSpawn DEF Accounted
  <1>8. CASE work[i].job = j /\ ~WorkedOn(i)
    <2>1. ~Terminal(i) /\ OnJob(i, j)
      BY <1>8 DEF SweepStaleExecutions, Sweepable, Terminal, OnJob
    <2>2. ASSUME NEW x \in Tokens(j),
                 \A w \in Workers : AtWork(w, j)' => x # <<"worker", w>>,
                 \A m \in stored : Due(m, j)' => x # <<"message", m>>,
                 \A k \in outbox : Waiting(k, j)' => x # <<"row", k>>
          PROVE  Accounted(j)
      <3>1. stored' = stored
        BY <1>1 DEF queue
      <3>2. PICK y : y = <<"row", n>>
        OBVIOUS
      <3>3. \A k \in outbox' : Waiting(k, j)' =>
               (k \in outbox /\ Waiting(k, j) /\ x # <<"row", k>>) \/ y = <<"row", k>>
        BY <1>4, <1>5, <2>2, <3>2
      <3>4. \A w \in Workers : AtWork(w, j)' =>
               (AtWork(w, j) /\ x # <<"worker", w>>) \/ y = <<"worker", w>>
        BY <1>2, <2>2
      <3>5. \A m \in stored' : Due(m, j)' =>
               (m \in stored /\ Due(m, j) /\ x # <<"message", m>>) \/ y = <<"message", m>>
        BY <1>3, <2>2, <3>1
      <3>6. Moves(j)
        BY <3>3, <3>4, <3>5, TokensMove
      <3>7. QED
        BY <3>6 DEF Accounted
    <2>3. ASSUME i \in outbox, Waiting(i, j) PROVE Accounted(j)
      <3>1. <<"row", i>> \in Tokens(j)
        BY <2>3 DEF Tokens
      <3>2. ~Waiting(i, j)'
        BY <1>1 DEF Waiting, Terminal, Ended
      <3>3. QED
        BY <2>2, <3>1, <3>2
    <2>4. ASSUME NEW m \in stored, m[1] = i, Due(m, j) PROVE Accounted(j)
      <3>1. <<"message", m>> \in Tokens(j)
        BY <2>4 DEF Tokens
      <3>2. ~Due(m, j)'
        BY <1>1, <2>4 DEF Due, Terminal, Ended
      <3>3. QED
        BY <2>2, <3>1, <3>2
    <2>5. ASSUME NEW w \in Workers, worker[w].pc = "input", worker[w].msg[1] = i, AtWork(w, j)
          PROVE  Accounted(j)
      <3>1. <<"worker", w>> \in Tokens(j)
        BY <2>5 DEF Tokens
      <3>2. ~AtWork(w, j)'
        BY <1>1, <2>5 DEF AtWork, Terminal, Ended
      <3>3. QED
        BY <2>2, <3>1, <3>2
    <2>6. QED
      BY <1>8, <2>1, <2>3, <2>4, <2>5, UnfinishedHasToken
  <1>9. QED
    BY <1>6, <1>7, <1>8

LEMMA SettledTokens ==
    ASSUME RelayInv, NEW j \in Jobs, UNCHANGED <<work, stored, worker>>, outbox' \subseteq outbox,
           stream' \ pending' \subseteq stream \ pending,
           \A i \in outbox' : \A p \in Relays : i \in relay[p].sent => i \in relay'[p].sent
    PROVE  Accounted(j)
  <1>0. Shape
    BY DEF RelayInv
  <1>1. Grows
    BY <1>0 DEF Grows, Shape, TypeOK, Ids
  <1>2. \A w \in Workers : AtWork(w, j)' => AtWork(w, j)
    BY <1>0, <1>1, OldWorkers
  <1>3. \A m \in stored' : Due(m, j)' => m \in stored /\ Due(m, j)
    BY <1>0, <1>1, OldMessages DEF Holds
  <1>4. \A i \in outbox' : Waiting(i, j)' => i \in outbox /\ Waiting(i, j)
    BY DEF Waiting, OnJob, Terminal, Ids
  <1>5. QED
    BY <1>2, <1>3, <1>4, TokensStay DEF Accounted

LEMMA RelayTokens ==
    ASSUME RelayInv, NEW j \in Jobs, NEW p \in Relays,
           RelaySelects(p) \/ RelayCommits(p) \/ RelayRollsBack(p)
    PROVE  Accounted(j)
  <1>0. Shape
    BY DEF RelayInv
  <1>1. CASE RelaySelects(p)
    <2>1. UNCHANGED <<work, outbox, queue, worker>> /\ relay' = [relay EXCEPT ![p].batch = Selectable(p)]
      BY <1>1 DEF RelaySelects
    <2>2. \A q \in Relays : relay'[q].sent = relay[q].sent
      BY <1>0, <2>1, RelayFields
    <2>3. QED
      BY <2>1, <2>2, SettledTokens DEF queue
  <1>2. CASE RelayCommits(p)
    <2>1. /\ UNCHANGED <<work, queue, worker>> /\ relay' = [relay EXCEPT ![p] = NoBatch]
          /\ outbox' = outbox \ relay[p].batch
      BY <1>2 DEF RelayCommits
    <2>2. \A q \in Relays : q # p => relay'[q] = relay[q]
      BY <1>0, <2>1, RelayFields
    <2>3. \A i \in outbox' : i \notin relay[p].sent
      BY <2>1 DEF RelayInv, BatchesApart
    <2>4. \A i \in outbox' : \A q \in Relays : i \in relay[q].sent => i \in relay'[q].sent
      BY <2>2, <2>3
    <2>5. QED
      BY <2>1, <2>4, SettledTokens DEF queue
  <1>3. CASE RelayRollsBack(p)
    <2>1. /\ UNCHANGED <<work, outbox, queue, worker>> /\ relay' = [relay EXCEPT ![p] = NoBatch]
          /\ faults' = faults + 1
      BY <1>3 DEF RelayRollsBack, Fault
    <2>2. Grows
      BY <1>0, <2>1 DEF Grows, Shape, TypeOK, Ids
    <2>3. \A w \in Workers : AtWork(w, j)' => AtWork(w, j)
      BY <1>0, <2>1, <2>2, OldWorkers
    <2>4. \A m \in stored' : Due(m, j)' => m \in stored /\ Due(m, j)
      BY <1>0, <2>1, <2>2, OldMessages DEF Holds, queue
    <2>5. \A k, l \in Ids : (OnJob(k, j) /\ OnJob(l, j) /\ ~Terminal(k) /\ ~Terminal(l)) => k = l
      BY DEF RelayInv, OneOutcomePerJob, OnJob, Terminal
    <2>6. PICK n : \A k \in Ids : OnJob(k, j) /\ ~Terminal(k) => k = n
      BY <2>5
    <2>7. PICK y : y = <<"row", n>>
      OBVIOUS
    <2>8. \A i \in outbox' : Waiting(i, j)' => i \in Ids /\ OnJob(i, j) /\ ~Terminal(i)
      BY <2>1 DEF Waiting, OnJob, Terminal, Ids
    <2>9. \A i \in outbox' : Waiting(i, j)' => (i \in outbox /\ Waiting(i, j)) \/ y = <<"row", i>>
      BY <2>6, <2>7, <2>8
    <2>10. \A m \in stored' : Due(m, j)' => (m \in stored /\ Due(m, j)) \/ y = <<"message", m>>
      BY <2>4
    <2>11. Spawns(j)
      BY <2>1, <2>3, <2>9, <2>10, TokensSpawn
    <2>12. QED
      BY <2>11 DEF Accounted
  <1>4. QED
    BY <1>1, <1>2, <1>3

(* A message that is stored is the only new one. *)
LEMMA StoredMessages ==
    ASSUME Shape, Grows, NEW j \in Jobs, NEW i \in Ids, work' = work, worker' = worker,
           Store(i) \/ UNCHANGED queue
    PROVE  \E n : /\ n[1] = i
                  /\ \A m \in stored' : Due(m, j)' => (m \in stored /\ Due(m, j)) \/ m = n
  <1>1. CASE stored' = stored /\ stream' = stream /\ pending' = pending
    <2>1. \A m \in stored' : Due(m, j)' => m \in stored /\ Due(m, j)
      BY <1>1, OldMessages DEF Holds
    <2>2. <<i, 0>>[1] = i
      OBVIOUS
    <2>3. QED
      BY <2>1, <2>2
  <1>2. ASSUME NEW n \in stream', n[1] = i, stored' = stored \cup {n}, stream' = stream \cup {n},
               pending' = pending
        PROVE  \E k : /\ k[1] = i
                      /\ \A m \in stored' : Due(m, j)' => (m \in stored /\ Due(m, j)) \/ m = k
    <2>1. \A m \in stored : m # n => (Due(m, j)' => Due(m, j))
      BY <1>2, OldMessages DEF Holds
    <2>2. \A m \in stored' : Due(m, j)' => (m \in stored /\ Due(m, j)) \/ m = n
      BY <1>2, <2>1
    <2>3. QED
      BY <1>2, <2>2
  <1>3. QED
    BY <1>1, <1>2, StoreShape DEF queue

LEMMA PublishTokens ==
    ASSUME RelayInv, NEW j \in Jobs, NEW p \in Relays, NEW i \in Ids, RelayPublishes(p, i)
    PROVE  Accounted(j)
  <1>0. Shape
    BY DEF RelayInv
  <1>1. /\ UNCHANGED <<work, outbox, worker>> /\ Store(i)
        /\ i \in relay[p].batch /\ i \notin relay[p].sent
        /\ relay' = [relay EXCEPT ![p].sent = @ \cup {i}]
    BY DEF RelayPublishes, IsNext
  <1>2. Grows
    BY <1>0, <1>1 DEF Grows, Shape, TypeOK, Ids
  <1>3. \A w \in Workers : AtWork(w, j)' => AtWork(w, j)
    BY <1>0, <1>1, <1>2, OldWorkers
  <1>4. PICK n : /\ n[1] = i
                 /\ \A m \in stored' : Due(m, j)' => (m \in stored /\ Due(m, j)) \/ m = n
    BY <1>0, <1>1, <1>2, StoredMessages
  <1>5. /\ relay'[p].sent = relay[p].sent \cup {i}
        /\ \A q \in Relays : q # p => relay'[q] = relay[q]
    BY <1>0, <1>1, RelayFields
  <1>6. \A k \in outbox' : Waiting(k, j)' => k \in outbox /\ Waiting(k, j) /\ k # i
    <2> SUFFICES ASSUME NEW k \in outbox', Waiting(k, j)'
                 PROVE  k \in outbox /\ Waiting(k, j) /\ k # i
      OBVIOUS
    <2>1. OnJob(k, j) /\ ~Terminal(k) /\ \A q \in Relays : k \notin relay'[q].sent
      BY <1>1 DEF Waiting, OnJob, Terminal, Ids
    <2>2. k # i /\ \A q \in Relays : k \notin relay[q].sent
      BY <1>5, <2>1
    <2>3. QED
      BY <1>1, <2>1, <2>2 DEF Waiting
  <1>7. i \in outbox /\ \A q \in Relays : i \notin relay[q].sent
    BY <1>1 DEF RelayInv, BatchesApart
  <1>8. CASE OnJob(i, j) /\ ~Terminal(i)
    <2>1. PICK x : x = <<"row", i>>
      OBVIOUS
    <2>2. PICK y : y = <<"message", n>>
      OBVIOUS
    <2>3. x \in Tokens(j)
      BY <1>7, <1>8, <2>1 DEF Tokens, Waiting
    <2>4. \A w \in Workers : AtWork(w, j)' =>
             (AtWork(w, j) /\ x # <<"worker", w>>) \/ y = <<"worker", w>>
      BY <1>3, <2>1
    <2>5. \A m \in stored' : Due(m, j)' =>
             (m \in stored /\ Due(m, j) /\ x # <<"message", m>>) \/ y = <<"message", m>>
      BY <1>4, <2>1, <2>2
    <2>6. \A k \in outbox' : Waiting(k, j)' =>
             (k \in outbox /\ Waiting(k, j) /\ x # <<"row", k>>) \/ y = <<"row", k>>
      BY <1>6, <2>1
    <2>7. Moves(j)
      BY <2>3, <2>4, <2>5, <2>6, TokensMove
    <2>8. QED
      BY <2>7 DEF Accounted
  <1>9. CASE ~(OnJob(i, j) /\ ~Terminal(i))
    <2>1. ~Due(n, j)'
      BY <1>1, <1>4, <1>9 DEF Due, OnJob, Terminal, Ids
    <2>2. \A m \in stored' : Due(m, j)' => m \in stored /\ Due(m, j)
      BY <1>4, <2>1
    <2>3. Stays(j)
      BY <1>3, <1>6, <2>2, TokensStay
    <2>4. QED
      BY <2>3 DEF Accounted
  <1>10. QED
    BY <1>8, <1>9

LEMMA PublishFailsTokens ==
    ASSUME RelayInv, NEW j \in Jobs, NEW p \in Relays, NEW i \in Ids, RelayPublishFails(p, i)
    PROVE  Accounted(j)
  <1>0. Shape
    BY DEF RelayInv
  <1>1. /\ UNCHANGED <<work, worker>> /\ (Store(i) \/ UNCHANGED queue) /\ faults' = faults + 1
        /\ relay' = [relay EXCEPT ![p] = NoBatch] /\ outbox' = outbox \ relay[p].sent
    BY DEF RelayPublishFails, Fault, Marked
  <1>2. Grows
    BY <1>0, <1>1 DEF Grows, Shape, TypeOK, Ids
  <1>3. \A w \in Workers : AtWork(w, j)' => AtWork(w, j)
    BY <1>0, <1>1, <1>2, OldWorkers
  <1>4. PICK n : \A m \in stored' : Due(m, j)' => (m \in stored /\ Due(m, j)) \/ m = n
    BY <1>0, <1>1, <1>2, StoredMessages
  <1>5. PICK y : y = <<"message", n>>
    OBVIOUS
  <1>6. \A q \in Relays : q # p => relay'[q] = relay[q]
    BY <1>0, <1>1, RelayFields
  <1>7. \A k \in outbox' : Waiting(k, j)' => (k \in outbox /\ Waiting(k, j)) \/ y = <<"row", k>>
    BY <1>1, <1>6 DEF Waiting, OnJob, Terminal, Ids
  <1>8. \A m \in stored' : Due(m, j)' => (m \in stored /\ Due(m, j)) \/ y = <<"message", m>>
    BY <1>4, <1>5
  <1>9. Spawns(j)
    BY <1>1, <1>3, <1>7, <1>8, TokensSpawn
  <1>10. QED
    BY <1>9 DEF Accounted

LEMMA StreamTokens ==
    ASSUME RelayInv, NEW j \in Jobs, NEW m \in stream, RedeliveryDue(m) \/ MessageExpires(m)
    PROVE  Accounted(j)
  <1>0. Shape
    BY DEF RelayInv
  <1>1. UNCHANGED <<work, outbox, relay, stored, worker>>
    BY DEF RedeliveryDue, MessageExpires, Remove
  <1>2. Grows
    BY <1>0, <1>1 DEF Grows, Shape, TypeOK, Ids
  <1>3. CASE MessageExpires(m)
    <2>1. stream' \ pending' \subseteq stream \ pending
      BY <1>3 DEF MessageExpires, Remove
    <2>2. QED
      BY <1>1, <2>1, SettledTokens
  <1>4. CASE RedeliveryDue(m)
    <2>1. /\ stream' = stream /\ pending' = pending \ {m}
          /\ faults' = faults + 1 \/ \A w \in Workers : ~Holds(w, m)
      BY <1>4 DEF RedeliveryDue, Fault
    <2>2. \A w \in Workers : AtWork(w, j)' => AtWork(w, j)
      BY <1>0, <1>1, <1>2, OldWorkers
    <2>3. \A i \in outbox' : Waiting(i, j)' => i \in outbox /\ Waiting(i, j)
      BY <1>1 DEF Waiting, OnJob, Terminal, Ids
    <2>4. \A n \in stored' : n # m => (Due(n, j)' => n \in stored /\ Due(n, j))
      BY <1>0, <1>1, <1>2, <2>1, OldMessages DEF Holds
    <2>5. CASE faults' = faults + 1
      <3>1. PICK y : y = <<"message", m>>
        OBVIOUS
      <3>2. \A n \in stored' : Due(n, j)' => (n \in stored /\ Due(n, j)) \/ y = <<"message", n>>
        BY <2>4, <3>1
      <3>3. \A i \in outbox' : Waiting(i, j)' => (i \in outbox /\ Waiting(i, j)) \/ y = <<"row", i>>
        BY <2>3
      <3>4. Spawns(j)
        BY <2>2, <2>5, <3>2, <3>3, TokensSpawn
      <3>5. QED
        BY <3>4 DEF Accounted
    <2>6. CASE \A w \in Workers : ~Holds(w, m)
      <3>1. Due(m, j)' => Due(m, j)
        BY <1>1, <2>6 DEF Due, OnJob, Terminal, Ids
      <3>2. \A n \in stored' : Due(n, j)' => n \in stored /\ Due(n, j)
        BY <1>1, <2>4, <3>1
      <3>3. Stays(j)
        BY <2>2, <2>3, <3>2, TokensStay
      <3>4. QED
        BY <3>3 DEF Accounted
    <2>7. QED
      BY <2>1, <2>5, <2>6
  <1>5. QED
    BY <1>3, <1>4

LEMMA PullTokens ==
    ASSUME RelayInv, NEW j \in Jobs, NEW w \in Workers, NEW m \in stream, Pull(w, m)
    PROVE  Accounted(j)
  <1>0. Shape
    BY DEF RelayInv
  <1>1. /\ UNCHANGED <<work, outbox, relay, stored, stream>> /\ pending' = pending \cup {m}
        /\ m \notin pending /\ m \in stored /\ worker[w].pc = "idle"
        /\ worker' = [worker EXCEPT ![w] = [pc |-> "input", msg |-> m]]
    BY <1>0 DEF Pull, Shape, TypeOK
  <1>2. Grows
    BY <1>0, <1>1 DEF Grows, Shape, TypeOK, Ids
  <1>3. /\ worker'[w].pc = "input" /\ worker'[w].msg = m
        /\ \A v \in Workers : v # w => worker'[v] = worker[v]
    BY <1>0, <1>1 DEF Shape
  <1>4. \A v \in Workers : v # w => (AtWork(v, j)' => AtWork(v, j))
    BY <1>0, <1>2, <1>3, OldWorkers
  <1>5. \A n \in stored' : Due(n, j)' => n \in stored /\ Due(n, j) /\ n # m
    <2>1. ~Due(m, j)'
      BY <1>1, <1>3 DEF Due, Holds
    <2>2. \A n \in stored : n # m => (Due(n, j)' => Due(n, j))
      BY <1>0, <1>1, <1>2, <1>3, OldMessages DEF Holds
    <2>3. QED
      BY <1>1, <2>1, <2>2
  <1>6. \A i \in outbox' : Waiting(i, j)' => i \in outbox /\ Waiting(i, j)
    BY <1>1 DEF Waiting, OnJob, Terminal, Ids
  <1>7. CASE OnJob(m[1], j) /\ ~Terminal(m[1])
    <2>1. PICK x : x = <<"message", m>>
      OBVIOUS
    <2>2. PICK y : y = <<"worker", w>>
      OBVIOUS
    <2>3. x \in Tokens(j)
      BY <1>1, <1>7, <2>1 DEF Tokens, Due
    <2>4. \A v \in Workers : AtWork(v, j)' =>
             (AtWork(v, j) /\ x # <<"worker", v>>) \/ y = <<"worker", v>>
      BY <1>4, <2>1, <2>2
    <2>5. \A n \in stored' : Due(n, j)' =>
             (n \in stored /\ Due(n, j) /\ x # <<"message", n>>) \/ y = <<"message", n>>
      BY <1>5, <2>1
    <2>6. \A i \in outbox' : Waiting(i, j)' =>
             (i \in outbox /\ Waiting(i, j) /\ x # <<"row", i>>) \/ y = <<"row", i>>
      BY <1>6, <2>1
    <2>7. Moves(j)
      BY <2>3, <2>4, <2>5, <2>6, TokensMove
    <2>8. QED
      BY <2>7 DEF Accounted
  <1>8. CASE ~(OnJob(m[1], j) /\ ~Terminal(m[1]))
    <2>1. ~AtWork(w, j)'
      BY <1>1, <1>3, <1>8 DEF AtWork, OnJob, Terminal, Ids
    <2>2. \A v \in Workers : AtWork(v, j)' => AtWork(v, j)
      BY <1>4, <2>1
    <2>3. Stays(j)
      BY <1>5, <1>6, <2>2, TokensStay
    <2>4. QED
      BY <2>3 DEF Accounted
  <1>9. QED
    BY <1>7, <1>8

LEMMA DeliversTokens ==
    ASSUME RelayInv, NEW j \in Jobs, NEW w \in Workers, Delivers(w)
    PROVE  Accounted(j)
  <1>0. Shape /\ OneOutcomePerJob
    BY DEF RelayInv
  <1>1. PICK m \in stored : m = worker[w].msg
    BY <1>0, DeliveryStep, HeldExists
  <1>2. PICK i \in Ids : i = m[1]
    BY <1>0 DEF Shape, TypeOK
  <1>3. /\ Grows /\ RowsAdded /\ worker[w].pc # "idle" /\ relay' = relay
        /\ \/ Leaves(w)
           \/ /\ worker' = [worker EXCEPT ![w].pc = "executing"]
              /\ ~Terminal(i) /\ UNCHANGED queue /\ Ids' = Ids
        /\ \A n \in Ids' \ Ids :
              worker[w].pc = "executing" /\ Ended(i) /\ work'[n].job = work[i].job
        /\ Ack(m) \/ UNCHANGED queue
    BY <1>0, <1>1, <1>2, DeliveryStep
  <1>4. stored' = stored /\ stream' \ pending' \subseteq stream \ pending
    BY <1>3 DEF Ack, Remove, queue
  <1>5. \A k \in outbox' : Waiting(k, j)' =>
           (k \in outbox /\ Waiting(k, j)) \/ (k \in Ids' \ Ids /\ work'[k].job = j)
    BY <1>0, <1>3, OldRows
  <1>6. CASE Leaves(w)
    <2>1. worker'[w] = Idle /\ \A v \in Workers : v # w => worker'[v] = worker[v]
      BY <1>0, <1>6 DEF Leaves, Shape
    <2>2. \A v \in Workers : AtWork(v, j)' => v # w /\ AtWork(v, j)
      <3>1. ~AtWork(w, j)'
        BY <2>1 DEF AtWork, Idle
      <3>2. QED
        BY <1>0, <1>3, <2>1, <3>1, OldWorkers
    <2>3. \A n \in stored : n # m => (Due(n, j)' => Due(n, j))
      <3>1. \A n \in stored, v \in Workers : n # m => (Holds(v, n) => Holds(v, n)')
        BY <1>1, <2>1 DEF Holds
      <3>2. QED
        BY <1>0, <1>3, <1>4, <3>1, OldMessages
    <2>4. CASE OnJob(i, j) /\ (worker[w].pc = "executing" \/ ~Terminal(i))
      <3>1. PICK x : x = <<"worker", w>>
        OBVIOUS
      <3>2. x \in Tokens(j)
        BY <1>1, <1>2, <1>3, <2>4, <3>1 DEF Tokens, AtWork
      <3>3. PICK n : \A k \in Ids' \ Ids : k = n
        BY <1>0, <1>3, OneNew
      <3>4. PICK y : IF Ended(i) THEN y = <<"row", n>> ELSE y = <<"message", m>>
        OBVIOUS
      <3>5. \A v \in Workers : AtWork(v, j)' =>
               (AtWork(v, j) /\ x # <<"worker", v>>) \/ y = <<"worker", v>>
        BY <2>2, <3>1
      <3>6. Due(m, j)' => ~Ended(i)
        BY <1>2 DEF Due, Terminal, Ended
      <3>7. \A k \in stored' : Due(k, j)' =>
               (k \in stored /\ Due(k, j) /\ x # <<"message", k>>) \/ y = <<"message", k>>
        BY <1>4, <2>3, <3>1, <3>4, <3>6
      <3>8. \A k \in outbox' : Waiting(k, j)' =>
               (k \in outbox /\ Waiting(k, j) /\ x # <<"row", k>>) \/ y = <<"row", k>>
        BY <1>3, <1>5, <3>1, <3>3, <3>4
      <3>9. Moves(j)
        BY <3>2, <3>5, <3>7, <3>8, TokensMove
      <3>10. QED
        BY <3>9 DEF Accounted
    <2>5. CASE ~(OnJob(i, j) /\ (worker[w].pc = "executing" \/ ~Terminal(i)))
      <3>1. ~Due(m, j)'
        BY <1>0, <1>2, <1>3, <2>5, OldJobs DEF Due
      <3>2. \A n \in stored' : Due(n, j)' => n \in stored /\ Due(n, j)
        BY <1>4, <2>3, <3>1
      <3>3. \A k \in outbox' : Waiting(k, j)' => k \in outbox /\ Waiting(k, j)
        BY <1>3, <1>5, <2>5 DEF OnJob
      <3>4. Stays(j)
        BY <2>2, <3>2, <3>3, TokensStay
      <3>5. QED
        BY <3>4 DEF Accounted
    <2>6. QED
      BY <2>4, <2>5
  <1>7. CASE /\ worker' = [worker EXCEPT ![w].pc = "executing"]
             /\ ~Terminal(i) /\ UNCHANGED queue /\ Ids' = Ids
    <2>1. /\ worker'[w].msg = m /\ worker'[w].pc = "executing"
          /\ \A v \in Workers : v # w => worker'[v] = worker[v]
      BY <1>0, <1>1, <1>7 DEF Shape
    <2>2. AtWork(w, j)' => AtWork(w, j)
      <3>1. AtWork(w, j)' => OnJob(i, j)'
        BY <1>2, <2>1 DEF AtWork, OnJob
      <3>2. QED
        BY <1>0, <1>1, <1>2, <1>3, <1>7, <3>1, OldJobs DEF AtWork
    <2>3. \A v \in Workers : AtWork(v, j)' => AtWork(v, j)
      BY <1>0, <1>3, <2>1, <2>2, OldWorkers
    <2>4. \A n \in stored, v \in Workers : Holds(v, n) => Holds(v, n)'
      BY <1>1, <2>1 DEF Holds
    <2>5. \A n \in stored' : Due(n, j)' => n \in stored /\ Due(n, j)
      BY <1>0, <1>3, <1>4, <2>4, OldMessages
    <2>6. \A k \in outbox' : Waiting(k, j)' => k \in outbox /\ Waiting(k, j)
      BY <1>5, <1>7
    <2>7. Stays(j)
      BY <2>3, <2>5, <2>6, TokensStay
    <2>8. QED
      BY <2>7 DEF Accounted
  <1>8. QED
    BY <1>3, <1>6, <1>7

LEMMA FaultsKept ==
    ASSUME faults \in Nat, Next
    PROVE  faults <= faults'
  <1>1. (\E j \in Jobs : Enqueue(j)) => faults' = faults
    BY DEF Enqueue
  <1>2. (\E i \in Ids : SweepStaleExecutions(i)) => faults' = faults \/ Fault
    BY DEF SweepStaleExecutions
  <1>3. (\E p \in Relays : RelaySelects(p) \/ RelayCommits(p) \/ RelayRollsBack(p)) =>
            faults' = faults \/ Fault
    BY DEF RelaySelects, RelayCommits, RelayRollsBack
  <1>4. (\E p \in Relays : \E i \in Ids : RelayPublishes(p, i) \/ RelayPublishFails(p, i)) =>
            faults' = faults \/ Fault
    BY DEF RelayPublishes, RelayPublishFails
  <1>5. (\E i \in recent : WindowPasses(i)) => faults' = faults
    BY DEF WindowPasses
  <1>6. (\E m \in stream : RedeliveryDue(m) \/ MessageExpires(m)) => faults' = faults \/ Fault
    BY DEF RedeliveryDue, MessageExpires
  <1>7. (\E w \in Workers : \E m \in stream : Pull(w, m)) => faults' = faults
    BY DEF Pull
  <1>8. (\E w \in Workers : Delivers(w)) => faults' = faults \/ Fault
    BY DEF Delivers, FetchInput, Report, DeliveryFails, WorkerRestarts
  <1>9. faults' = faults \/ Fault
    BY <1>1, <1>2, <1>3, <1>4, <1>5, <1>6, <1>7, <1>8, Steps
  <1>10. QED
    BY <1>9 DEF Fault

LEMMA NextTokens ==
    ASSUME RelayInv, NEW j \in Jobs, Next
    PROVE  Accounted(j)
  <1>1. ASSUME NEW i \in recent, WindowPasses(i) PROVE Accounted(j)
    <2>1. UNCHANGED <<work, outbox, relay, stored, stream, pending, worker>>
      BY <1>1 DEF WindowPasses
    <2>2. QED
      BY <2>1, SettledTokens
  <1>2. QED
    BY <1>1, Steps, EnqueueTokens, SweepTokens, RelayTokens, PublishTokens, PublishFailsTokens,
       StreamTokens, PullTokens, DeliversTokens

(* Tokens are created with a job and by faults only: executing a job is     *)
(* bounded by them.                                                          *)
THEOREM WorkIsBoundedByFaults == Spec => []TokensBounded
  <1>1. Init => TokensBounded
    <2> SUFFICES ASSUME Init, NEW j \in Jobs
                 PROVE  IsFiniteSet(Tokens(j)) /\ Cardinality(Tokens(j)) <= 1 + faults
      BY DEF TokensBounded
    <2>1. Tokens(j) = {}
      BY DEF Init, Tokens, AtWork, Idle
    <2>2. QED
      BY <2>1, FS_EmptySet DEF Init
  <1>2. RelayInv /\ RelayInv' /\ TokensBounded /\ [Next]_vars => TokensBounded'
    <2> SUFFICES ASSUME RelayInv, RelayInv', TokensBounded, [Next]_vars PROVE TokensBounded'
      OBVIOUS
    <2>1. CASE Next
      <3>1. \A j \in Jobs : Stays(j) \/ Moves(j) \/ Spawns(j) \/ Starts(j)
        BY <2>1, NextTokens DEF Accounted
      <3>2. faults \in Nat /\ faults' \in Nat
        BY FaultsAssumption DEF RelayInv, Shape, TypeOK
      <3>3. faults <= faults'
        BY <2>1, <3>2, FaultsKept
      <3>4. QED
        BY <3>1, <3>2, <3>3, TokensCounted
    <2>2. CASE UNCHANGED vars
      BY <2>2 DEF vars, TokensBounded, Tokens, AtWork, Due, Waiting, OnJob, Terminal, Holds, Ids
    <2>3. QED
      BY <2>1, <2>2
  <1>3. QED
    BY <1>1, <1>2, RelaysApart, PTL DEF Spec

(* Two workers run attempts of the same job at a time only after a fault,   *)
(* and never more than the faults explain, for any number of workers.       *)
THEOREM RedundantWorkIsFaulty == Spec => []RedundantWorkNeedsFaults
  <1>1. TokensBounded /\ Shape => RedundantWorkNeedsFaults
    <2> SUFFICES ASSUME TokensBounded, Shape, NEW j \in Jobs
                 PROVE  Cardinality({w \in Workers : worker[w].pc = "executing"
                                                     /\ work[worker[w].msg[1]].job = j}) <= 1 + faults
      BY DEF RedundantWorkNeedsFaults
    <2> DEFINE S == {w \in Workers : worker[w].pc = "executing" /\ work[worker[w].msg[1]].job = j}
               f == [w \in S |-> <<"worker", w>>]
    <2>1. \A w \in S : AtWork(w, j)
      BY HeldExists DEF AtWork, OnJob
    <2>2. \A w \in S : <<"worker", w>> \in Tokens(j)
      BY <2>1 DEF Tokens
    <2>3. f \in Injection(S, Tokens(j))
      BY <2>2 DEF Injection, IsInjective
    <2>4. IsFiniteSet(Tokens(j)) /\ Cardinality(Tokens(j)) <= 1 + faults
      BY DEF TokensBounded
    <2> HIDE DEF f, S
    <2>5. IsFiniteSet(S) /\ Cardinality(S) <= Cardinality(Tokens(j))
      BY <2>3, <2>4, FS_Injection
    <2>6. Cardinality(S) \in Nat /\ Cardinality(Tokens(j)) \in Nat /\ faults \in Nat
      BY <2>4, <2>5, FS_CardinalityType, FaultsAssumption DEF Shape, TypeOK
    <2>7. Cardinality(S) <= 1 + faults
      BY <2>4, <2>5, <2>6
    <2>8. QED
      BY <2>7 DEF S
  <1>2. QED
    BY <1>1, WorkIsBoundedByFaults, QueueTyped, PTL

-------------------------------------------------------------------------------
(* The contract of a job. *)

Tries(j) == {i \in Ids : work[i].job = j}

(* The steps that a table of executions can take. *)
Same(k) == work'[k].job = work[k].job /\ work'[k].attempt = work[k].attempt

Idles ==
    /\ Ids' = Ids
    /\ \A k \in Ids : Same(k) /\ (Terminal(k) \/ Ended(k) => work'[k] = work[k])

Submits(j) ==
    /\ Ids' = Ids \cup {Len(work) + 1} /\ Tries(j) = {}
    /\ \A k \in Ids : work'[k] = work[k]
    /\ work'[Len(work) + 1] = [job |-> j, attempt |-> 1, state |-> "queued"]

Settles(i) ==
    /\ Ids' = Ids /\ ~Terminal(i) /\ Same(i) /\ Ended(i)
    /\ \A k \in Ids : k # i => work'[k] = work[k]

TriesAgain(i) ==
    /\ Ids' = Ids \cup {Len(work) + 1} /\ ~Terminal(i)
    /\ work[i].attempt < MaxAttempts
    /\ Same(i) /\ work'[i].state = "failed"
    /\ \A k \in Ids : k # i => work'[k] = work[k]
    /\ work'[Len(work) + 1] = [job |-> work[i].job, attempt |-> work[i].attempt + 1,
                               state |-> "queued"]

TableStep ==
    \/ Idles
    \/ \E j \in Jobs : Submits(j)
    \/ \E i \in Ids : Settles(i) \/ TriesAgain(i)

LEMMA StayIdles == ASSUME work' = work PROVE Idles
  BY DEF Idles, Ids, Same

LEMMA EndsTable ==
    ASSUME Shape, NEW i \in Ids, ~Terminal(i), NEW r \in {"succeeded", "failed", "retry"}, Ends(i, r)
    PROVE  Settles(i) \/ TriesAgain(i)
  <1>0. work \in Seq(Execution) /\ Len(work) \in Nat
    BY DEF Shape, TypeOK
  <1>1. CASE r = "retry"
    <2>0. Retries(i)
      BY <1>1 DEF Ends, Retries
    <2>1. /\ work' \in Seq(Execution)
          /\ Len(work') = Len(work) + 1
          /\ \A k \in Ids : k # i => work'[k] = work[k]
          /\ work'[i] = [job |-> work[i].job, attempt |-> work[i].attempt, state |-> "failed"]
          /\ work'[Len(work) + 1] = [job |-> work[i].job, attempt |-> work[i].attempt + 1,
                                     state |-> "queued"]
          /\ work[i].attempt < MaxAttempts
      BY <2>0, RetriedTable
    <2>2. Ids' = Ids \cup {Len(work) + 1}
      BY <1>0, <2>1 DEF Ids
    <2>3. QED
      BY <2>1, <2>2 DEF TriesAgain, Same
  <1>2. ASSUME work' = [work EXCEPT ![i].state = "succeeded"] PROVE Settles(i)
    <2>1. /\ Len(work') = Len(work)
          /\ \A k \in Ids : k # i => work'[k] = work[k]
          /\ work'[i] = [job |-> work[i].job, attempt |-> work[i].attempt, state |-> "succeeded"]
      BY <1>0, <1>2, StateWritten
    <2>2. Ids' = Ids
      BY <2>1 DEF Ids
    <2>3. QED
      BY <2>1, <2>2 DEF Settles, Same, Ended
  <1>3. ASSUME work' = [work EXCEPT ![i].state = "failed"] PROVE Settles(i)
    <2>1. /\ Len(work') = Len(work)
          /\ \A k \in Ids : k # i => work'[k] = work[k]
          /\ work'[i] = [job |-> work[i].job, attempt |-> work[i].attempt, state |-> "failed"]
      BY <1>0, <1>3, StateWritten
    <2>2. Ids' = Ids
      BY <2>1 DEF Ids
    <2>3. QED
      BY <2>1, <2>2 DEF Settles, Same, Ended
  <1>4. QED
    BY <1>1, <1>2, <1>3 DEF Ends

LEMMA InputTable ==
    ASSUME Shape, NEW i \in Ids, GetExecutionInput(i)
    PROVE  Idles
  <1>1. /\ Grows /\ Ids' = Ids /\ \A k \in Ids : Terminal(k)' <=> Terminal(k)
    BY InputGrows
  <1>2. QED
    BY <1>1 DEF Grows, Idles, Same, Ended, Terminal

LEMMA EnqueueTable ==
    ASSUME Shape, NEW j \in Jobs, Enqueue(j)
    PROVE  Submits(j)
  <1> DEFINE x == [job |-> j, attempt |-> 1, state |-> "queued"]
  <1>1. work \in Seq(Execution) /\ x \in Execution /\ work' = Append(work, x)
    BY LimitsAssumption DEF Shape, TypeOK, Execution, Enqueue
  <1>2. Tries(j) = {}
    BY DEF Enqueue, Tries
  <1> HIDE DEF x
  <1>3. /\ Len(work') = Len(work) + 1
        /\ \A k \in Ids : work'[k] = work[k]
        /\ work'[Len(work) + 1] = x
    BY <1>1, RowAppended DEF Ids
  <1>4. Ids' = Ids \cup {Len(work) + 1}
    BY <1>1, <1>3 DEF Ids
  <1>5. QED
    BY <1>2, <1>3, <1>4 DEF Submits, x

LEMMA ResultTable ==
    ASSUME Shape, NEW i \in Ids, NEW r \in Results, ApplyResult(i, r)
    PROVE  TableStep
  <1>1. CASE Accepts(i)
    BY <1>1, EndsTable DEF ApplyResult, Accepts, Results, TableStep
  <1>2. CASE ~Accepts(i)
    BY <1>2, StayIdles DEF ApplyResult, TableStep
  <1>3. QED
    BY <1>1, <1>2

LEMMA NextTable ==
    ASSUME Shape, Next
    PROVE  TableStep
  <1>1. ASSUME work' = work PROVE TableStep
    BY <1>1, StayIdles DEF TableStep
  <1>2. ASSUME NEW j \in Jobs, Enqueue(j) PROVE TableStep
    BY <1>2, EnqueueTable DEF TableStep
  <1>3. ASSUME NEW i \in Ids, SweepStaleExecutions(i) PROVE TableStep
    <2>1. ~Terminal(i) /\ (Ends(i, "retry") \/ Ends(i, "failed"))
      BY <1>3 DEF SweepStaleExecutions, Sweepable, Terminal
    <2>2. QED
      BY <2>1, EndsTable DEF TableStep
  <1>4. ASSUME NEW p \in Relays, RelaySelects(p) \/ RelayCommits(p) \/ RelayRollsBack(p)
        PROVE  TableStep
    BY <1>1, <1>4 DEF RelaySelects, RelayCommits, RelayRollsBack
  <1>5. ASSUME NEW p \in Relays, NEW i \in Ids, RelayPublishes(p, i) \/ RelayPublishFails(p, i)
        PROVE  TableStep
    BY <1>1, <1>5 DEF RelayPublishes, RelayPublishFails
  <1>6. ASSUME NEW i \in recent, WindowPasses(i) PROVE TableStep
    BY <1>1, <1>6 DEF WindowPasses
  <1>7. ASSUME NEW m \in stream, RedeliveryDue(m) \/ MessageExpires(m) PROVE TableStep
    BY <1>1, <1>7 DEF RedeliveryDue, MessageExpires
  <1>8. ASSUME NEW w \in Workers, NEW m \in stream, Pull(w, m) PROVE TableStep
    BY <1>1, <1>8 DEF Pull
  <1>9. ASSUME NEW w \in Workers, Delivers(w) PROVE TableStep
    <2>1. worker[w].pc # "idle"
      BY <1>9 DEF Delivers, FetchInput, Report, DeliveryFails, WorkerRestarts
    <2>2. PICK i \in Ids : i = worker[w].msg[1]
      BY <2>1, HeldExists
    <2>3. \/ GetExecutionInput(i) \/ work' = work
          \/ \E result \in Results : ApplyResult(i, result)
      BY <1>9, <2>2 DEF Delivers, FetchInput, Report, DeliveryFails, WorkerRestarts
    <2>4. QED
      BY <1>1, <2>3, InputTable, ResultTable DEF TableStep
  <1>10. QED
    BY <1>2, <1>3, <1>4, <1>5, <1>6, <1>7, <1>8, <1>9, Steps

(* The attempt that is open counts the tries of its job. *)
AttemptsCount ==
    \A i \in Ids : ~Terminal(i) => work[i].attempt = Cardinality(Tries(work[i].job))

(* JobOf, case by case: with one outcome per job no job is forked. *)
Described ==
    \A j \in Jobs :
        /\ IsFiniteSet(Tries(j)) /\ Cardinality(Tries(j)) \in Nat
        /\ Tries(j) = {} => JobOf(Tries(j)) = [outcome |-> "none", tries |-> 0]
        /\ \A i \in Tries(j) :
              /\ ~Terminal(i) =>
                    JobOf(Tries(j)) = [outcome |-> "open", tries |-> Cardinality(Tries(j))]
              /\ work[i].state = "succeeded" =>
                    JobOf(Tries(j)) = [outcome |-> "succeeded", tries |-> Cardinality(Tries(j))]
        /\ (Tries(j) # {} /\ \A i \in Tries(j) : work[i].state = "failed") =>
              JobOf(Tries(j)) = [outcome |-> "failed", tries |-> Cardinality(Tries(j))]

LEMMA JobDescribed == Shape /\ OneOutcomePerJob => Described
  <1> SUFFICES ASSUME Shape, OneOutcomePerJob, NEW j \in Jobs
               PROVE  /\ IsFiniteSet(Tries(j)) /\ Cardinality(Tries(j)) \in Nat
                      /\ Tries(j) = {} => JobOf(Tries(j)) = [outcome |-> "none", tries |-> 0]
                      /\ \A i \in Tries(j) :
                            /\ ~Terminal(i) => JobOf(Tries(j))
                                  = [outcome |-> "open", tries |-> Cardinality(Tries(j))]
                            /\ work[i].state = "succeeded" => JobOf(Tries(j))
                                  = [outcome |-> "succeeded", tries |-> Cardinality(Tries(j))]
                      /\ (Tries(j) # {} /\ \A i \in Tries(j) : work[i].state = "failed") =>
                            JobOf(Tries(j)) = [outcome |-> "failed", tries |-> Cardinality(Tries(j))]
    BY DEF Described
  <1> DEFINE T == Tries(j)
             open == {i \in T : ~Terminal(i)}
             succeeded == {i \in T : work[i].state = "succeeded"}
  <1>1. IsFiniteSet(T) /\ Cardinality(T) \in Nat
    <2>1. T \in SUBSET (1..Len(work)) /\ Len(work) \in Nat
      BY DEF Tries, Ids, Shape, TypeOK
    <2>2. IsFiniteSet(1..Len(work))
      BY <2>1, FS_Interval
    <2>3. QED
      BY <2>1, <2>2, FS_Subset, FS_CardinalityType
  <1>2. \A i, k \in open \cup succeeded : i = k
    BY DEF OneOutcomePerJob, Tries, Terminal
  <1>3. ~(Cardinality(open \cup succeeded) > 1)
    <2>1. CASE open \cup succeeded = {}
      BY <2>1, FS_EmptySet
    <2>2. ASSUME NEW i \in open \cup succeeded
          PROVE  Cardinality(open \cup succeeded) = 1
      <3>1. open \cup succeeded = {i}
        BY <1>2
      <3>2. QED
        BY <3>1, FS_Singleton
    <2>3. QED
      BY <2>1, <2>2
  <1>4. JobOf(T) = [outcome |-> IF T = {} THEN "none"
                                ELSE IF open # {} THEN "open"
                                ELSE IF succeeded # {} THEN "succeeded"
                                ELSE "failed",
                    tries |-> Cardinality(T)]
    BY <1>3 DEF JobOf
  <1>5. T = {} => Cardinality(T) = 0
    BY FS_EmptySet
  <1>6. \A i \in T : ~Terminal(i) => open # {}
    OBVIOUS
  <1>7. \A i \in T : work[i].state = "succeeded" => (open = {} /\ succeeded # {})
    <2> SUFFICES ASSUME NEW i \in T, work[i].state = "succeeded", NEW k \in open
                 PROVE  FALSE
      OBVIOUS
    <2>1. i = k
      BY <1>2
    <2>2. QED
      BY <2>1 DEF Terminal
  <1>8. (\A i \in T : work[i].state = "failed") => (open = {} /\ succeeded = {})
    BY DEF Terminal
  <1> HIDE DEF T, open, succeeded
  <1>9. QED
    BY <1>1, <1>4, <1>5, <1>6, <1>7, <1>8 DEF T

(* The tries of a job after a step. *)
LEMMA TriesAfter ==
    ASSUME Shape, Shape', NEW j \in Jobs
    PROVE  /\ (Ids' = Ids /\ \A k \in Ids : work'[k].job = work[k].job) => Tries(j)' = Tries(j)
           /\ (Ids' = Ids \cup {Len(work) + 1} /\ \A k \in Ids : work'[k].job = work[k].job) =>
                 /\ Len(work) + 1 \notin Tries(j)
                 /\ Tries(j)' = IF work'[Len(work) + 1].job = j
                                THEN Tries(j) \cup {Len(work) + 1} ELSE Tries(j)
  <1>1. Len(work) \in Nat
    BY DEF Shape, TypeOK
  <1>2. QED
    BY <1>1 DEF Tries, Ids

LEMMA AttemptsStep ==
    ASSUME Shape, Shape', OneOutcomePerJob, Described, AttemptsCount, TableStep
    PROVE  AttemptsCount'
  <1>0. Len(work) \in Nat /\ \A k \in Ids : work[k] \in Execution
    BY DEF Shape, TypeOK, Ids
  <1>1. CASE Idles
    <2>1. \A j \in Jobs : Tries(j)' = Tries(j)
      BY <1>1, TriesAfter DEF Idles, Same
    <2>2. \A k \in Ids' : /\ k \in Ids /\ work[k].job \in Jobs /\ Same(k)
                          /\ ~Terminal(k)' => ~Terminal(k)
      BY <1>0, <1>1 DEF Idles, Terminal, Execution
    <2>3. QED
      BY <2>1, <2>2 DEF AttemptsCount, Same
  <1>2. ASSUME NEW j \in Jobs, Submits(j) PROVE AttemptsCount'
    <2> DEFINE n == Len(work) + 1
    <2>1. /\ Tries(j)' = {n}
          /\ \A k \in Jobs : k # j => Tries(k)' = Tries(k)
      BY <1>2, TriesAfter DEF Submits
    <2>2. Cardinality({n}) = 1
      BY FS_Singleton
    <2>3. work'[n].attempt = 1 /\ work'[n].job = j
      BY <1>2 DEF Submits
    <2>4. \A k \in Ids : work[k].job \in Jobs /\ work[k].job # j
      BY <1>0, <1>2 DEF Submits, Tries, Execution
    <2>5. \A k \in Ids : work'[k] = work[k] /\ (~Terminal(k)' => ~Terminal(k))
      BY <1>2 DEF Submits, Terminal
    <2>6. Ids' = Ids \cup {n}
      BY <1>2 DEF Submits
    <2> HIDE DEF n
    <2>7. QED
      BY <2>1, <2>2, <2>3, <2>4, <2>5, <2>6 DEF AttemptsCount
  <1>3. ASSUME NEW i \in Ids, Settles(i) PROVE AttemptsCount'
    <2>1. \A j \in Jobs : Tries(j)' = Tries(j)
      BY <1>3, TriesAfter DEF Settles, Same
    <2>2. \A k \in Ids' : /\ k \in Ids /\ work[k].job \in Jobs /\ Same(k)
                          /\ ~Terminal(k)' => ~Terminal(k)
      BY <1>0, <1>3 DEF Settles, Terminal, Ended, Execution, Same
    <2>3. QED
      BY <2>1, <2>2 DEF AttemptsCount, Same
  <1>4. ASSUME NEW i \in Ids, TriesAgain(i) PROVE AttemptsCount'
    <2>n. PICK n : n = Len(work) + 1
      OBVIOUS
    <2>j. PICK j \in Jobs : j = work[i].job
      BY <1>0 DEF Execution
    <2>0. n = Len(work) + 1 /\ j = work[i].job
      BY <2>n, <2>j
    <2>1. /\ n \notin Tries(j) /\ Tries(j)' = Tries(j) \cup {n}
          /\ \A k \in Jobs : k # j => Tries(k)' = Tries(k)
      BY <1>4, <2>0, TriesAfter DEF TriesAgain, Same
    <2>2. Cardinality(Tries(j) \cup {n}) = Cardinality(Tries(j)) + 1
      BY <2>0, <2>1, FS_AddElement DEF Described
    <2>3. work'[n].attempt = work[i].attempt + 1 /\ work'[n].job = j /\ ~Terminal(i)
      BY <1>4, <2>0 DEF TriesAgain
    <2>4. work[i].attempt = Cardinality(Tries(j))
      BY <2>0, <2>3 DEF AttemptsCount
    <2>5. \A k \in Ids : ~Terminal(k)' => k # i /\ work'[k] = work[k] /\ ~Terminal(k)
      BY <1>4 DEF TriesAgain, Terminal
    <2>6. \A k \in Ids : ~Terminal(k)' => work[k].job # j /\ work[k].job \in Jobs
      BY <1>0, <2>0, <2>3, <2>5 DEF OneOutcomePerJob, Terminal, Execution
    <2>7. Ids' = Ids \cup {n}
      BY <1>4, <2>0 DEF TriesAgain
    <2>8. ASSUME NEW k \in Ids', ~Terminal(k)', NEW h, h = work'[k].job
          PROVE  work'[k].attempt = Cardinality(Tries(h)')
      <3>1. CASE k = n
        BY <2>1, <2>2, <2>3, <2>4, <2>8, <3>1
      <3>2. CASE k \in Ids
        <4>1. h \in Jobs /\ h # j /\ h = work[k].job /\ ~Terminal(k) /\ work'[k] = work[k]
          BY <2>5, <2>6, <2>8, <3>2
        <4>2. Tries(h)' = Tries(h)
          BY <2>1, <4>1
        <4>3. QED
          BY <3>2, <4>1, <4>2 DEF AttemptsCount
      <3>3. QED
        BY <2>7, <3>1, <3>2
    <2>9. QED
      BY <2>8 DEF AttemptsCount
  <1>5. QED
    BY <1>1, <1>2, <1>3, <1>4 DEF TableStep

(* A step of the queue is a step of the contract for every job. *)
LEMMA ContractStep ==
    ASSUME Shape, Shape', OneOutcomePerJob, Described, Described', AttemptsCount, TableStep,
           NEW j \in Jobs
    PROVE  Contract!Step(JobOf(Tries(j)), JobOf(Tries(j))')
  <1> USE DEF Contract!Step, Contract!Submitted, Contract!Retried, Contract!Finished,
              Contract!NotSubmitted
  <1>0. Len(work) \in Nat /\ \A k \in Ids : work[k] \in Execution
    BY DEF Shape, TypeOK, Ids
  <1>1. \A k \in Tries(j) : k \in Ids /\ (~Terminal(k) \/ work[k].state \in {"succeeded", "failed"})
    BY DEF Tries, Terminal
  <1>2. ASSUME Tries(j)' = Tries(j), \A k \in Tries(j) : work'[k] = work[k]
        PROVE  JobOf(Tries(j))' = JobOf(Tries(j))
    BY <1>2 DEF JobOf, Terminal
  <1>3. CASE Idles
    <2>1. Tries(j)' = Tries(j)
      BY <1>3, TriesAfter DEF Idles, Same
    <2>2. CASE \A k \in Tries(j) : work'[k] = work[k]
      BY <1>2, <2>1, <2>2
    <2>3. ASSUME NEW k \in Tries(j), work'[k] # work[k]
          PROVE  JobOf(Tries(j))' = JobOf(Tries(j))
      <3>1. ~Terminal(k) /\ ~Terminal(k)'
        BY <1>1, <1>3, <2>3 DEF Idles, Ended, Terminal
      <3>2. QED
        BY <2>1, <3>1 DEF Described
    <2>4. QED
      BY <2>2, <2>3
  <1>4. ASSUME NEW h \in Jobs, Submits(h)
        PROVE  Contract!Step(JobOf(Tries(j)), JobOf(Tries(j))')
    <2>1. CASE h # j
      <3>1. Tries(j)' = Tries(j)
        BY <1>4, <2>1, TriesAfter DEF Submits
      <3>2. QED
        BY <1>1, <1>2, <1>4, <3>1 DEF Submits
    <2>2. CASE h = j
      <3>0. PICK n : n = Len(work) + 1
        OBVIOUS
      <3>1. Tries(j) = {} /\ Tries(j)' = {n} /\ ~Terminal(n)'
        BY <1>4, <2>2, <3>0, TriesAfter DEF Submits, Terminal
      <3>2. Cardinality({n}) = 1
        BY FS_Singleton
      <3>3. JobOf(Tries(j)) = [outcome |-> "none", tries |-> 0]
        BY <3>1 DEF Described
      <3>4. JobOf(Tries(j))' = [outcome |-> "open", tries |-> 1]
        BY <3>1, <3>2 DEF Described
      <3>5. QED
        BY <3>3, <3>4
    <2>3. QED
      BY <2>1, <2>2
  <1>5. ASSUME NEW i \in Ids, Settles(i)
        PROVE  Contract!Step(JobOf(Tries(j)), JobOf(Tries(j))')
    <2>1. Tries(j)' = Tries(j)
      BY <1>5, TriesAfter DEF Settles, Same
    <2>2. CASE i \notin Tries(j)
      BY <1>1, <1>2, <1>5, <2>1, <2>2 DEF Settles
    <2>3. CASE i \in Tries(j)
      <3>1. JobOf(Tries(j)) = [outcome |-> "open", tries |-> Cardinality(Tries(j))]
        BY <1>5, <2>3 DEF Described, Settles
      <3>2. \A k \in Tries(j) : k # i => work'[k].state = "failed"
        BY <1>1, <1>5, <2>3 DEF OneOutcomePerJob, Settles, Tries, Terminal
      <3>3. \/ JobOf(Tries(j))' = [outcome |-> "succeeded", tries |-> Cardinality(Tries(j))]
            \/ JobOf(Tries(j))' = [outcome |-> "failed", tries |-> Cardinality(Tries(j))]
        <4>1. CASE work'[i].state = "succeeded"
          BY <2>1, <2>3, <4>1 DEF Described
        <4>2. CASE work'[i].state = "failed"
          BY <2>1, <2>3, <3>2, <4>2 DEF Described
        <4>3. QED
          BY <1>5, <4>1, <4>2 DEF Settles, Ended
      <3>4. QED
        BY <3>1, <3>3
    <2>4. QED
      BY <2>2, <2>3
  <1>6. ASSUME NEW i \in Ids, TriesAgain(i)
        PROVE  Contract!Step(JobOf(Tries(j)), JobOf(Tries(j))')
    <2>1. CASE i \notin Tries(j)
      <3>1. Tries(j)' = Tries(j)
        BY <1>6, <2>1, TriesAfter DEF TriesAgain, Same, Tries
      <3>2. QED
        BY <1>1, <1>2, <1>6, <2>1, <3>1 DEF TriesAgain
    <2>2. CASE i \in Tries(j)
      <3>0. PICK n : n = Len(work) + 1
        OBVIOUS
      <3>1. /\ n \notin Tries(j) /\ Tries(j)' = Tries(j) \cup {n} /\ ~Terminal(n)'
            /\ ~Terminal(i) /\ work[i].attempt < MaxAttempts
        BY <1>6, <2>2, <3>0, TriesAfter DEF TriesAgain, Same, Tries, Terminal
      <3>2. Cardinality(Tries(j) \cup {n}) = Cardinality(Tries(j)) + 1
        BY <3>1, FS_AddElement DEF Described
      <3>3. JobOf(Tries(j)) = [outcome |-> "open", tries |-> Cardinality(Tries(j))]
        BY <2>2, <3>1 DEF Described
      <3>4. JobOf(Tries(j))' = [outcome |-> "open", tries |-> Cardinality(Tries(j)) + 1]
        BY <3>1, <3>2 DEF Described
      <3>5. Cardinality(Tries(j)) < MaxAttempts
        BY <1>1, <2>2, <3>1 DEF AttemptsCount, Tries
      <3>6. QED
        BY <3>3, <3>4, <3>5
    <2>3. QED
      BY <2>1, <2>2
  <1>7. QED
    BY <1>3, <1>4, <1>5, <1>6 DEF TableStep

(* The outbox, the queue and the workers implement the contract of a job:   *)
(* at most MaxAttempts tries, one at a time, and one outcome that stays,    *)
(* although every hop may happen twice or be lost.                          *)
THEOREM QueueKeepsContract == Spec => WorkKeepsContract
  <1> DEFINE job == [j \in Jobs |-> JobOf({i \in Ids : work[i].job = j})]
  <1>0. Shape /\ OneOutcomePerJob => Described
    BY JobDescribed
  <1>1. Init => AttemptsCount
    BY DEF Init, AttemptsCount, Ids
  <1>2. Shape /\ Shape' /\ OneOutcomePerJob /\ Described /\ AttemptsCount /\ [Next]_vars
          => AttemptsCount'
    <2> SUFFICES ASSUME Shape, Shape', OneOutcomePerJob, Described, AttemptsCount, [Next]_vars
                 PROVE  AttemptsCount'
      OBVIOUS
    <2>1. CASE UNCHANGED vars
      BY <2>1 DEF vars, AttemptsCount, Tries, Terminal, Ids
    <2>2. CASE Next
      BY <2>2, NextTable, AttemptsStep
    <2>3. QED
      BY <2>1, <2>2
  <1>3. Init => Contract!Init
    <2> SUFFICES ASSUME Init PROVE Contract!Init
      OBVIOUS
    <2>1. \A j \in Jobs : {i \in Ids : work[i].job = j} = {}
      BY DEF Init, Ids
    <2>2. JobOf({}) = [outcome |-> "none", tries |-> 0]
      BY FS_EmptySet DEF JobOf
    <2>3. QED
      BY <2>1, <2>2 DEF Contract!Init, Contract!NotSubmitted
  <1>4. Shape /\ Shape' /\ OneOutcomePerJob /\ Described /\ Described' /\ AttemptsCount /\ [Next]_vars
          => [Contract!Next]_job
    <2> SUFFICES ASSUME Shape, Shape', OneOutcomePerJob, Described, Described', AttemptsCount,
                        [Next]_vars
                 PROVE  [Contract!Next]_job
      OBVIOUS
    <2>1. CASE UNCHANGED vars
      BY <2>1 DEF vars, JobOf, Terminal, Ids
    <2>2. CASE Next
      <3>1. \A j \in Jobs : Contract!Step(JobOf(Tries(j)), JobOf(Tries(j))')
        BY <2>2, NextTable, ContractStep
      <3>2. \A j \in Jobs : job[j] = JobOf(Tries(j)) /\ job'[j] = JobOf(Tries(j))'
        BY DEF Tries
      <3>3. QED
        BY <3>1, <3>2 DEF Contract!Next, Tries
    <2>3. QED
      BY <2>1, <2>2
  <1>5. QED
    BY <1>0, <1>1, <1>2, <1>3, <1>4, QueueTyped, PTL DEF Spec, WorkKeepsContract, Contract!Spec

===============================================================================
