-------------------------------- MODULE Console --------------------------------
(***************************************************************************)
(* How the operator console keeps up with the control plane: the in-process *)
(* broker of the API (internal/events/broker.go) and its event stream       *)
(* (streamEvents in httpapi/server.go), the console's EventSource           *)
(* (web/src/live-events.tsx), its queries and mutations (api/client.ts,     *)
(* api/queries.ts) and the pages that use them.                             *)
(*                                                                          *)
(* There is one monitor and one execution of it.  Queries of the console do *)
(* not depend on each other, so a behaviour follows one of them, watched.   *)
(* ver counts the changes of what it shows; what they are is the subject of *)
(* ControlPlane.  Handlers of the API publish an event after they have      *)
(* committed; the scheduler and the worker's claim publish nothing.  Time   *)
(* is not measured: cached data may be younger or older than staleTime when *)
(* a page opens.  The query library (TanStack Query) is external.           *)
(***************************************************************************)
EXTENDS Naturals, Sequences

CONSTANTS
    Buffer,          \* events a subscriber's channel holds (32)
    MaxChanges,      \* bound: changes nobody waits for
    MaxVisits,       \* bound: pages the operator opens
    MaxFaults        \* bound: failed requests and streams, API crashes

ASSUME BufferAssumption == Buffer \in Nat \ {0}
ASSUME ConsoleBounds == MaxChanges \in Nat /\ MaxVisits \in Nat /\ MaxFaults \in Nat

VARIABLES
    watched,         \* the query that is followed
    db,              \* the version of what it shows and the execution's state
    up,              \* the API process runs
    calls,           \* handlers that have committed and not yet published
    source,          \* the provider's EventSource
    channel,         \* its channel at the broker, with what is on the wire
    page,            \* the page the operator is on
    visits,          \* pages opened so far
    query,           \* the watched query in the query cache
    mutation,        \* the request of the operator that is under way
    told,            \* newest change of which the query was told
    missed,          \* the query may have missed a change
    faults           \* number of faults so far

server == <<watched, db, up, calls>>
stream == <<source, channel>>
client == <<page, visits, query, mutation>>
vars == <<server, stream, client, told, missed, faults>>

Queries == {"monitors", "monitor", "execution"}

Pages == {"dashboard", "new", "monitor", "review", "execution", "other"}

(* The page that observes a query. *)
PageOf(q) ==
    CASE q = "monitors" -> "dashboard"
      [] q = "monitor" -> "monitor"
      [] q = "execution" -> "execution"

Active == page = PageOf(watched)

NoData == [ver |-> 0, exec |-> "absent"]

EmptyQuery ==
    [data |-> NoData, status |-> "pending", fetch |-> "idle", got |-> NoData,
     retried |-> FALSE, invalid |-> FALSE]

NoRequest == [st |-> "none", request |-> "create", ver |-> 0]

(* An event names the monitor, and perhaps the execution, that changed. *)
AboutMonitor == {"monitors", "monitor"}
AboutExecution == {"monitors", "monitor", "execution"}

Fault == faults < MaxFaults /\ faults' = faults + 1

Larger(a, b) == IF a < b THEN b ELSE a

-------------------------------------------------------------------------------
(* Queries. *)

Fetching == query.fetch # "idle"

Started(q) == [q EXCEPT !.fetch = "sent", !.got = NoData, !.retried = FALSE]

(* invalidateQueries: an observed query is fetched again, and a refetch     *)
(* that is under way is dropped; a first load is not.                        *)
Invalidated ==
    IF Active /\ (Fetching => query.data # NoData)
    THEN Started(query)
    ELSE [query EXCEPT !.invalid = TRUE]

(* The invalidation leaves no trace once the request under way is answered. *)
Absorbed == Fetching /\ (query.data = NoData \/ ~Active)

(* Faulty variant (cancelRefetch: false): the request that is under way is  *)
(* taken to be enough.                                                       *)
InvalidatedLazily(about) ==
    IF watched \notin about THEN query
    ELSE IF Active /\ ~Fetching THEN Started(query)
    ELSE [query EXCEPT !.invalid = TRUE]

AfterInvalidation(about) == IF watched \in about THEN Invalidated ELSE query

(* Bookkeeping: the query is told of change ver. *)
Tell(about, ver) ==
    /\ told' = IF watched \in about /\ ~Absorbed THEN Larger(told, ver) ELSE told
    /\ missed' = (missed \/ (watched \in about /\ Absorbed))

(* A page opens: no data, invalid data and, perhaps, data older than        *)
(* staleTime are fetched.                                                    *)
Mounted(q, p, old) ==
    IF p # page /\ p = PageOf(watched) /\ q.fetch = "idle"
         /\ (q.data = NoData \/ q.invalid \/ old)
    THEN Started(q)
    ELSE q

-------------------------------------------------------------------------------
Init ==
    /\ watched \in Queries
    /\ db = [ver |-> 0, exec |-> "none"]
    /\ up = TRUE
    /\ calls = {}
    /\ source = "connecting"
    /\ channel = <<>>
    /\ page \in Pages \ {"execution"} /\ visits = 0
    /\ query = IF Active THEN Started(EmptyQuery) ELSE EmptyQuery
    /\ mutation = NoRequest
    /\ told = 0
    /\ missed = FALSE
    /\ faults = 0

-------------------------------------------------------------------------------
(* The broker. *)

(* Publish: an event is dropped for a subscriber whose channel is full. *)
Publish(event) ==
    LET heard == source = "open" /\ Len(channel) < Buffer IN
    /\ channel' = IF heard THEN Append(channel, event) ELSE channel
    /\ missed' = (missed \/ (~heard /\ watched \in event.about))

-------------------------------------------------------------------------------
(* The API and whoever else writes the database. *)

NextVer(about) == IF watched \in about THEN db.ver + 1 ELSE db.ver

Changed(exec, about) == [ver |-> NextVer(about), exec |-> exec]

Event(about) == [ver |-> NextVer(about), about |-> about]

(* Another operator's request, or a worker's result: committed here and     *)
(* published in a second step.                                               *)
Commits(exec, about) ==
    /\ up
    /\ db' = Changed(exec, about)
    /\ calls' = calls \cup {Event(about)}
    /\ UNCHANGED <<watched, up, stream, client, told, missed, faults>>

(* A write of another process: the claim of an execution's input (its       *)
(* handler publishes nothing), the scheduler's claim of a due monitor, a    *)
(* sweep.                                                                    *)
ChangesQuietly(exec, about) ==
    /\ db' = Changed(exec, about)
    /\ missed' = TRUE
    /\ UNCHANGED <<watched, up, calls, stream, client, told, faults>>

OtherChange ==
    /\ db.ver < MaxChanges
    /\ Commits(db.exec, AboutMonitor) \/ ChangesQuietly(db.exec, AboutMonitor)

ExecutionStarts == db.exec = "queued" /\ ChangesQuietly("running", AboutExecution)

ExecutionEnds ==
    /\ db.exec = "running"
    /\ Commits("done", AboutExecution) \/ ChangesQuietly("done", AboutExecution)

CallPublishes(event) ==
    /\ event \in calls
    /\ Publish(event)
    /\ calls' = calls \ {event}
    /\ UNCHANGED <<watched, db, up, source, client, told, faults>>

(* Requests under way fail, streams break, and what was committed and not   *)
(* published is never announced.                                             *)
ApiCrashes ==
    /\ up /\ Fault
    /\ up' = FALSE
    /\ calls' = {} /\ channel' = <<>>
    /\ source' = IF source = "open" THEN "broken" ELSE source
    /\ query' = IF Fetching THEN [query EXCEPT !.fetch = "failing"] ELSE query
    /\ mutation' = IF mutation = NoRequest THEN NoRequest ELSE [mutation EXCEPT !.st = "failing"]
    /\ missed' = (missed \/ calls # {} \/ mutation # NoRequest \/ channel # <<>>)
    /\ UNCHANGED <<watched, db, page, visits, told>>

ApiRestarts ==
    /\ ~up
    /\ up' = TRUE
    /\ UNCHANGED <<watched, db, calls, stream, client, told, missed, faults>>

-------------------------------------------------------------------------------
(* LiveEventsProvider. *)

(* onopen: streamEvents has subscribed and flushed its first line. *)
StreamOpens ==
    /\ source = "connecting" /\ up
    /\ source' = "open"
    /\ UNCHANGED <<server, channel, client, told, missed, faults>>

(* Faulty variant: only unnamed events are listened to. *)
UnnamedOnly(event) == UNCHANGED <<query, told, missed>>

(* handleMessage: the queries that the event names are invalidated. *)
handleMessage(event) ==
    /\ query' = AfterInvalidation(event.about)
    /\ Tell(event.about, event.ver)

EventArrives ==
    /\ source = "open" /\ channel # <<>>
    /\ channel' = Tail(channel)
    /\ handleMessage(Head(channel))
    /\ UNCHANGED <<server, source, page, visits, mutation, faults>>

(* onerror closes the source, which ends its subscription, and schedules    *)
(* connect in five seconds.                                                  *)
onerror == "waiting"

StreamFails ==
    /\ \/ source = "broken" /\ UNCHANGED faults
       \/ source = "connecting" /\ ~up /\ UNCHANGED faults
       \/ source \in {"connecting", "open"} /\ Fault
    /\ source' = onerror
    /\ channel' = <<>>
    /\ missed' = (missed \/ channel # <<>>)
    /\ UNCHANGED <<server, client, told>>

connect ==
    /\ source = "waiting"
    /\ source' = "connecting"
    /\ UNCHANGED <<server, channel, client, told, missed, faults>>

-------------------------------------------------------------------------------
(* Requests of the queries: request() in client.ts, retried once. *)

ApiReads ==
    /\ query.fetch = "sent" /\ up
    /\ query' = [query EXCEPT !.fetch = "read", !.got = db]
    /\ UNCHANGED <<server, stream, page, visits, mutation, told, missed, faults>>

ResponseArrives ==
    /\ query.fetch = "read"
    /\ query' = [EmptyQuery EXCEPT !.data = query.got, !.status = "success"]
    /\ UNCHANGED <<server, stream, page, visits, mutation, told, missed, faults>>

RequestFails ==
    /\ \/ query.fetch = "failing" /\ UNCHANGED faults
       \/ query.fetch = "sent" /\ ~up /\ UNCHANGED faults
       \/ query.fetch \in {"sent", "read"} /\ Fault
    /\ \/ /\ query.retried
          /\ query' = [EmptyQuery EXCEPT !.data = query.data, !.status = "error", !.invalid = TRUE]
          /\ missed' = TRUE
       \/ /\ ~query.retried
          /\ query' = [Started(query) EXCEPT !.retried = TRUE]
          /\ UNCHANGED missed
    /\ UNCHANGED <<server, stream, page, visits, mutation, told>>

(* Faulty variant: an execution that waits in the queue is not polled. *)
PolledWhenRunning == watched = "monitors" \/ (watched = "execution" /\ query.data.exec = "running")

(* refetchInterval. *)
Polled ==
    \/ watched = "monitors"
    \/ watched = "execution" /\ query.data.exec \in {"queued", "running"}

Polls ==
    /\ Active /\ Polled /\ ~Fetching
    /\ query' = Started(query)
    /\ UNCHANGED <<server, stream, page, visits, mutation, told, missed, faults>>

-------------------------------------------------------------------------------
(* The operator. *)

Visits(p) ==
    /\ p # page /\ visits < MaxVisits
    /\ p = "execution" => db.exec # "none"
    /\ page' = p /\ visits' = visits + 1
    /\ \E old \in BOOLEAN : query' = Mounted(query, p, old)
    /\ UNCHANGED <<server, stream, mutation, told, missed, faults>>

(* createMonitor (of another monitor), updateMonitor or confirmMonitor,     *)
(* runCheck, reviewRevision.                                                 *)
Requests == {"create", "change", "check", "review"}

OfferedOn(p) ==
    CASE p = "new" -> {"create"}
      [] p = "monitor" -> {"change", "check"}
      [] p = "review" -> {"review"}
      [] OTHER -> {}

AboutRequest(r) ==
    CASE r = "create" -> {"monitors"}
      [] r = "check" -> AboutExecution
      [] OTHER -> AboutMonitor

(* The queries that the mutation's onSuccess invalidates. *)
onSuccess(r) ==
    CASE r = "create" -> {"monitors"}
      [] r = "check" -> {"monitor"}
      [] OTHER -> {"monitor", "monitors"}

(* Where its page goes afterwards. *)
NextPage(r) ==
    CASE r = "check" -> "execution"
      [] r = "review" -> "monitor"
      [] r = "create" -> "other"
      [] OTHER -> page

Submits(r) ==
    /\ mutation = NoRequest /\ r \in OfferedOn(page)
    /\ mutation' = [st |-> "sent", request |-> r, ver |-> 0]
    /\ UNCHANGED <<server, stream, page, visits, query, told, missed, faults>>

(* The handler commits, publishes and answers; a check is refused while     *)
(* there is an execution.                                                    *)
RequestCommits ==
    /\ mutation.st = "sent" /\ up /\ db.ver < MaxChanges + 1
    /\ mutation.request = "check" => db.exec = "none"
    /\ LET about == AboutRequest(mutation.request) IN
       /\ db' = Changed(IF mutation.request = "check" THEN "queued" ELSE db.exec, about)
       /\ mutation' = [mutation EXCEPT !.st = "committed", !.ver = NextVer(about)]
    /\ UNCHANGED <<watched, up, calls, stream, page, visits, query, told, missed, faults>>

RequestPublishes ==
    /\ mutation.st = "committed"
    /\ Publish([ver |-> mutation.ver, about |-> AboutRequest(mutation.request)])
    /\ mutation' = [mutation EXCEPT !.st = "published"]
    /\ UNCHANGED <<server, source, page, visits, query, told, faults>>

RequestAnswered ==
    /\ mutation.st = "published"
    /\ LET r == mutation.request IN
       /\ query' = Mounted(AfterInvalidation(onSuccess(r)), NextPage(r), FALSE)
       /\ Tell(onSuccess(r), mutation.ver)
       /\ page' = NextPage(r)
    /\ mutation' = NoRequest
    /\ UNCHANGED <<server, stream, visits, faults>>

(* Refused, or the answer is lost: mutations are not retried. *)
RequestRejected ==
    /\ \/ mutation.st \in {"sent", "failing"} /\ UNCHANGED faults
       \/ mutation.st = "published" /\ Fault
    /\ mutation' = NoRequest
    /\ UNCHANGED <<server, stream, page, visits, query, told, missed>>

-------------------------------------------------------------------------------
ApiStep == (\E event \in calls : CallPublishes(event)) \/ RequestPublishes \/ ApiRestarts

StreamStep == StreamOpens \/ EventArrives \/ StreamFails

QueryStep == ApiReads \/ ResponseArrives \/ RequestFails

MutationStep == RequestCommits \/ RequestAnswered \/ RequestRejected

Next ==
    \/ OtherChange \/ ExecutionStarts \/ ExecutionEnds
    \/ ApiStep \/ ApiCrashes
    \/ StreamStep \/ connect
    \/ QueryStep \/ Polls
    \/ \E p \in Pages : Visits(p)
    \/ \E r \in Requests : Submits(r)
    \/ MutationStep

Spec == Init /\ [][Next]_vars

(* Timers fire, requests and streams are answered or fail, the API is       *)
(* restarted, and executions end (WorkQueue).                                *)
Fairness ==
    /\ WF_vars(ExecutionStarts) /\ WF_vars(ExecutionEnds)
    /\ WF_vars(ApiStep) /\ WF_vars(MutationStep)
    /\ WF_vars(StreamStep) /\ WF_vars(connect)
    /\ WF_vars(QueryStep) /\ WF_vars(Polls)

FairSpec == Spec /\ Fairness

-------------------------------------------------------------------------------
(* Properties. *)

(* A page never shows data older than a change it was told of, by an event  *)
(* or by the answer to its own request, although both race with requests    *)
(* that were sent before the change; the loads that swallow an invalidation *)
(* (Absorbed) are the only exception.                                        *)
ToldIsShown ==
    (Active /\ ~Fetching /\ query.status = "success") => query.data.ver >= told

Shows(q) == watched = q /\ query.status = "success" /\ query.data.ver = db.ver

(* Pages that are polled catch up, even if the stream lost events or the    *)
(* scheduler or a worker's claim changed the rows silently: a dashboard     *)
(* that is left open shows the latest state in the end, and the page of an  *)
(* execution that has loaded shows its end.                                 *)
PolledPagesCatchUp ==
    /\ <>[](watched = "monitors" /\ page = "dashboard") => <>[]Shows("monitors")
    /\ <>[](watched = "execution" /\ page = "execution" /\ query.data # NoData /\ db.exec = "done")
          => <>[](query.data.exec = "done")

(* The monitor page is not polled: it follows the monitor as long as every  *)
(* change was announced, every announcement arrived and no request failed   *)
(* for good.                                                                 *)
MonitorPageFollows ==
    <>[](watched = "monitor" /\ page = "monitor" /\ ~missed) => <>[]Shows("monitor")

===============================================================================
