----------------------------- MODULE ConsoleProofs -----------------------------
(***************************************************************************)
(* Proofs about Console: a page never shows data older than a change it was *)
(* told of.                                                                  *)
(***************************************************************************)
EXTENDS Console, SequenceTheorems, TLAPS

Data == [ver: Nat, exec: {"absent", "none", "queued", "running", "done"}]

Query ==
    [data: Data, status: {"pending", "success", "error"},
     fetch: {"idle", "sent", "read", "failing"}, got: Data,
     retried: BOOLEAN, invalid: BOOLEAN]

Mutation ==
    [st: {"none", "sent", "committed", "published", "failing"}, request: Requests, ver: Nat]

Events == [ver: Nat, about: SUBSET Queries]

ConsoleType ==
    /\ watched \in Queries /\ page \in Pages
    /\ db \in Data /\ query \in Query /\ mutation \in Mutation
    /\ calls \subseteq Events /\ channel \in Seq(Events)
    /\ told \in Nat

(* Nobody is told of a change that is not in the database. *)
ChannelKnown == \A i \in 1..Len(channel) : channel[i].ver <= db.ver

ChangesAreCommitted ==
    /\ told <= db.ver /\ mutation.ver <= db.ver
    /\ \A event \in calls : event.ver <= db.ver
    /\ ChannelKnown

(* A response that is on its way was read after everything told by then,    *)
(* cached data that is not marked invalid is as new, and an observed query  *)
(* that rests is not marked.                                                 *)
QueryOK(q, active, t) ==
    /\ q.fetch = "read" => q.got.ver >= t
    /\ q.fetch = "idle" /\ q.status = "success" /\ ~q.invalid => q.data.ver >= t
    /\ active /\ q.fetch = "idle" /\ q.status = "success" => ~q.invalid

ToldInv == ConsoleType /\ ChangesAreCommitted /\ QueryOK(query, Active, told)

-------------------------------------------------------------------------------
(* Queries. *)

LEMMA StartedQuery ==
    ASSUME NEW q \in Query, NEW active, NEW t
    PROVE  /\ Started(q) \in Query /\ Started(q).fetch = "sent"
           /\ QueryOK(Started(q), active, t)
  <1>1. Started(q) \in Query /\ Started(q).fetch = "sent"
    BY DEF Query, Started, NoData, Data
  <1>2. QED
    BY <1>1 DEF QueryOK

(* A query that is told of a change is fetched again or marked; what is     *)
(* told to a request that cannot show it is not counted as told (Absorbed). *)
LEMMA InvalidatedQuery ==
    ASSUME ToldInv, NEW about, NEW ver \in Nat, ver <= db.ver, Tell(about, ver)
    PROVE  /\ AfterInvalidation(about) \in Query
           /\ QueryOK(AfterInvalidation(about), Active, told')
           /\ told' \in Nat /\ told' <= db.ver
  <1>1. /\ query \in Query /\ QueryOK(query, Active, told)
        /\ told \in Nat /\ told <= db.ver /\ db.ver \in Nat
    BY DEF ToldInv, ConsoleType, ChangesAreCommitted, Data
  <1>2. told' \in Nat /\ told' <= db.ver
    BY <1>1 DEF Tell, Larger
  <1>3. CASE watched \notin about
    BY <1>1, <1>2, <1>3 DEF AfterInvalidation, Tell
  <1>4. CASE watched \in about /\ Active /\ (Fetching => query.data # NoData)
    BY <1>1, <1>2, <1>4, StartedQuery DEF AfterInvalidation, Invalidated
  <1>5. CASE watched \in about /\ ~(Active /\ (Fetching => query.data # NoData))
    <2>1. PICK q \in Query : q = query
      BY <1>1
    <2>2. AfterInvalidation(about) = [q EXCEPT !.invalid = TRUE]
      BY <1>5, <2>1 DEF AfterInvalidation, Invalidated
    <2>3. /\ [q EXCEPT !.invalid = TRUE] \in Query
          /\ [q EXCEPT !.invalid = TRUE].invalid
          /\ [q EXCEPT !.invalid = TRUE].fetch = q.fetch
          /\ [q EXCEPT !.invalid = TRUE].got = q.got
      BY DEF Query
    <2>4. CASE Absorbed
      BY <1>1, <1>2, <2>1, <2>2, <2>3, <2>4 DEF Absorbed, Fetching, QueryOK, Tell
    <2>5. CASE ~Absorbed
      <3>1. q.fetch = "idle" /\ ~Active
        BY <1>5, <2>1, <2>5 DEF Absorbed, Fetching
      <3>2. QED
        BY <1>2, <2>2, <2>3, <3>1 DEF QueryOK
    <2>6. QED
      BY <2>4, <2>5
  <1>6. QED
    BY <1>3, <1>4, <1>5

LEMMA MountedQuery ==
    ASSUME NEW q \in Query, NEW t, QueryOK(q, Active, t), NEW p, NEW old
    PROVE  Mounted(q, p, old) \in Query /\ QueryOK(Mounted(q, p, old), p = PageOf(watched), t)
  <1>1. CASE /\ p # page /\ p = PageOf(watched) /\ q.fetch = "idle"
             /\ (q.data = NoData \/ q.invalid \/ old)
    BY <1>1, StartedQuery DEF Mounted
  <1>2. CASE ~(/\ p # page /\ p = PageOf(watched) /\ q.fetch = "idle"
               /\ (q.data = NoData \/ q.invalid \/ old))
    BY <1>2 DEF Mounted, QueryOK, Active
  <1>3. QED
    BY <1>1, <1>2

-------------------------------------------------------------------------------
(* Steps. *)

LEMMA ToldInit == Init => ToldInv
  <1> SUFFICES ASSUME Init PROVE ToldInv
    OBVIOUS
  <1>1. EmptyQuery \in Query /\ EmptyQuery.fetch = "idle" /\ EmptyQuery.status = "pending"
    BY DEF EmptyQuery, Query, NoData, Data
  <1>2. query \in Query /\ QueryOK(query, Active, told)
    BY <1>1, StartedQuery DEF Init, QueryOK
  <1>3. db \in Data /\ db.ver = 0 /\ told = 0
    BY DEF Init, Data
  <1>4. mutation \in Mutation /\ mutation.ver = 0
    BY DEF Init, NoRequest, Mutation, Requests
  <1>5. channel \in Seq(Events) /\ Len(channel) = 0 /\ calls = {} /\ watched \in Queries /\ page \in Pages
    BY DEF Init
  <1>6. QED
    BY <1>2, <1>3, <1>4, <1>5
    DEF ToldInv, ConsoleType, ChangesAreCommitted, ChannelKnown

(* What a subscriber's channel holds after a publication. *)
LEMMA PublishedEvent ==
    ASSUME ToldInv, NEW event \in Events, event.ver <= db.ver, Publish(event), db' = db
    PROVE  channel' \in Seq(Events) /\ ChannelKnown'
  <1>1. channel \in Seq(Events) /\ ChannelKnown
    BY DEF ToldInv, ConsoleType, ChangesAreCommitted
  <1>2. CASE channel' = channel
    BY <1>1, <1>2 DEF ChannelKnown
  <1>3. CASE channel' = Append(channel, event)
    BY <1>1, <1>3, AppendProperties DEF ChannelKnown
  <1>4. QED
    BY <1>2, <1>3 DEF Publish

LEMMA ShorterChannel ==
    ASSUME ToldInv, db' = db, channel' = <<>> \/ (channel # <<>> /\ channel' = Tail(channel))
    PROVE  channel' \in Seq(Events) /\ ChannelKnown'
  <1>1. channel \in Seq(Events) /\ ChannelKnown
    BY DEF ToldInv, ConsoleType, ChangesAreCommitted
  <1>2. CASE channel' = <<>>
    BY <1>2 DEF ChannelKnown
  <1>3. CASE channel # <<>> /\ channel' = Tail(channel)
    BY <1>1, <1>3 DEF ChannelKnown
  <1>4. QED
    BY <1>2, <1>3

(* A committed change: versions only grow. *)
LEMMA ChangedData ==
    ASSUME ToldInv, NEW exec \in {"absent", "none", "queued", "running", "done"},
           NEW about \in SUBSET Queries
    PROVE  /\ Changed(exec, about) \in Data /\ Changed(exec, about).ver = NextVer(about)
           /\ NextVer(about) \in Nat /\ NextVer(about) >= db.ver
           /\ Event(about) \in Events /\ Event(about).ver = NextVer(about)
  <1>1. db.ver \in Nat
    BY DEF ToldInv, ConsoleType, Data
  <1>2. NextVer(about) \in Nat /\ NextVer(about) >= db.ver
    BY <1>1 DEF NextVer
  <1>3. QED
    BY <1>2 DEF Changed, Event, Data, Events

LEMMA LaterVersions ==
    ASSUME ToldInv, db' \in Data, db'.ver >= db.ver, UNCHANGED <<told, channel>>,
           mutation' \in Mutation, mutation'.ver <= db'.ver,
           calls' \subseteq Events, \A event \in calls' : event \in calls \/ event.ver <= db'.ver
    PROVE  ChangesAreCommitted'
  <1>1. /\ db.ver \in Nat /\ db'.ver \in Nat /\ told \in Nat
        /\ told <= db.ver /\ \A event \in calls : event.ver <= db.ver
        /\ channel \in Seq(Events) /\ \A i \in 1..Len(channel) : channel[i].ver <= db.ver
        /\ calls \subseteq Events
    BY DEF ToldInv, ConsoleType, ChangesAreCommitted, ChannelKnown, Data
  <1>2. told' <= db'.ver
    BY <1>1
  <1>3. \A event \in calls' : event.ver <= db'.ver
    <2>1. \A event \in calls' : event.ver \in Nat
      BY DEF Events
    <2>2. QED
      BY <1>1, <2>1
  <1>4. ChannelKnown'
    <2>1. \A i \in 1..Len(channel) : channel[i].ver \in Nat
      <3>1. \A i \in 1..Len(channel) : channel[i] \in Events
        BY <1>1
      <3>2. QED
        BY <3>1 DEF Events
    <2>2. QED
      BY <1>1, <2>1 DEF ChannelKnown
  <1>5. QED
    BY <1>2, <1>3, <1>4 DEF ChangesAreCommitted

(* Writes of the database; the console is not involved. *)
LEMMA WritesKeep ==
    ASSUME ToldInv, OtherChange \/ ExecutionStarts \/ ExecutionEnds
    PROVE  ToldInv'
  <1>1. PICK exec \in {"absent", "none", "queued", "running", "done"}, about \in {AboutMonitor, AboutExecution} :
           Commits(exec, about) \/ ChangesQuietly(exec, about)
    <2>1. db.exec \in {"absent", "none", "queued", "running", "done"}
      BY DEF ToldInv, ConsoleType, Data
    <2>2. QED
      BY <2>1 DEF OtherChange, ExecutionStarts, ExecutionEnds
  <1>2. about \in SUBSET Queries
    BY DEF AboutMonitor, AboutExecution, Queries
  <1>3. /\ db' = Changed(exec, about)
        /\ calls' = calls \/ calls' = calls \cup {Event(about)}
        /\ UNCHANGED <<watched, stream, client, told>>
    BY <1>1 DEF Commits, ChangesQuietly
  <1>4. /\ db' \in Data /\ db'.ver = NextVer(about) /\ NextVer(about) >= db.ver
        /\ NextVer(about) \in Nat
        /\ Event(about) \in Events /\ Event(about).ver = NextVer(about)
    BY <1>2, <1>3, ChangedData
  <1>5. mutation' \in Mutation /\ mutation'.ver <= db'.ver /\ calls' \subseteq Events
    <2>1. mutation \in Mutation /\ mutation.ver <= db.ver /\ db.ver \in Nat /\ calls \subseteq Events
      BY DEF ToldInv, ConsoleType, ChangesAreCommitted, Data
    <2>2. mutation.ver \in Nat
      BY <2>1 DEF Mutation
    <2>3. QED
      BY <1>3, <1>4, <2>1, <2>2 DEF client
  <1>6. ChangesAreCommitted'
    BY <1>3, <1>4, <1>5, LaterVersions DEF stream
  <1>7. QED
    BY <1>3, <1>4, <1>5, <1>6 DEF ToldInv, ConsoleType, Active, stream, client

(* Steps that concern neither the query nor what it was told. *)
LEMMA ApartKeep ==
    ASSUME ToldInv, UNCHANGED <<watched, db, page, query, told>>,
           mutation' \in Mutation, mutation'.ver <= db.ver, calls' \subseteq calls,
           channel' \in Seq(Events), ChannelKnown'
    PROVE  ToldInv'
  BY DEF ToldInv, ConsoleType, ChangesAreCommitted, Active

(* Steps of the query that tell it nothing. *)
LEMMA QueryKeeps ==
    ASSUME ToldInv, UNCHANGED <<watched, db, calls, stream, mutation, told>>,
           page' \in Pages, query' \in Query, QueryOK(query', page' = PageOf(watched), told)
    PROVE  ToldInv'
  BY DEF ToldInv, ConsoleType, ChangesAreCommitted, ChannelKnown, Active, stream

LEMMA BrokerKeeps ==
    ASSUME ToldInv, ApiStep \/ StreamOpens \/ StreamFails \/ connect
    PROVE  ToldInv'
  <1>1. /\ mutation \in Mutation /\ mutation.ver <= db.ver /\ calls \subseteq Events
        /\ channel \in Seq(Events) /\ ChannelKnown
        /\ \A event \in calls : event.ver <= db.ver
    BY DEF ToldInv, ConsoleType, ChangesAreCommitted
  <1>2. CASE StreamOpens \/ connect \/ ApiRestarts
    BY <1>1, <1>2, ApartKeep
    DEF StreamOpens, connect, ApiRestarts, server, stream, client, ChannelKnown
  <1>3. CASE StreamFails
    BY <1>1, <1>3, ShorterChannel, ApartKeep DEF StreamFails, server, client
  <1>4. ASSUME NEW event \in calls, CallPublishes(event) PROVE ToldInv'
    <2>1. channel' \in Seq(Events) /\ ChannelKnown'
      BY <1>1, <1>4, PublishedEvent DEF CallPublishes
    <2>2. QED
      BY <1>1, <1>4, <2>1, ApartKeep DEF CallPublishes, client
  <1>5. CASE RequestPublishes
    <2>1. PICK event \in Events : event = [ver |-> mutation.ver, about |-> AboutRequest(mutation.request)]
      <3>1. mutation.ver \in Nat /\ AboutRequest(mutation.request) \subseteq Queries
        BY <1>1 DEF Mutation, AboutRequest, AboutMonitor, AboutExecution, Queries
      <3>2. QED
        BY <3>1 DEF Events
    <2>2. channel' \in Seq(Events) /\ ChannelKnown'
      BY <1>1, <1>5, <2>1, PublishedEvent DEF RequestPublishes, server
    <2>3. mutation' \in Mutation /\ mutation'.ver = mutation.ver
      BY <1>1, <1>5 DEF RequestPublishes, Mutation
    <2>4. QED
      BY <1>1, <1>5, <2>2, <2>3, ApartKeep DEF RequestPublishes, server
  <1>6. QED
    BY <1>2, <1>3, <1>4, <1>5 DEF ApiStep

LEMMA EventKeeps ==
    ASSUME ToldInv, EventArrives
    PROVE  ToldInv'
  <1>1. /\ channel \in Seq(Events) /\ channel # <<>> /\ ChannelKnown
        /\ mutation \in Mutation /\ mutation.ver <= db.ver /\ page \in Pages
    BY DEF ToldInv, ConsoleType, ChangesAreCommitted, EventArrives
  <1>2. PICK event \in Events : event = Head(channel) /\ event.ver <= db.ver /\ event.ver \in Nat
    <2>1. Head(channel) \in Events /\ Head(channel) = channel[1] /\ 1 \in 1..Len(channel)
      BY <1>1, HeadTailProperties, EmptySeq
    <2>2. QED
      BY <1>1, <2>1 DEF ChannelKnown, Events
  <1>3. /\ query' = AfterInvalidation(event.about) /\ Tell(event.about, event.ver)
        /\ channel' = Tail(channel) /\ UNCHANGED <<server, page, mutation>>
    BY <1>2 DEF EventArrives, handleMessage
  <1>4. query' \in Query /\ QueryOK(query', Active, told') /\ told' \in Nat /\ told' <= db.ver
    BY <1>2, <1>3, InvalidatedQuery
  <1>5. channel' \in Seq(Events) /\ ChannelKnown'
    BY <1>1, <1>3, ShorterChannel DEF server
  <1>6. QED
    BY <1>3, <1>4, <1>5 DEF ToldInv, ConsoleType, ChangesAreCommitted, Active, server

LEMMA CrashKeeps ==
    ASSUME ToldInv, ApiCrashes
    PROVE  ToldInv'
  <1>1. /\ query \in Query /\ QueryOK(query, Active, told)
        /\ mutation \in Mutation /\ mutation.ver <= db.ver
    BY DEF ToldInv, ConsoleType, ChangesAreCommitted
  <1>2. mutation' \in Mutation /\ mutation'.ver <= db.ver
    BY <1>1 DEF ApiCrashes, Mutation
  <1>3. query' \in Query /\ QueryOK(query', Active, told)
    <2>1. PICK q \in Query : q = query
      BY <1>1
    <2>2. [q EXCEPT !.fetch = "failing"] \in Query /\ [q EXCEPT !.fetch = "failing"].fetch = "failing"
      BY DEF Query
    <2>3. query' = query \/ query' = [q EXCEPT !.fetch = "failing"]
      BY <2>1 DEF ApiCrashes
    <2>4. QED
      BY <1>1, <2>2, <2>3 DEF QueryOK
  <1>4. channel' \in Seq(Events) /\ ChannelKnown'
    BY ShorterChannel DEF ApiCrashes
  <1>5. QED
    BY <1>2, <1>3, <1>4 DEF ApiCrashes, ToldInv, ConsoleType, ChangesAreCommitted, Active

LEMMA RequestsKeep ==
    ASSUME ToldInv, QueryStep \/ Polls \/ \E p \in Pages : Visits(p)
    PROVE  ToldInv'
  <1>1. /\ query \in Query /\ QueryOK(query, Active, told) /\ page \in Pages
        /\ db \in Data /\ db.ver \in Nat /\ told \in Nat /\ told <= db.ver
    BY DEF ToldInv, ConsoleType, ChangesAreCommitted, Data
  <1>2. PICK q \in Query : q = query
    BY <1>1
  <1>3. EmptyQuery \in Query
    BY DEF EmptyQuery, Query, NoData, Data
  <1>4. CASE ApiReads
    <2>1. /\ [q EXCEPT !.fetch = "read", !.got = db] \in Query
          /\ [q EXCEPT !.fetch = "read", !.got = db].fetch = "read"
          /\ [q EXCEPT !.fetch = "read", !.got = db].got = db
      BY <1>1 DEF Query
    <2>2. query' \in Query /\ QueryOK(query', Active, told)
      BY <1>1, <1>2, <1>4, <2>1 DEF ApiReads, QueryOK
    <2>3. QED
      BY <1>1, <1>4, <2>2, QueryKeeps DEF ApiReads, server, Active
  <1>5. CASE ResponseArrives
    <2>1. query'.data = q.got /\ query' \in Query /\ query'.fetch = "idle" /\ ~query'.invalid
      BY <1>2, <1>5 DEF ResponseArrives, EmptyQuery, Query, NoData, Data
    <2>2. QueryOK(query', Active, told)
      BY <1>1, <1>2, <1>5, <2>1 DEF ResponseArrives, QueryOK
    <2>3. QED
      BY <1>1, <1>5, <2>1, <2>2, QueryKeeps DEF ResponseArrives, server, Active
  <1>6. CASE RequestFails
    <2>1. CASE query' = [Started(query) EXCEPT !.retried = TRUE]
      <3>1. PICK s \in Query : s = Started(query) /\ s.fetch = "sent"
        BY <1>1, StartedQuery
      <3>2. [s EXCEPT !.retried = TRUE] \in Query /\ [s EXCEPT !.retried = TRUE].fetch = "sent"
        BY <3>1 DEF Query
      <3>3. query' \in Query /\ QueryOK(query', Active, told)
        BY <2>1, <3>1, <3>2 DEF QueryOK
      <3>4. QED
        BY <1>1, <1>6, <3>3, QueryKeeps DEF RequestFails, server, Active
    <2>2. CASE query' = [EmptyQuery EXCEPT !.data = query.data, !.status = "error", !.invalid = TRUE]
      <3>1. query' \in Query /\ query'.fetch = "idle" /\ query'.status = "error"
        BY <1>2, <2>2 DEF EmptyQuery, Query, NoData, Data
      <3>2. QueryOK(query', Active, told)
        BY <3>1 DEF QueryOK
      <3>3. QED
        BY <1>1, <1>6, <3>1, <3>2, QueryKeeps DEF RequestFails, server, Active
    <2>3. QED
      BY <1>6, <2>1, <2>2 DEF RequestFails
  <1>7. CASE Polls
    <2>1. query' \in Query /\ QueryOK(query', Active, told)
      BY <1>1, <1>7, StartedQuery DEF Polls
    <2>2. QED
      BY <1>1, <1>7, <2>1, QueryKeeps DEF Polls, server, Active
  <1>8. ASSUME NEW p \in Pages, Visits(p) PROVE ToldInv'
    <2>1. query' \in Query /\ QueryOK(query', p = PageOf(watched), told)
      BY <1>1, <1>8, MountedQuery DEF Visits
    <2>2. QED
      BY <1>8, <2>1, QueryKeeps DEF Visits, server
  <1>9. QED
    BY <1>4, <1>5, <1>6, <1>7, <1>8 DEF QueryStep

LEMMA MutationsKeep ==
    ASSUME ToldInv, MutationStep \/ \E r \in Requests : Submits(r)
    PROVE  ToldInv'
  <1>1. /\ mutation \in Mutation /\ mutation.ver <= db.ver /\ mutation.ver \in Nat
        /\ mutation.request \in Requests /\ db \in Data /\ db.ver \in Nat
        /\ channel \in Seq(Events) /\ ChannelKnown /\ calls \subseteq Events /\ page \in Pages
    BY DEF ToldInv, ConsoleType, ChangesAreCommitted, Data, Mutation
  <1>2. NoRequest \in Mutation /\ NoRequest.ver = 0
    BY DEF NoRequest, Mutation, Requests
  <1>3. ASSUME NEW r \in Requests, Submits(r) PROVE ToldInv'
    <2>1. mutation' \in Mutation /\ mutation'.ver = 0
      BY <1>3 DEF Submits, Mutation
    <2>2. QED
      BY <1>1, <1>3, <2>1, ApartKeep DEF Submits, server, stream, ChannelKnown
  <1>4. CASE RequestRejected
    BY <1>1, <1>2, <1>4, ApartKeep DEF RequestRejected, server, stream, ChannelKnown
  <1>5. CASE RequestCommits
    <2>1. PICK about \in SUBSET Queries : about = AboutRequest(mutation.request)
      BY DEF AboutRequest, AboutMonitor, AboutExecution, Queries
    <2>2. PICK exec \in {"absent", "none", "queued", "running", "done"} :
             exec = IF mutation.request = "check" THEN "queued" ELSE db.exec
      BY <1>1 DEF Data
    <2>3. /\ db' = Changed(exec, about)
          /\ mutation' = [mutation EXCEPT !.st = "committed", !.ver = NextVer(about)]
          /\ UNCHANGED <<watched, calls, stream, page, query, told>>
      BY <1>5, <2>1, <2>2 DEF RequestCommits
    <2>4. db' \in Data /\ db'.ver = NextVer(about) /\ NextVer(about) \in Nat /\ NextVer(about) >= db.ver
      BY <2>3, ChangedData
    <2>5. mutation' \in Mutation /\ mutation'.ver = NextVer(about)
      BY <1>1, <2>3, <2>4 DEF Mutation
    <2>6. ChangesAreCommitted'
      BY <1>1, <2>3, <2>4, <2>5, LaterVersions DEF stream
    <2>7. QED
      BY <1>1, <2>3, <2>4, <2>5, <2>6 DEF ToldInv, ConsoleType, Active, stream
  <1>6. CASE RequestAnswered
    <2>1. PICK r \in Requests : r = mutation.request
      BY <1>1
    <2>2. PICK q : q = AfterInvalidation(onSuccess(r))
      OBVIOUS
    <2>3. /\ query' = Mounted(q, NextPage(r), FALSE) /\ page' = NextPage(r)
          /\ Tell(onSuccess(r), mutation.ver) /\ mutation' = NoRequest
          /\ UNCHANGED <<server, stream>>
      BY <1>6, <2>1, <2>2 DEF RequestAnswered
    <2>4. q \in Query /\ QueryOK(q, Active, told') /\ told' \in Nat /\ told' <= db.ver
      BY <1>1, <2>2, <2>3, InvalidatedQuery
    <2>5. query' \in Query /\ QueryOK(query', page' = PageOf(watched), told')
      BY <2>3, <2>4, MountedQuery
    <2>6. page' \in Pages
      BY <1>1, <2>3 DEF NextPage, Pages
    <2>7. QueryOK(query, Active, told)'
      BY <2>3, <2>5 DEF server, Active
    <2>8. ChangesAreCommitted'
      BY <1>1, <1>2, <2>3, <2>4 DEF ToldInv, ChangesAreCommitted, ChannelKnown, server, stream
    <2>9. QED
      BY <1>1, <1>2, <2>3, <2>4, <2>5, <2>6, <2>7, <2>8
      DEF ToldInv, ConsoleType, server, stream
  <1>7. QED
    BY <1>3, <1>4, <1>5, <1>6 DEF MutationStep

(* A page never shows data older than a change it was told of, except those *)
(* that a first load absorbs: an answer that was read before the change is  *)
(* dropped or fetched again, whatever order events, answers, polls, visits  *)
(* and failures come in, for every size of the subscriber's channel and any *)
(* number of changes and faults.                                             *)
THEOREM ToldChangesAreShown == Spec => []ToldIsShown
  <1>1. ToldInv /\ [Next]_vars => ToldInv'
    <2> SUFFICES ASSUME ToldInv, [Next]_vars PROVE ToldInv'
      OBVIOUS
    <2>1. CASE UNCHANGED vars
      BY <2>1 DEF vars, server, stream, client, ToldInv, ConsoleType, ChangesAreCommitted,
                  ChannelKnown, Active
    <2>2. CASE Next
      BY <2>2, WritesKeep, BrokerKeeps, EventKeeps, CrashKeeps, RequestsKeep, MutationsKeep
      DEF Next, StreamStep
    <2>3. QED
      BY <2>1, <2>2
  <1>2. ToldInv => ToldIsShown
    BY DEF ToldInv, ConsoleType, Query, QueryOK, ToldIsShown, Fetching
  <1>3. QED
    BY <1>1, <1>2, ToldInit, PTL DEF Spec

===============================================================================
