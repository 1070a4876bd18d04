---------------------------- MODULE WorkerJobProofs ----------------------------
(***************************************************************************)
(* Proofs about WorkerJob: what a job leaves behind, what it may report as  *)
(* a success, and what it reports after its deadline, for every             *)
(* interleaving of the job, its sessions and the deadline.                  *)
(***************************************************************************)
EXTENDS WorkerJob, TLAPS

Places ==
    {"resolve", "init", "work", "fresh_init", "fresh_work", "fresh_close", "evidence",
     "writing", "failure_evidence", "closing", "settled"}

JobResult ==
    [status: {"none", "succeeded", "failed", "needs_review"}, class: Classes \cup {"none"}]

TypeOK ==
    /\ kind \in Kinds
    /\ pc \in Places
    /\ aborted \in BOOLEAN
    /\ runs \in [Sessions -> BrowserRun]
    /\ waits \in {"page", "model"}
    /\ error \in Classes \cup {"none"}
    /\ replayed \in BOOLEAN
    /\ result \in JobResult

InitPending(run) == run.init \in {"launching", "started", "preparing"}

(* What closeOnce has achieved when it is at one of its awaits: behind the  *)
(* second close() no browser can appear any more.                           *)
RunOK(run) ==
    /\ ~run.made => run = NoRun
    /\ run.init = "none" => ~run.browser /\ ~run.cache /\ run.close \notin {"first", "wait", "second"}
    /\ run.close \in {"second", "rm", "done"} => ~InitPending(run)
    /\ run.close \in {"rm", "done"} => ~run.browser
    /\ run.close = "done" => ~run.cache

RunsOK == \A s \in Sessions : RunOK(runs[s])

(* The sessions that exist, and how far they are closed, at each place of   *)
(* the job; before its finally block only the deadline closes the job's     *)
(* session.                                                                  *)
PlacesOK ==
    /\ pc = "resolve" => runs["main"] = NoRun
    /\ pc \in {"resolve", "init", "work"} => runs["fresh"] = NoRun
    /\ pc \in {"fresh_init", "fresh_work", "fresh_close"} => runs["fresh"].made
    /\ pc = "fresh_close" => Closing("fresh")
    /\ pc \in {"evidence", "writing", "failure_evidence", "closing", "settled"} =>
          (runs["fresh"].made => runs["fresh"].close = "done")
    /\ pc = "closing" => (runs["main"].made => Closing("main"))
    /\ pc = "settled" => (runs["main"].made => runs["main"].close = "done")
    /\ (pc \notin {"closing", "settled"} /\ Closing("main")) => aborted

(* Where a repair may be without an error only because its candidate was    *)
(* replayed.                                                                 *)
ReplayOK ==
    kind = "repair" =>
        /\ (pc = "fresh_close" /\ error = "none") => replayed
        /\ pc \in {"evidence", "writing"} => replayed
        /\ result.status = "succeeded" => (replayed /\ pc \in {"closing", "settled"})

JobInv == TypeOK /\ RunsOK /\ PlacesOK /\ ReplayOK

-------------------------------------------------------------------------------
LEMMA InvInit == Init => JobInv
  <1> SUFFICES ASSUME Init PROVE JobInv
    OBVIOUS
  <1>1. NoRun \in BrowserRun /\ RunOK(NoRun)
    BY DEF NoRun, BrowserRun, RunOK, InitPending
  <1>2. TypeOK
    BY <1>1 DEF Init, TypeOK, Places, JobResult, Pending
  <1>3. RunsOK
    BY <1>1 DEF Init, RunsOK
  <1>4. PlacesOK
    BY DEF Init, PlacesOK, Closing, NoRun, Sessions
  <1>5. ReplayOK
    BY DEF Init, ReplayOK, Pending
  <1>6. QED
    BY <1>2, <1>3, <1>4, <1>5 DEF JobInv

(* A step of a session by itself: it neither makes nor forgets the session, *)
(* starts no close() and undoes none.                                       *)
LEMMA ChangesKeepsInv ==
    ASSUME JobInv, NEW s \in Sessions, NEW run \in BrowserRun, Changes(s, run),
           RunOK(run), runs[s].made, run.made,
           run.close = "none" <=> runs[s].close = "none",
           runs[s].close = "done" => run.close = "done"
    PROVE  JobInv'
  <1>1. /\ runs' \in [Sessions -> BrowserRun] /\ runs'[s] = run
        /\ \A t \in Sessions : t # s => runs'[t] = runs[t]
    BY DEF JobInv, TypeOK, Changes
  <1>2. TypeOK'
    BY <1>1 DEF JobInv, TypeOK, Changes
  <1>3. RunsOK'
    BY <1>1 DEF JobInv, RunsOK, RunOK, InitPending
  <1>4. runs[s] # NoRun
    BY DEF NoRun
  <1>5. PlacesOK'
    BY <1>1, <1>4 DEF JobInv, PlacesOK, Changes, Closing, Sessions
  <1>6. ReplayOK'
    BY DEF JobInv, ReplayOK, Changes
  <1>7. QED
    BY <1>2, <1>3, <1>5, <1>6 DEF JobInv

LEMMA SessionKeepsInv ==
    ASSUME JobInv, NEW s \in Sessions, StagehandStep(s) \/ CloseStep(s)
    PROVE  JobInv'
  <1> DEFINE r == runs[s]
  <1>1. r \in BrowserRun /\ RunOK(r)
    BY DEF JobInv, TypeOK, RunsOK
  <1>2. r.init # "none" \/ r.close # "none" => r.made
    BY <1>1 DEF RunOK, NoRun
  <1>3. CASE Launches(s)
    <2> DEFINE n == [r EXCEPT !.init = "started", !.browser = TRUE]
    <2>1. r.init = "launching" /\ Changes(s, n)
      BY <1>3 DEF Launches
    <2>2. /\ n \in BrowserRun /\ RunOK(n) /\ r.made /\ n.made /\ n.close = r.close
      BY <1>1, <1>2, <2>1 DEF BrowserRun, RunOK, InitPending, NoRun
    <2> HIDE DEF n
    <2>3. QED
      BY <2>1, <2>2, ChangesKeepsInv
  <1>4. CASE InitResolves(s)
    <2> DEFINE n == IF Closing(s) THEN [r EXCEPT !.init = "failed", !.browser = FALSE]
                    ELSE [r EXCEPT !.init = "preparing"]
    <2>1. r.init = "started" /\ Changes(s, n)
      BY <1>4 DEF InitResolves
    <2>2. /\ n \in BrowserRun /\ RunOK(n) /\ r.made /\ n.made /\ n.close = r.close
      BY <1>1, <1>2, <2>1 DEF BrowserRun, RunOK, InitPending, NoRun, Closing
    <2> HIDE DEF n
    <2>3. QED
      BY <2>1, <2>2, ChangesKeepsInv
  <1>5. CASE PageReady(s)
    <2> DEFINE n == [r EXCEPT !.init = "ready"]
    <2>1. r.init = "preparing" /\ Changes(s, n)
      BY <1>5 DEF PageReady
    <2>2. /\ n \in BrowserRun /\ RunOK(n) /\ r.made /\ n.made /\ n.close = r.close
      BY <1>1, <1>2, <2>1 DEF BrowserRun, RunOK, InitPending, NoRun
    <2> HIDE DEF n
    <2>3. QED
      BY <2>1, <2>2, ChangesKeepsInv
  <1>6. CASE InitFails(s)
    <2> DEFINE n == [r EXCEPT !.init = "failed"]
    <2>1. InitPending(r) /\ Changes(s, n)
      BY <1>6 DEF InitFails, InitPending
    <2>2. /\ n \in BrowserRun /\ RunOK(n) /\ r.made /\ n.made /\ n.close = r.close
      BY <1>1, <1>2, <2>1 DEF BrowserRun, RunOK, InitPending, NoRun
    <2> HIDE DEF n
    <2>3. QED
      BY <2>1, <2>2, ChangesKeepsInv
  <1>7. ASSUME NEW to \in {"wait", "second", "rm"}, NEW b \in BOOLEAN,
               r.close \in {"first", "wait", "second"},
               to \in {"second", "rm"} => ~InitPending(r),
               to = "rm" => ~b,
               Changes(s, [r EXCEPT !.close = to, !.browser = b])
        PROVE  JobInv'
    <2> DEFINE n == [r EXCEPT !.close = to, !.browser = b]
    <2>1. /\ n \in BrowserRun /\ RunOK(n) /\ r.made /\ n.made
          /\ n.close # "none" /\ r.close # "none" /\ r.close # "done"
      BY <1>1, <1>2, <1>7 DEF BrowserRun, RunOK, InitPending, NoRun
    <2>2. Changes(s, n)
      BY <1>7
    <2> HIDE DEF n
    <2>3. QED
      BY <2>1, <2>2, ChangesKeepsInv
  <1>8. CASE CloseOnce(s)
    <2>1. CASE r.close = "first" /\ Changes(s, [r EXCEPT !.close = "wait", !.browser = FALSE])
      BY <1>7, <2>1
    <2>2. CASE r.close = "wait" /\ Settled(s) /\ Changes(s, [r EXCEPT !.close = "second"])
      <3>1. [r EXCEPT !.close = "second"] = [r EXCEPT !.close = "second", !.browser = r.browser]
        BY <1>1 DEF BrowserRun
      <3>2. r.browser \in BOOLEAN /\ ~InitPending(r)
        BY <1>1, <2>2 DEF BrowserRun, Settled, InitPending
      <3>3. QED
        BY <1>7, <2>2, <3>1, <3>2
    <2>3. CASE r.close = "second" /\ Changes(s, [r EXCEPT !.close = "rm", !.browser = FALSE])
      <3>1. ~InitPending(r)
        BY <1>1, <2>3 DEF RunOK
      <3>2. QED
        BY <1>7, <2>3, <3>1
    <2>4. QED
      BY <1>8, <2>1, <2>2, <2>3 DEF CloseOnce
  <1>9. CASE RemoveCache(s)
    <2> DEFINE n == [r EXCEPT !.close = "done", !.cache = FALSE]
    <2>1. r.close = "rm" /\ Changes(s, n)
      BY <1>9 DEF RemoveCache
    <2>2. /\ n \in BrowserRun /\ RunOK(n) /\ r.made /\ n.made /\ n.close = "done"
      BY <1>1, <1>2, <2>1 DEF BrowserRun, RunOK, InitPending, NoRun
    <2> HIDE DEF n
    <2>3. QED
      BY <2>1, <2>2, ChangesKeepsInv
  <1>10. QED
    BY <1>3, <1>4, <1>5, <1>6, <1>8, <1>9 DEF StagehandStep, CloseStep

(* close() starts closeOnce, or joins it: whatever was true of a session    *)
(* stays true.                                                               *)
LEMMA CloseCalledRun ==
    ASSUME NEW run \in BrowserRun, RunOK(run)
    PROVE  /\ CloseCalled(run) \in BrowserRun
           /\ RunOK(CloseCalled(run))
           /\ CloseCalled(run).made = run.made
           /\ run.made => CloseCalled(run).close # "none"
           /\ run.close # "none" => CloseCalled(run) = run
           /\ run = NoRun => CloseCalled(run) = NoRun
           /\ ~run.made => CloseCalled(run) = run
  <1>1. CASE run.made /\ run.close = "none"
    <2>1. PICK to \in {"rm", "first"} :
             /\ to = "rm" <=> run.init = "none"
             /\ CloseCalled(run) = [run EXCEPT !.close = to]
      BY <1>1 DEF CloseCalled
    <2> DEFINE n == [run EXCEPT !.close = to]
    <2>2. /\ n \in BrowserRun
          /\ n.made = run.made /\ n.init = run.init /\ n.browser = run.browser
          /\ n.cache = run.cache /\ n.close = to
      BY DEF BrowserRun
    <2> HIDE DEF n
    <2>3. RunOK(n)
      BY <1>1, <2>1, <2>2 DEF RunOK, InitPending
    <2>4. run # NoRun
      BY <1>1 DEF NoRun
    <2>5. QED
      BY <1>1, <2>1, <2>2, <2>3, <2>4 DEF n
  <1>2. CASE ~(run.made /\ run.close = "none")
    BY <1>2 DEF CloseCalled, RunOK, NoRun
  <1>3. QED
    BY <1>1, <1>2

LEMMA NewRuns ==
    /\ NewRun \in BrowserRun /\ RunOK(NewRun) /\ NewRun.made /\ NewRun # NoRun
    /\ InitCalled(NewRun) \in BrowserRun /\ RunOK(InitCalled(NewRun))
    /\ InitCalled(NewRun).made /\ InitCalled(NewRun).close = "none"
  BY DEF InitCalled, NewRun, NoRun, BrowserRun, RunOK, InitPending

LEMMA AbortKeepsInv ==
    ASSUME JobInv, Abort
    PROVE  JobInv'
  <1>1. \A s \in Sessions : runs[s] \in BrowserRun /\ RunOK(runs[s])
    BY DEF JobInv, TypeOK, RunsOK
  <1>2. \A s \in Sessions :
           runs'[s] = IF s \in Listeners THEN CloseCalled(runs[s]) ELSE runs[s]
    BY DEF Abort
  <1>3. \A s \in Sessions :
           /\ runs'[s] \in BrowserRun /\ RunOK(runs'[s])
           /\ runs'[s].made = runs[s].made
           /\ runs[s].close # "none" => runs'[s] = runs[s]
           /\ runs[s] = NoRun => runs'[s] = NoRun
           /\ ~runs[s].made => runs'[s] = runs[s]
    BY <1>1, <1>2, CloseCalledRun
  <1>4. TypeOK'
    BY <1>3 DEF JobInv, TypeOK, Abort
  <1>5. RunsOK'
    BY <1>3 DEF RunsOK, RunOK, InitPending
  <1>6. PlacesOK'
    BY <1>2, <1>3 DEF JobInv, PlacesOK, Abort, Closing, Sessions, Listeners
  <1>7. ReplayOK'
    BY DEF JobInv, ReplayOK, Abort
  <1>8. QED
    BY <1>4, <1>5, <1>6, <1>7 DEF JobInv

-------------------------------------------------------------------------------
(* executeJob. *)

LEMMA ClosesRuns ==
    ASSUME TypeOK, RunsOK
    PROVE  /\ Closes(runs) \in [Sessions -> BrowserRun]
           /\ \A s \in Sessions : RunOK(Closes(runs)[s])
           /\ Closes(runs)["fresh"] = runs["fresh"]
           /\ Closes(runs)["main"].made => Closes(runs)["main"].close # "none"
  <1>1. /\ runs["main"] \in BrowserRun /\ RunOK(runs["main"])
        /\ runs["fresh"] \in BrowserRun /\ RunOK(runs["fresh"])
    BY DEF TypeOK, RunsOK, Sessions
  <1>2. /\ CloseCalled(runs["main"]) \in BrowserRun /\ RunOK(CloseCalled(runs["main"]))
        /\ CloseCalled(runs["main"]).made => CloseCalled(runs["main"]).close # "none"
    BY <1>1, CloseCalledRun
  <1>3. /\ Closes(runs)["main"] = CloseCalled(runs["main"])
        /\ Closes(runs)["fresh"] = runs["fresh"]
        /\ Closes(runs) \in [Sessions -> BrowserRun]
    BY <1>2 DEF TypeOK, Closes, Sessions
  <1>4. QED
    BY <1>1, <1>2, <1>3 DEF Sessions

(* The catch and finally blocks, reached before the job has a result. *)
LEMMA FailsKeepsInv ==
    ASSUME JobInv, NEW class \in Classes, Fails(class),
           pc \notin {"failure_evidence", "closing", "settled"},
           runs["fresh"].made => runs["fresh"].close = "done"
    PROVE  JobInv'
  <1>1. TerminalError(class) \in Classes
    BY DEF TerminalError, Classes
  <1>2. /\ result' \in JobResult /\ result'.status # "succeeded"
    BY <1>1 DEF Fails, Failure, JobResult
  <1>3. /\ \/ pc' = "failure_evidence" /\ runs' = runs
           \/ pc' = "closing" /\ runs' = Closes(runs)
        /\ UNCHANGED <<kind, aborted, waits, replayed>> /\ error' = "none"
    BY DEF Fails
  <1>4. /\ runs' \in [Sessions -> BrowserRun]
        /\ RunsOK'
        /\ runs'["fresh"] = runs["fresh"]
        /\ pc' = "closing" => (runs'["main"].made => runs'["main"].close # "none")
    BY <1>3, ClosesRuns DEF JobInv, TypeOK, RunsOK, RunOK, InitPending
  <1>5. TypeOK'
    BY <1>2, <1>3, <1>4 DEF JobInv, TypeOK, Places
  <1>6. PlacesOK'
    BY <1>3, <1>4 DEF JobInv, PlacesOK, Closing
  <1>7. ReplayOK'
    BY <1>2, <1>3 DEF ReplayOK
  <1>8. QED
    BY <1>4, <1>5, <1>6, <1>7 DEF JobInv

(* The job goes on to another place. *)
LEMMA GoesKeepsInv ==
    ASSUME JobInv, NEW to \in Places, Goes(to),
           pc \notin {"closing", "settled", "resolve"},
           \/ to = "work" /\ pc = "init"
           \/ to = "fresh_work" /\ pc = "fresh_init"
           \/ /\ to \in {"evidence", "writing"}
              /\ kind = "repair" => replayed
              /\ runs["fresh"].made => runs["fresh"].close = "done"
    PROVE  JobInv'
  <1>1. TypeOK'
    BY DEF JobInv, TypeOK, Goes
  <1>2. RunsOK'
    BY DEF JobInv, RunsOK, RunOK, InitPending, Goes
  <1>3. PlacesOK'
    BY DEF JobInv, PlacesOK, Goes, Closing
  <1>4. ReplayOK'
    BY DEF JobInv, ReplayOK, Goes
  <1>5. QED
    BY <1>1, <1>2, <1>3, <1>4 DEF JobInv
LEMMA MainKeepsInv ==
    ASSUME JobInv,
           \/ TargetResolved \/ TargetRefused \/ BrowserInit \/ WorkGoesOn
           \/ WorkDone \/ WorkFails
    PROVE  JobInv'
  <1>1. NoRun.made = FALSE /\ NoRun.close = "none"
    BY DEF NoRun
  <1>2. pc \in {"resolve", "init", "work"} => ~runs["fresh"].made
    BY <1>1 DEF JobInv, PlacesOK
  <1>3. TextClasses \subseteq Classes /\ ModelErrors \subseteq Classes /\ PageErrors \subseteq Classes
    BY DEF TextClasses, ModelErrors, PageErrors, ReplayErrors, ExtractErrors, ValidationErrors, Classes
  <1>4. "transient" \in Classes /\ "other" \in Classes
    BY DEF Classes
  <1>5. ASSUME NEW class \in Classes, Fails(class), pc \in {"resolve", "init", "work"}
        PROVE  JobInv'
    BY <1>2, <1>5, FailsKeepsInv
  <1>6. CASE TargetResolved
    <2>1. CASE aborted
      BY <1>4, <1>5, <1>6, <2>1 DEF TargetResolved
    <2>2. CASE ~aborted
      <3>1. /\ pc = "resolve" /\ pc' = "init"
            /\ runs' = [runs EXCEPT !["main"] = InitCalled(NewRun)]
            /\ UNCHANGED <<kind, aborted, waits, error, replayed, result>>
        BY <1>6, <2>2 DEF TargetResolved
      <3>2. /\ runs' \in [Sessions -> BrowserRun]
            /\ runs'["main"] = InitCalled(NewRun) /\ runs'["fresh"] = runs["fresh"]
        BY <3>1, NewRuns DEF JobInv, TypeOK, Sessions
      <3>3. TypeOK'
        BY <3>1, <3>2 DEF JobInv, TypeOK, Places
      <3>4. RunsOK'
        BY <3>2, NewRuns DEF JobInv, RunsOK, RunOK, InitPending, Sessions
      <3>5. PlacesOK'
        BY <3>1, <3>2, NewRuns DEF JobInv, PlacesOK, Closing
      <3>6. ReplayOK'
        BY <3>1 DEF JobInv, ReplayOK
      <3>7. QED
        BY <3>3, <3>4, <3>5, <3>6 DEF JobInv
    <2>3. QED
      BY <2>1, <2>2
  <1>7. CASE TargetRefused
    BY <1>4, <1>5, <1>7 DEF TargetRefused
  <1>8. CASE BrowserInit
    <2>1. CASE Goes("work")
      BY <1>8, <2>1, GoesKeepsInv DEF BrowserInit, Places
    <2>2. CASE Fails("transient")
      BY <1>4, <1>5, <1>8, <2>2 DEF BrowserInit
    <2>3. ASSUME NEW class \in TextClasses, Fails(class)
          PROVE  JobInv'
      BY <1>3, <1>5, <1>8, <2>3 DEF BrowserInit
    <2>4. QED
      BY <1>8, <2>1, <2>2, <2>3 DEF BrowserInit
  <1>9. CASE WorkGoesOn
    BY <1>9 DEF WorkGoesOn, JobInv, TypeOK, RunsOK, RunOK, InitPending, PlacesOK, Closing, ReplayOK
  <1>10. CASE WorkDone
    <2>1. "evidence" \in Places /\ pc = "work" /\ kind # "repair" /\ Goes("evidence")
      BY <1>10 DEF WorkDone, Places
    <2>2. QED
      BY <1>2, <2>1, GoesKeepsInv
  <1>11. CASE WorkFails
    <2>1. PICK class \in IF waits = "model" THEN ModelErrors ELSE PageErrors : Fails(class)
      BY <1>11 DEF WorkFails
    <2>2. class \in Classes /\ pc = "work"
      BY <1>3, <1>11, <2>1 DEF WorkFails
    <2>3. QED
      BY <1>5, <2>1, <2>2
  <1>12. QED
    BY <1>6, <1>7, <1>8, <1>9, <1>10, <1>11

(* A close() of the fresh session that ends its part of the job. *)
LEMMA FreshCloses ==
    ASSUME JobInv, pc \in {"fresh_init", "fresh_work"}, pc' = "fresh_close",
           runs' = [runs EXCEPT !["fresh"] = CloseCalled(@)],
           UNCHANGED <<kind, aborted, waits, result>>,
           error' \in Classes \cup {"none"}, replayed' \in BOOLEAN,
           error' = "none" => replayed'
    PROVE  JobInv'
  <1>1. /\ runs["main"] \in BrowserRun /\ RunOK(runs["main"])
        /\ runs["fresh"] \in BrowserRun /\ RunOK(runs["fresh"]) /\ runs["fresh"].made
    BY DEF JobInv, TypeOK, RunsOK, PlacesOK, Sessions
  <1>2. /\ CloseCalled(runs["fresh"]) \in BrowserRun /\ RunOK(CloseCalled(runs["fresh"]))
        /\ CloseCalled(runs["fresh"]).made /\ CloseCalled(runs["fresh"]).close # "none"
    BY <1>1, CloseCalledRun
  <1>3. /\ runs' \in [Sessions -> BrowserRun]
        /\ runs'["main"] = runs["main"] /\ runs'["fresh"] = CloseCalled(runs["fresh"])
    BY <1>2 DEF JobInv, TypeOK, Sessions
  <1>4. TypeOK'
    BY <1>3 DEF JobInv, TypeOK, Places
  <1>5. RunsOK'
    BY <1>1, <1>2, <1>3 DEF RunsOK, RunOK, InitPending, Sessions
  <1>6. PlacesOK'
    BY <1>2, <1>3 DEF JobInv, PlacesOK, Closing
  <1>7. ReplayOK'
    BY DEF JobInv, ReplayOK
  <1>8. QED
    BY <1>4, <1>5, <1>6, <1>7 DEF JobInv
LEMMA FreshKeepsInv ==
    ASSUME JobInv,
           \/ CandidateFound \/ FreshInit \/ FreshDone \/ FreshWorkFails \/ FreshClosed
    PROVE  JobInv'
  <1>1. TextClasses \subseteq Classes /\ PageErrors \subseteq Classes
    BY DEF TextClasses, PageErrors, ReplayErrors, ExtractErrors, ValidationErrors, Classes
  <1>2. "transient" \in Classes /\ "doubtful" \in Classes /\ "none" \notin Classes
    BY DEF Classes
  <1>3. ASSUME NEW class \in Classes, FreshFails(class), pc \in {"fresh_init", "fresh_work"}
        PROVE  JobInv'
    <2>1. replayed' \in BOOLEAN
      BY <1>3 DEF FreshFails, JobInv, TypeOK
    <2>2. QED
      BY <1>2, <1>3, <2>1, FreshCloses DEF FreshFails
  <1>4. CASE CandidateFound
    <2> DEFINE n == IF aborted THEN CloseCalled(NewRun) ELSE InitCalled(NewRun)
    <2>1. /\ pc = "work" /\ runs' = [runs EXCEPT !["fresh"] = n]
          /\ IF aborted THEN pc' = "fresh_close" /\ error' = "transient"
             ELSE pc' = "fresh_init" /\ error' = error
          /\ UNCHANGED <<kind, aborted, waits, replayed, result>>
      BY <1>4 DEF CandidateFound
    <2>2. /\ n \in BrowserRun /\ RunOK(n) /\ n.made
          /\ aborted => n.close # "none"
      BY NewRuns, CloseCalledRun
    <2> HIDE DEF n
    <2>3. /\ runs' \in [Sessions -> BrowserRun]
          /\ runs'["main"] = runs["main"] /\ runs'["fresh"] = n
      BY <2>1, <2>2 DEF JobInv, TypeOK, Sessions
    <2>4. TypeOK'
      BY <1>2, <2>1, <2>3 DEF JobInv, TypeOK, Places
    <2>5. RunsOK'
      BY <2>2, <2>3 DEF JobInv, RunsOK, RunOK, InitPending, Sessions
    <2>6. PlacesOK'
      BY <2>1, <2>2, <2>3 DEF JobInv, PlacesOK, Closing
    <2>7. ReplayOK'
      BY <1>2, <2>1 DEF JobInv, ReplayOK
    <2>8. QED
      BY <2>4, <2>5, <2>6, <2>7 DEF JobInv
  <1>5. CASE FreshInit
    <2>1. CASE Goes("fresh_work")
      BY <1>5, <2>1, GoesKeepsInv DEF FreshInit, Places
    <2>2. CASE FreshFails("transient")
      BY <1>2, <1>3, <1>5, <2>2 DEF FreshInit
    <2>3. ASSUME NEW class \in TextClasses, FreshFails(class)
          PROVE  JobInv'
      BY <1>1, <1>3, <1>5, <2>3 DEF FreshInit
    <2>4. QED
      BY <1>5, <2>1, <2>2, <2>3 DEF FreshInit
  <1>6. CASE FreshDone
    <2>1. aborted \in BOOLEAN
      BY DEF JobInv, TypeOK
    <2>2. QED
      BY <1>2, <1>6, <2>1, FreshCloses DEF FreshDone
  <1>7. CASE FreshWorkFails
    BY <1>1, <1>3, <1>7 DEF FreshWorkFails
  <1>8. CASE FreshClosed
    <2>1. pc = "fresh_close" /\ runs["fresh"].close = "done"
      BY <1>8 DEF FreshClosed
    <2>2. CASE error # "none" /\ Fails(error)
      <3>1. error \in Classes
        BY <2>2 DEF JobInv, TypeOK
      <3>2. QED
        BY <2>1, <2>2, <3>1, FailsKeepsInv
    <2>3. CASE error = "none" /\ Goes("evidence")
      <3>1. "evidence" \in Places /\ (kind = "repair" => replayed)
        BY <2>1, <2>3 DEF JobInv, ReplayOK, Places
      <3>2. QED
        BY <2>1, <2>3, <3>1, GoesKeepsInv
    <2>4. CASE error = "none" /\ Fails("doubtful")
      BY <1>2, <2>1, <2>4, FailsKeepsInv
    <2>5. QED
      BY <1>8, <2>2, <2>3, <2>4 DEF FreshClosed
  <1>9. QED
    BY <1>4, <1>5, <1>6, <1>7, <1>8

LEMMA EndKeepsInv ==
    ASSUME JobInv,
           \/ EvidenceTaken \/ EvidenceFails \/ Succeeds \/ FailureEvidenceDone \/ Returns
    PROVE  JobInv'
  <1>1. TextClasses \subseteq Classes
    BY DEF TextClasses, Classes
  <1>2. pc \in {"evidence", "writing", "failure_evidence", "closing"} =>
           (runs["fresh"].made => runs["fresh"].close = "done")
    BY DEF JobInv, PlacesOK
  <1>3. CASE EvidenceTaken
    <2>1. /\ pc = "evidence" /\ "writing" \in Places /\ Goes("writing")
          /\ kind = "repair" => replayed
      BY <1>3 DEF EvidenceTaken, Places, JobInv, ReplayOK
    <2>2. QED
      BY <1>2, <2>1, GoesKeepsInv
  <1>4. CASE EvidenceFails
    BY <1>1, <1>2, <1>4, FailsKeepsInv DEF EvidenceFails
  <1>5. CASE Succeeds \/ FailureEvidenceDone
    <2>1. /\ pc \in {"writing", "failure_evidence"} /\ pc' = "closing" /\ runs' = Closes(runs)
          /\ UNCHANGED <<kind, aborted, waits, error, replayed>>
          /\ \/ pc = "writing" /\ result' = Success
             \/ pc = "failure_evidence" /\ result' = result
      BY <1>5 DEF Succeeds, FailureEvidenceDone
    <2>2. /\ runs' \in [Sessions -> BrowserRun] /\ RunsOK'
          /\ runs'["fresh"] = runs["fresh"]
          /\ runs'["main"].made => runs'["main"].close # "none"
      BY <2>1, ClosesRuns DEF JobInv, RunsOK, RunOK, InitPending
    <2>3. TypeOK'
      BY <2>1, <2>2 DEF JobInv, TypeOK, Places, JobResult, Success
    <2>4. PlacesOK'
      BY <2>1, <2>2 DEF JobInv, PlacesOK, Closing
    <2>5. ReplayOK'
      BY <2>1 DEF JobInv, ReplayOK
    <2>6. QED
      BY <2>2, <2>3, <2>4, <2>5 DEF JobInv
  <1>6. CASE Returns
    <2>1. /\ pc = "closing" /\ pc' = "settled"
          /\ UNCHANGED <<kind, aborted, runs, waits, error, replayed, result>>
          /\ runs["main"].made => runs["main"].close = "done"
      BY <1>6 DEF Returns, Goes
    <2>2. QED
      BY <2>1 DEF JobInv, TypeOK, Places, RunsOK, RunOK, InitPending, PlacesOK, Closing, ReplayOK
  <1>7. QED
    BY <1>3, <1>4, <1>5, <1>6

LEMMA InvNext == JobInv /\ [Next]_vars => JobInv'
  <1> SUFFICES ASSUME JobInv, [Next]_vars PROVE JobInv'
    OBVIOUS
  <1>1. ASSUME NEW s \in Sessions, StagehandStep(s) \/ CloseStep(s) PROVE JobInv'
    BY <1>1, SessionKeepsInv
  <1>2. CASE Abort
    BY <1>2, AbortKeepsInv
  <1>3. CASE OwnStep \/ PageStep \/ WorkGoesOn
    BY <1>3, MainKeepsInv, FreshKeepsInv, EndKeepsInv DEF OwnStep, PageStep
  <1>4. CASE UNCHANGED vars
    BY <1>4
    DEF vars, JobInv, TypeOK, RunsOK, RunOK, InitPending, PlacesOK, Closing, ReplayOK
  <1>5. QED
    BY <1>1, <1>2, <1>3, <1>4 DEF Next

(* The sessions of a job are in step with the job, wherever the deadline    *)
(* strikes: the inductive invariant behind the theorems below.              *)
THEOREM JobConsistent == Spec => []JobInv
  BY InvInit, InvNext, PTL DEF Spec

-------------------------------------------------------------------------------
(* When executeJob returns, closeOnce has ended the browsers of both        *)
(* sessions, none is still to be launched, and the caches are removed.      *)
THEOREM NothingIsLeftBehind == Spec => []NothingLeftBehind
  <1>1. JobInv => NothingLeftBehind
    <2> SUFFICES ASSUME JobInv, pc = "settled", NEW s \in Sessions
                 PROVE  ~runs[s].browser /\ ~runs[s].cache /\ ~InitPending(runs[s])
      BY DEF NothingLeftBehind, InitPending
    <2>1. RunOK(runs[s]) /\ (runs[s].made => runs[s].close = "done")
      BY DEF JobInv, RunsOK, PlacesOK, Sessions
    <2>2. ~NoRun.browser /\ ~NoRun.cache /\ ~InitPending(NoRun)
      BY DEF NoRun, InitPending
    <2>3. QED
      BY <2>1, <2>2 DEF RunOK
  <1>2. QED
    BY <1>1, JobConsistent, PTL

(* A repair that succeeds was replayed by validateRepairFresh in a second   *)
(* session before the deadline.                                             *)
THEOREM OnlyReplayedRepairs == Spec => []RepairsAreReplayed
  <1>1. JobInv => RepairsAreReplayed
    BY DEF JobInv, ReplayOK, RepairsAreReplayed
  <1>2. QED
    BY <1>1, JobConsistent, PTL

(* A result that is fixed while the deadline closes the job's session is a  *)
(* success or a transient failure, never what the closed browser threw.     *)
THEOREM DeadlineReportedAsSuch == Spec => DeadlineIsNotStale
  <1>1. ASSUME JobInv, [Next]_vars
        PROVE  [(result' # result /\ Closing("main")) =>
                    result' \in {Success, Failure("transient")}]_vars
    <2>1. SUFFICES ASSUME Next, result' # result, Closing("main")
                   PROVE  result' \in {Success, Failure("transient")}
      BY <1>1
    <2>2. ASSUME NEW class, Fails(class), pc \notin {"closing", "settled"}
          PROVE  result' = Failure("transient")
      <3>1. aborted
        BY <1>1, <2>1, <2>2 DEF JobInv, PlacesOK
      <3>2. QED
        BY <2>2, <3>1 DEF Fails, TerminalError
    <2>3. ASSUME NEW s \in Sessions, StagehandStep(s) \/ CloseStep(s)
          PROVE  result' = result
      BY <2>3
      DEF StagehandStep, CloseStep, Launches, InitResolves, PageReady, InitFails, CloseOnce,
          RemoveCache, Changes
    <2>4. CASE Abort \/ WorkGoesOn
      BY <2>1, <2>4 DEF Abort, WorkGoesOn
    <2>5. CASE OwnStep
      BY <2>1, <2>2, <2>5
      DEF OwnStep, TargetResolved, TargetRefused, BrowserInit, FreshInit, FreshFails,
          FreshClosed, Succeeds, Returns, Goes
    <2>6. CASE PageStep
      BY <2>1, <2>2, <2>6
      DEF PageStep, WorkDone, CandidateFound, WorkFails, FreshDone, FreshWorkFails, FreshFails,
          EvidenceTaken, EvidenceFails, FailureEvidenceDone, Goes
    <2>7. QED
      BY <2>1, <2>3, <2>4, <2>5, <2>6 DEF Next
  <1>2. QED
    BY <1>1, JobConsistent, PTL DEF Spec, DeadlineIsNotStale

===============================================================================
