------------------------------- MODULE WorkerJob -------------------------------
(***************************************************************************)
(* One job of a worker: executeJob (worker/src/handler.ts) under the        *)
(* deadline of executeWithJobTimeout (queue.ts), with the browser sessions  *)
(* it opens (BrowserRun in browser.ts): one for the job and, for a repair,  *)
(* a fresh one that replays the candidate.                                   *)
(*                                                                          *)
(* The worker is single threaded: an action is what runs between two        *)
(* awaits.  The deadline may strike at any of them; its listeners close the *)
(* sessions, which makes pending page operations fail.  Stagehand is        *)
(* external: a browser appears at some time while init() is pending, a      *)
(* page operation may hang until its browser is closed, and close() ends    *)
(* the browser that exists when it takes effect, not one that is yet to be  *)
(* launched.                                                                 *)
(***************************************************************************)
EXTENDS Naturals

CONSTANT Kinds       \* kinds of execution: compile, check, repair

ASSUME KindsAssumption == Kinds \subseteq {"compile", "check", "repair"}

VARIABLES
    kind,            \* input.execution.kind
    pc,              \* the await executeJob is at
    aborted,         \* signal.aborted
    runs,            \* the BrowserRun of each session
    waits,           \* what the work of the job waits for: the page or a model
    error,           \* the error that is on its way through finally blocks
    replayed,        \* the fresh session has replayed the candidate
    result           \* the ExecutionResult

vars == <<kind, pc, aborted, runs, waits, error, replayed, result>>

Sessions == {"main", "fresh"}

(* init is the progress of initPromise: not called, launching (no browser   *)
(* yet), started, preparing the page, ready or failed.  close is the await  *)
(* closeOnce is at.  made says that the constructor has run.                *)
BrowserRun ==
    [made: BOOLEAN,
     init: {"none", "launching", "started", "preparing", "ready", "failed"},
     browser: BOOLEAN,
     cache: BOOLEAN,
     close: {"none", "first", "wait", "second", "rm", "done"}]

NoRun == [made |-> FALSE, init |-> "none", browser |-> FALSE, cache |-> FALSE, close |-> "none"]

NewRun == [NoRun EXCEPT !.made = TRUE]

(* Groups of failure classifications, as in ControlPlane.  A "doubtful"     *)
(* error is a ValidationError, an "other" one a SafetyError, and a "stale"  *)
(* one may be a StaleActionError.                                            *)
Classes == {"transient", "stale", "blocked", "doubtful", "other"}

(* Any other error is classified by its text, which may come from the page, *)
(* the browser or a model and may say anything.                              *)
TextClasses == {"transient", "stale", "blocked"}

(* What a page operation of the job may throw, also when its browser has    *)
(* been closed: a replayed action, an extraction, a validation.             *)
ReplayErrors == TextClasses \cup {"other"}

ExtractErrors == TextClasses \cup {"doubtful"}

ValidationErrors == {"doubtful"}

PageErrors == ReplayErrors \cup ExtractErrors \cup ValidationErrors

(* A model call may fail, or propose what assertSafeAction refuses. *)
ModelErrors == TextClasses \cup {"other"}

Settled(s) == runs[s].init \in {"ready", "failed"}

Closing(s) == runs[s].close # "none"

Failure(class) ==
    [status |-> IF class = "doubtful" THEN "needs_review" ELSE "failed", class |-> class]

Success == [status |-> "succeeded", class |-> "none"]

Pending == [status |-> "none", class |-> "none"]

Init ==
    /\ kind \in Kinds
    /\ pc = "resolve"
    /\ aborted = FALSE
    /\ runs = [s \in Sessions |-> NoRun]
    /\ waits = "page"
    /\ error = "none"
    /\ replayed = FALSE
    /\ result = Pending

-------------------------------------------------------------------------------
(* BrowserRun. *)

InitCalled(run) == [run EXCEPT !.init = "launching", !.cache = TRUE]

(* close(): the first call starts closeOnce, the others join it. *)
CloseCalled(run) ==
    IF run.made /\ run.close = "none"
    THEN [run EXCEPT !.close = IF run.init = "none" THEN "rm" ELSE "first"]
    ELSE run

Changes(s, run) ==
    /\ runs' = [runs EXCEPT ![s] = run]
    /\ UNCHANGED <<kind, pc, aborted, waits, error, replayed, result>>

(* stagehand.init() launches the browser. *)
Launches(s) ==
    /\ runs[s].init = "launching"
    /\ Changes(s, [runs[s] EXCEPT !.init = "started", !.browser = TRUE])

(* stagehand.init() resolves: initialize goes on, or cleans up and throws. *)
InitResolves(s) ==
    /\ runs[s].init = "started"
    /\ Changes(s, IF Closing(s)
                  THEN [runs[s] EXCEPT !.init = "failed", !.browser = FALSE]
                  ELSE [runs[s] EXCEPT !.init = "preparing"])

(* The domain policy is set and there is a page. *)
PageReady(s) ==
    /\ runs[s].init = "preparing" /\ runs[s].browser
    /\ Changes(s, [runs[s] EXCEPT !.init = "ready"])

(* init() rejects; a browser that was launched stays until it is closed. *)
InitFails(s) ==
    /\ runs[s].init \in {"launching", "started", "preparing"}
    /\ Changes(s, [runs[s] EXCEPT !.init = "failed"])

(* Faulty variant: closes once and does not wait for the initialization. *)
CloseOnceHasty(s) ==
    /\ runs[s].close = "first"
    /\ Changes(s, [runs[s] EXCEPT !.close = "rm", !.browser = FALSE])

(* closeOnce: close what is there, wait for the initialization, close what  *)
(* it may have launched meanwhile.                                           *)
CloseOnce(s) ==
    \/ /\ runs[s].close = "first"
       /\ Changes(s, [runs[s] EXCEPT !.close = "wait", !.browser = FALSE])
    \/ /\ runs[s].close = "wait" /\ Settled(s)
       /\ Changes(s, [runs[s] EXCEPT !.close = "second"])
    \/ /\ runs[s].close = "second"
       /\ Changes(s, [runs[s] EXCEPT !.close = "rm", !.browser = FALSE])

RemoveCache(s) ==
    /\ runs[s].close = "rm"
    /\ Changes(s, [runs[s] EXCEPT !.close = "done", !.cache = FALSE])

-------------------------------------------------------------------------------
(* The deadline of executeWithJobTimeout. *)

(* Faulty variant: nothing listens to the signal. *)
NoListeners == {}

(* Sessions whose closeOnAbort is registered: the job's until its finally   *)
(* block, the fresh one's until that of validateRepairFresh.                *)
Listeners ==
    (IF pc # "closing" THEN {"main"} ELSE {}) \cup
    (IF pc \in {"fresh_init", "fresh_work"} THEN {"fresh"} ELSE {})

Abort ==
    /\ ~aborted /\ pc # "settled"
    /\ aborted' = TRUE
    /\ runs' = [s \in Sessions |-> IF s \in Listeners THEN CloseCalled(runs[s]) ELSE runs[s]]
    /\ UNCHANGED <<kind, pc, waits, error, replayed, result>>

-------------------------------------------------------------------------------
(* executeJob. *)

(* Faulty variant: the error that the closed browser caused is reported. *)
ErrorAsThrown(class) == class

(* The deadline's reason replaces whatever it made fail. *)
TerminalError(class) == IF aborted THEN "transient" ELSE class

HasPage == runs["main"].init = "ready"

(* The finally block of executeJob. *)
Closes(table) == [table EXCEPT !["main"] = CloseCalled(@)]

(* The catch block: the result is fixed, then evidence if there is a page. *)
Fails(class) ==
    /\ result' = Failure(TerminalError(class))
    /\ IF HasPage /\ ~aborted
       THEN pc' = "failure_evidence" /\ UNCHANGED runs
       ELSE pc' = "closing" /\ runs' = Closes(runs)
    /\ error' = "none"
    /\ UNCHANGED <<kind, aborted, waits, replayed>>

Goes(to) ==
    /\ pc' = to
    /\ UNCHANGED <<kind, aborted, runs, waits, error, replayed, result>>

(* The target is resolved; the session is made and its init() called. *)
TargetResolved ==
    /\ pc = "resolve"
    /\ IF aborted THEN Fails("transient")
       ELSE /\ runs' = [runs EXCEPT !["main"] = InitCalled(NewRun)]
            /\ pc' = "init"
            /\ UNCHANGED <<kind, aborted, waits, error, replayed, result>>

(* The target is refused, or a model is needed and not configured. *)
TargetRefused ==
    /\ pc = "resolve"
    /\ \/ Fails("other")
       \/ kind # "check" /\ Fails("transient")

BrowserInit ==
    /\ pc = "init"
    /\ \/ runs["main"].init = "ready" /\ ~aborted /\ Goes("work")
       \/ runs["main"].init = "ready" /\ aborted /\ Fails("transient")
       \/ runs["main"].init = "failed" /\ \E class \in TextClasses : Fails(class)

(* compileLive and repairLive alternate page operations and model calls. *)
WorkGoesOn ==
    /\ pc = "work"
    /\ \/ waits = "page" /\ kind # "check" /\ runs["main"].browser /\ waits' = "model"
       \/ waits = "model" /\ waits' = "page"
    /\ UNCHANGED <<kind, pc, aborted, runs, error, replayed, result>>

(* The last page operation of compileMonitor, warmCheck or repairLive. *)
WorkDone ==
    /\ pc = "work" /\ waits = "page" /\ runs["main"].browser
    /\ kind # "repair"
    /\ Goes("evidence")

(* validateRepairFresh up to its first await. *)
CandidateFound ==
    /\ pc = "work" /\ waits = "page" /\ runs["main"].browser
    /\ kind = "repair"
    /\ IF aborted
       THEN /\ runs' = [runs EXCEPT !["fresh"] = CloseCalled(NewRun)]
            /\ pc' = "fresh_close" /\ error' = "transient"
       ELSE /\ runs' = [runs EXCEPT !["fresh"] = InitCalled(NewRun)]
            /\ pc' = "fresh_init" /\ UNCHANGED error
    /\ UNCHANGED <<kind, aborted, waits, replayed, result>>

(* An error of the page or of the model.  repairLive turns to a new         *)
(* compilation first, which fails in its turn or goes on.                    *)
WorkFails ==
    /\ pc = "work"
    /\ \E class \in IF waits = "model" THEN ModelErrors ELSE PageErrors : Fails(class)

FreshFails(class) ==
    /\ error' = class
    /\ pc' = "fresh_close"
    /\ runs' = [runs EXCEPT !["fresh"] = CloseCalled(@)]
    /\ UNCHANGED <<kind, aborted, waits, replayed, result>>

FreshInit ==
    /\ pc = "fresh_init"
    /\ \/ runs["fresh"].init = "ready" /\ ~aborted /\ Goes("fresh_work")
       \/ runs["fresh"].init = "ready" /\ aborted /\ FreshFails("transient")
       \/ runs["fresh"].init = "failed" /\ \E class \in TextClasses : FreshFails(class)

(* warmCheck of the candidate in the fresh session. *)
FreshDone ==
    /\ pc = "fresh_work" /\ runs["fresh"].browser
    /\ error' = IF aborted THEN "transient" ELSE "none"
    /\ replayed' = ~aborted
    /\ pc' = "fresh_close"
    /\ runs' = [runs EXCEPT !["fresh"] = CloseCalled(@)]
    /\ UNCHANGED <<kind, aborted, waits, result>>

FreshWorkFails ==
    /\ pc = "fresh_work"
    /\ \E class \in PageErrors : FreshFails(class)

(* Faulty variant: an error of the fresh session is forgotten. *)
FreshErrorForgotten ==
    /\ pc = "fresh_close" /\ runs["fresh"].close = "done"
    /\ Goes("evidence")

(* The fresh session is closed; then its error surfaces, or the             *)
(* observations are compared.                                                *)
FreshClosed ==
    /\ pc = "fresh_close" /\ runs["fresh"].close = "done"
    /\ \/ error # "none" /\ Fails(error)
       \/ error = "none" /\ (Goes("evidence") \/ Fails("doubtful"))

(* captureEvidence: screenshot and snapshot, then the files. *)
EvidenceTaken ==
    /\ pc = "evidence" /\ runs["main"].browser
    /\ Goes("writing")

EvidenceFails ==
    /\ pc \in {"evidence", "writing"}
    /\ \E class \in TextClasses : Fails(class)

Succeeds ==
    /\ pc = "writing"
    /\ result' = Success
    /\ pc' = "closing"
    /\ runs' = Closes(runs)
    /\ UNCHANGED <<kind, aborted, waits, error, replayed>>

(* Evidence of a failure is best effort. *)
FailureEvidenceDone ==
    /\ pc = "failure_evidence"
    /\ pc' = "closing"
    /\ runs' = Closes(runs)
    /\ UNCHANGED <<kind, aborted, waits, error, replayed, result>>

Returns ==
    /\ pc = "closing"
    /\ runs["main"].made => runs["main"].close = "done"
    /\ Goes("settled")

-------------------------------------------------------------------------------
StagehandStep(s) == Launches(s) \/ InitResolves(s) \/ PageReady(s) \/ InitFails(s)

CloseStep(s) == CloseOnce(s) \/ RemoveCache(s)

(* Awaits that end by themselves: DNS, files, settled promises. *)
OwnStep ==
    \/ TargetResolved \/ TargetRefused \/ BrowserInit \/ FreshInit
    \/ FreshClosed \/ Succeeds \/ Returns

(* Awaits for a browser. *)
PageStep ==
    \/ WorkDone \/ CandidateFound \/ WorkFails \/ FreshDone \/ FreshWorkFails
    \/ EvidenceTaken \/ EvidenceFails \/ FailureEvidenceDone

Next ==
    \/ \E s \in Sessions : StagehandStep(s) \/ CloseStep(s)
    \/ Abort
    \/ OwnStep
    \/ PageStep
    \/ WorkGoesOn

ModelCalled == pc = "work" /\ waits = "model"

ActiveSession == IF pc = "fresh_work" THEN "fresh" ELSE "main"

(* The timer fires, close() ends, a session that is being closed settles    *)
(* its init(), operations of a closed browser fail, and a model answers or  *)
(* times out.  Nothing else of Stagehand is sure to end.                    *)
Fairness ==
    /\ WF_vars(Abort) /\ WF_vars(OwnStep)
    /\ \A s \in Sessions : WF_vars(CloseStep(s)) /\ WF_vars(Closing(s) /\ StagehandStep(s))
    /\ WF_vars(~ModelCalled /\ ~runs[ActiveSession].browser /\ PageStep)
    /\ WF_vars(ModelCalled /\ (WorkGoesOn \/ WorkFails))

Spec == Init /\ [][Next]_vars

FairSpec == Spec /\ Fairness

-------------------------------------------------------------------------------
(* Properties. *)

(* When executeJob returns, no browser of it is running or still to be      *)
(* launched and its caches are gone, wherever the deadline struck.          *)
NothingLeftBehind ==
    pc = "settled" =>
        \A s \in Sessions :
            /\ ~runs[s].browser /\ ~runs[s].cache
            /\ runs[s].init \notin {"launching", "started", "preparing"}

(* A job that the deadline interrupts is reported as a transient failure:   *)
(* the errors of the closed browser (which look like missing elements and   *)
(* failed extractors) never open a repair or call for review.               *)
DeadlineIsNotStale ==
    [][(result' # result /\ Closing("main")) =>
          result' \in {Success, Failure("transient")}]_vars

(* A repair succeeds only with a candidate that a second session replayed   *)
(* before the deadline.                                                      *)
RepairsAreReplayed ==
    (kind = "repair" /\ result.status = "succeeded") => replayed

(* Every job settles: no page, launch or model can hold a worker for ever.  *)
JobSettles == <>(pc = "settled")

===============================================================================
