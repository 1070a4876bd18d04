------------------------------ MODULE PlanReplay -------------------------------
(***************************************************************************)
(* What the worker does with a product page: it compiles a plan             *)
(* (compiler.ts), replays it in checks (warmCheck in handler.ts), repairs it *)
(* after a redesign (repairLive, validateRepairFresh), reads the page       *)
(* through the plan's extractors (extract.ts, extractorPolicy.ts) and       *)
(* validates what it read (validation.ts), while the shop changes between   *)
(* any two navigations.                                                     *)
(*                                                                          *)
(* A selector works on the layout it was made for and finds nothing on      *)
(* another.  The answers of the language model are external: each may be    *)
(* wrong, at most MaxWrong in a behaviour.  Failures of navigation, browser *)
(* and deadline are the subject of WorkerJob, what happens with a result is *)
(* that of ControlPlane: here plans of successful compiles and repairs are  *)
(* adopted at once.                                                         *)
(***************************************************************************)
EXTENDS Storefront

CONSTANTS
    Variants,        \* variants that operators ask for
    MaxWrong         \* bound: wrong answers of the model

ASSUME ReplayAssumption == MaxWrong \in Nat

ASSUME VariantsAssumption == \A v \in Variants : DOMAIN v \subseteq Attributes

VARIABLES
    monitor,         \* the compiler mode, the variant and the currency asked for
    plan,            \* the adopted plan, or NoPlan
    origin,          \* the store that the adopted plan was last replayed on
    job,             \* the job under way, or the last one
    page,            \* the page its browser shows, or NoPage
    loads,           \* the states of the store that it has loaded
    wrongs           \* wrong answers so far

vars == <<shop, monitor, plan, origin, job, page, loads, wrongs>>

NoPage == [version |-> 0]

(* layout: the version that the extractors are for; steps: the option that  *)
(* is clicked for each attribute, and the version its selector is for;      *)
(* price: the element the price is read from; labels: whether the selected  *)
(* values are read from their labels or from elements that never change;    *)
(* item: the identity.                                                      *)
NoPlan == [layout |-> 0]

NoObservation == [price |-> 0]

Idle ==
    [kind |-> "check", phase |-> "done", status |-> "failed", reason |-> "none",
     plan |-> NoPlan, obs |-> NoObservation]

(* The variant that is selected.  On the fixture it is found in the         *)
(* operator's words if the condition names none.                            *)
fixtureVariants(asked) == IF asked = <<>> THEN Preselected ELSE asked

variant == IF monitor.mode = "scripted" THEN fixtureVariants(monitor.variant) ELSE monitor.variant

Requested == DOMAIN variant

Init ==
    /\ store = initialState /\ style \in Styles /\ controls = 0
    /\ monitor \in [mode: {"scripted", "live"}, variant: Variants, currency: {"USD", "EUR"}]
    /\ monitor.mode = "scripted" => style = FixtureStyle
    /\ plan = NoPlan /\ origin = initialState
    /\ job = Idle /\ page = NoPage /\ loads = {}
    /\ wrongs = 0

-------------------------------------------------------------------------------
(* Reading a page through a plan. *)

(* Faulty variant: structured data is a fallback for everything. *)
AlwaysJsonLd == {"title", "sku", "price", "currency", "availability"}

(* buildLiveExtractors: the fields that are read from the structured data   *)
(* if their selectors find nothing; the fixture's compiler adds none.       *)
JsonLdFields ==
    CASE monitor.mode = "scripted" -> {}
      [] monitor.mode = "live" /\ Requested # {} -> {"title", "currency"}
      [] OTHER -> {"title", "sku", "price", "currency", "availability"}

Fields == {"title", "sku", "price", "currency", "availability"}

ReadsFrom(p, pl) ==
    IF pl.layout # p.version THEN JsonLdPrice(p)
    ELSE IF pl.price = "price" THEN PriceNode(p)
    ELSE BatteryNode

Reads(p, pl) ==
    [item |-> p.item, price |-> parsePrice(ReadsFrom(p, pl)), currency |-> "USD", inStock |-> p.inStock,
     chosen |-> [a \in Requested |->
                    IF pl.labels = "label" THEN p.selected[a] ELSE variant[a]]]

(* The steps of a plan, clicked on the page; a selector without a target is *)
(* a stale action.                                                          *)
Clickable(p, step, a) == step.version = p.version /\ step.value \in Offers[a]

Prepared(p, steps) ==
    [p EXCEPT !.selected = [a \in Attributes |-> IF a \in DOMAIN steps THEN steps[a].value ELSE @[a]]]

(* The reason of the ValidationError, if any. *)
validateObservation(obs, pl) ==
    IF obs.currency # monitor.currency THEN "ambiguous_value"
    ELSE IF obs.item # pl.item \/ \E a \in Requested : obs.chosen[a] # variant[a]
    THEN "identity_drift"
    ELSE "none"

(* extractObservation on a prepared page: what is read, or why not. *)
extractObservation(p, pl) ==
    LET obs == Reads(p, pl) IN
    [obs |-> obs,
     error |-> IF pl.layout # p.version /\ ~(Fields \subseteq JsonLdFields) THEN "stale"
               ELSE IF obs.price = Refused THEN "ambiguous_value"
               ELSE "none"]

(* executeAndVerify, and warmCheck after its navigation. *)
executeAndVerify(p, pl) ==
    IF \E a \in DOMAIN pl.steps : ~Clickable(p, pl.steps[a], a)
    THEN [error |-> "stale", obs |-> NoObservation]
    ELSE LET read == extractObservation(Prepared(p, pl.steps), pl) IN
         IF read.error # "none" THEN read
         ELSE [read EXCEPT !.error = validateObservation(read.obs, pl)]

-------------------------------------------------------------------------------
(* Jobs. *)

Start(kind) ==
    /\ job.phase = "done"
    /\ (kind = "compile") <=> (plan = NoPlan)
    /\ job' = [Idle EXCEPT !.kind = kind, !.phase =
                  IF kind = "repair" /\ monitor.mode = "scripted" THEN "compile" ELSE kind]
    /\ page' = NoPage /\ loads' = {}
    /\ UNCHANGED <<shop, monitor, plan, origin, wrongs>>

(* page.goto. *)
Goto ==
    /\ job.phase # "done" /\ page = NoPage
    /\ page' = productPage(store)
    /\ loads' = loads \cup {store}
    /\ UNCHANGED <<shop, monitor, plan, origin, job, wrongs>>

Loaded(phase) == job.phase = phase /\ page # NoPage

(* classifyFailure and the status of the result: a ValidationError asks for *)
(* a review.                                                                *)
Fails(error) ==
    /\ job' = [job EXCEPT !.phase = "done", !.reason = error, !.status =
                  IF error \in {"ambiguous_value", "identity_drift"} THEN "needs_review" ELSE "failed"]
    /\ UNCHANGED <<plan, origin, page>>

MovesOn(phase, pl, obs) ==
    /\ job' = [job EXCEPT !.phase = phase, !.plan = pl, !.obs = obs]
    /\ page' = NoPage
    /\ UNCHANGED <<plan, origin>>

Succeeds(pl, obs) ==
    /\ job' = [job EXCEPT !.phase = "done", !.status = "succeeded", !.plan = pl, !.obs = obs]
    /\ IF job.kind = "check"
       THEN UNCHANGED <<plan, origin>>
       ELSE plan' = pl /\ origin' = [f \in DOMAIN store |-> page[f]]
    /\ UNCHANGED page

Check ==
    /\ Loaded("check")
    /\ \E done \in {executeAndVerify(page, plan)} :
       IF done.error = "none" THEN Succeeds(plan, done.obs) ELSE Fails(done.error)
    /\ UNCHANGED <<shop, monitor, loads, wrongs>>

(* compileFixture up to its second navigation: the layout is recognised,    *)
(* the identity is known.                                                   *)
compileFixture ==
    /\ Loaded("compile") /\ monitor.mode = "scripted"
    /\ \E pl \in {[layout |-> page.version,
                   steps |-> [a \in Requested |-> [version |-> page.version, value |-> variant[a]]],
                   price |-> "price", labels |-> "label", item |-> "atlas"]} :
       \E done \in {executeAndVerify(page, pl)} :
          IF done.error = "none" THEN MovesOn("verify", pl, done.obs) ELSE Fails(done.error)
    /\ UNCHANGED <<shop, monitor, loads, wrongs>>

Wrong(S) == wrongs + Cardinality(S) <= MaxWrong /\ wrongs' = wrongs + Cardinality(S)

(* Attributes for which an option is chosen that was not asked for. *)
Misses(options) == {a \in Requested : options[a] # variant[a]}

(* The answer of the model on a price: the one on the page, or another. *)
SemanticPrice(p, right) ==
    IF right THEN parsePrice(money(Total(p.base, p.selected), [style EXCEPT !.note = "none"]))
    ELSE parsePrice(BatteryNode)

(* compileLive up to its second navigation, with the model's choice of the  *)
(* options, of the elements of price and labels, and its reading of the     *)
(* price; the identity is that of the page.                                 *)
compileLive ==
    /\ Loaded("compile") /\ monitor.mode = "live"
    /\ \E options \in [Requested -> Offers["color"] \cup Offers["capacity"]],
          node \in {"price", "battery"}, labels \in {"label", "static"}, right \in BOOLEAN :
          /\ \A a \in Requested : options[a] \in Offers[a]
          /\ Wrong(Misses(options) \cup {c \in {"price"} : node # "price"}
                     \cup {c \in {"labels"} : labels = "static"} \cup {c \in {"semantic"} : ~right})
          /\ \E pl \in {[layout |-> page.version,
                         steps |-> [a \in Requested |-> [version |-> page.version, value |-> options[a]]],
                         price |-> node, labels |-> labels, item |-> page.item]} :
             \E p \in {Prepared(page, pl.steps)} :
             \E read \in {extractObservation(p, pl)} :
             \E error \in {IF read.error # "none" THEN read.error
                           ELSE IF SemanticPrice(p, right) # read.obs.price THEN "conflict"
                           ELSE validateObservation(read.obs, pl)} :
                IF error = "none" THEN MovesOn("verify", pl, read.obs) ELSE Fails(error)
    /\ UNCHANGED <<shop, monitor, loads>>

(* No option for an attribute is found. *)
NoSafeAction ==
    /\ Loaded("compile") /\ monitor.mode = "live" /\ Requested # {}
    /\ \/ \E a \in Requested : variant[a] \notin Offers[a] /\ UNCHANGED wrongs
       \/ Wrong({"none found"})
    /\ Fails("failed")
    /\ UNCHANGED <<shop, monitor, loads>>

(* verifyFresh, which ends a compile; a repair goes on in another browser.  *)
verifyFresh ==
    /\ Loaded("verify")
    /\ \E done \in {executeAndVerify(page, job.plan)} :
       IF done.error # "none" THEN Fails(done.error)
       ELSE IF job.kind = "repair" THEN MovesOn("fresh", job.plan, job.obs)
       ELSE Succeeds(job.plan, job.obs)
    /\ UNCHANGED <<shop, monitor, loads, wrongs>>

(* repairLive: the old plan is replayed, and the model replaces steps that  *)
(* have lost their target; if that does not help the page is compiled anew. *)
repairLive ==
    /\ Loaded("repair")
    /\ LET Lost == {a \in Requested : ~Clickable(page, plan.steps[a], a)} IN
       \E healed \in [Lost -> Offers["color"] \cup Offers["capacity"]] :
          /\ \A a \in Lost : healed[a] \in Offers[a]
          /\ Wrong({a \in Lost : healed[a] # variant[a]})
          /\ \E pl \in {[plan EXCEPT !.steps = [a \in Requested |->
                            IF a \in Lost THEN [version |-> page.version, value |-> healed[a]] ELSE @[a]]]} :
             \E done \in {executeAndVerify(page, pl)} :
                IF done.error = "none" THEN MovesOn("fresh", pl, done.obs)
                ELSE IF done.error = "stale" THEN MovesOn("compile", NoPlan, NoObservation)
                ELSE Fails(done.error)
    /\ UNCHANGED <<shop, monitor, loads>>

HealingFails ==
    /\ Loaded("repair")
    /\ \E a \in Requested : ~Clickable(page, plan.steps[a], a)
    /\ MovesOn("compile", NoPlan, NoObservation)
    /\ UNCHANGED <<shop, monitor, loads, wrongs>>

(* Faulty variant: that the replay succeeds is enough. *)
NeverConflicts(candidate, fresh) == TRUE

assertObservationsAgree(candidate, fresh) == candidate = fresh

(* validateRepairFresh. *)
validateRepairFresh ==
    /\ Loaded("fresh")
    /\ \E done \in {executeAndVerify(page, job.plan)} :
       IF done.error # "none" THEN Fails(done.error)
       ELSE IF assertObservationsAgree(job.obs, done.obs) THEN Succeeds(job.plan, job.obs)
       ELSE Fails("ambiguous_value")
    /\ UNCHANGED <<shop, monitor, loads, wrongs>>

ShopChanges ==
    /\ deploy \/ reset \/ price \/ stock \/ (monitor.mode = "live" /\ relist)
    /\ UNCHANGED <<monitor, plan, origin, job, page, loads, wrongs>>

Next ==
    \/ \E kind \in {"compile", "check", "repair"} : Start(kind)
    \/ Goto
    \/ Check \/ compileFixture \/ compileLive \/ NoSafeAction \/ verifyFresh
    \/ repairLive \/ HealingFails \/ validateRepairFresh
    \/ ShopChanges

Spec == Init /\ [][Next]_vars

-------------------------------------------------------------------------------
(* Properties. *)

Wanted == [a \in Attributes |-> IF a \in Requested THEN variant[a] ELSE Preselected[a]]

Offered == \A a \in Requested : variant[a] \in Offers[a]

(* "A failed extraction is safer than a confident wrong price" (README.md): *)
(* what a job reports is the price, the stock and the product that the shop *)
(* really offered for the requested variant at one of the moments it was    *)
(* loaded, although selectors go stale, options are clicked, texts are      *)
(* converted, structured data describes another variant and one answer of   *)
(* the model may be wrong.                                                  *)
ObservationIsGenuine ==
    (job.phase = "done" /\ job.status = "succeeded") =>
        /\ \E s \in loads :
              /\ job.obs.price = Total(s.base, Wanted)
              /\ job.obs.inStock = s.inStock
              /\ job.obs.item = s.item
        /\ job.obs.item = job.plan.item

(* A job does not fail for nothing: unless the shop changed between its     *)
(* navigations, the model was wrong or the request cannot be met, a compile *)
(* and a repair succeed, and a check succeeds on the layout on which its    *)
(* plan was last replayed.                                                  *)
QuietShopSucceeds ==
    (job.phase = "done" /\ job.status # "succeeded" /\ loads # {}) =>
        \/ Cardinality(loads) > 1 \/ wrongs > 0
        \/ ~Offered \/ monitor.currency # "USD" \/ style.note # "none"
        \/ plan # NoPlan /\ page.item # plan.item
        \/ job.kind = "check" /\ page.version # origin.version

(* A repair is adopted only if two browsers agreed on the price: its plan   *)
(* shows, on the last page it was replayed on, what it was adopted with.    *)
RepairIsReproduced ==
    (job.phase = "done" /\ job.status = "succeeded" /\ job.kind = "repair") =>
        /\ job.obs.price = Total(origin.base, Wanted)
        /\ job.obs.inStock = origin.inStock

(* README.md:290: "Currency conflicts, identity drift, missing selected     *)
(* variants, and ambiguous or installment prices are sent for review": a    *)
(* repaired plan is for the product of the plan that it replaces.           *)
IdentityKept == [][plan # NoPlan => plan'.item = plan.item]_vars

===============================================================================
