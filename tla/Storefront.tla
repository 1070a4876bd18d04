------------------------------ MODULE Storefront -------------------------------
(***************************************************************************)
(* The shop whose product page is watched: the retailer fixture             *)
(* (fixture/src/server.ts) with its control endpoints and its two page      *)
(* layouts.  Two things go beyond the fixture, for the live compiler, which *)
(* works on any shop: a shop has its own style of price texts, and it may   *)
(* put another product at the URL.                                          *)
(*                                                                          *)
(* deployment is always equal to version and is left out.  A page is what a *)
(* browser has loaded: it does not change with the store afterwards.        *)
(***************************************************************************)
EXTENDS PriceText

CONSTANTS
    Prices,          \* amounts that price requests carry
    Styles,          \* styles of price texts that shops have
    FixtureStyle,    \* the style of the fixture
    MaxControls      \* bound: changes of the shop

ASSUME StorefrontAssumption ==
    Prices \subseteq Nat /\ FixtureStyle \in Styles /\ MaxControls \in Nat

(* Thousands may be separated, and cents are by another sign.               *)
ASSUME StylesAssumption ==
    /\ Styles \subseteq [group: {"none", "space"} \cup Points, point: Points,
                         short: BOOLEAN, note: {"none", "was", "from"}]
    /\ \A s \in Styles : s.point # s.group

VARIABLES
    store,           \* the state of the shop
    style,           \* its style of price texts
    controls         \* number of changes so far

shop == <<store, style, controls>>

Attributes == {"color", "capacity"}

Offers == [color |-> {"black", "silver"}, capacity |-> {"1tb", "2tb"}]

Preselected == [color |-> "black", capacity |-> "1tb"]

initialState == [version |-> 1, base |-> 109900, inStock |-> TRUE, item |-> "atlas"]

AllowedPrice(value) == value > 0 /\ value <= 100000000

Control(s) ==
    /\ controls < MaxControls
    /\ store' = s
    /\ controls' = controls + 1
    /\ UNCHANGED style

deploy == store.version # 2 /\ Control([store EXCEPT !.version = 2])

reset == store # initialState /\ Control(initialState)

price == \E value \in Prices : AllowedPrice(value) /\ Control([store EXCEPT !.base = value])

stock == Control([store EXCEPT !.inStock = ~@])

(* A shop other than the fixture puts another product at the URL. *)
relist == Control([store EXCEPT !.item = "other"])

-------------------------------------------------------------------------------
(* A loaded page; clicks select variants. *)

productPage(s) ==
    [version |-> s.version, base |-> s.base, inStock |-> s.inStock, item |-> s.item,
     selected |-> Preselected]

(* render in clientScript. *)
Total(base, selected) ==
    base + (IF selected.color = "silver" THEN 2000 ELSE 0)
         + (IF selected.capacity = "2tb" THEN 15000 ELSE 0)

PriceNode(page) == money(Total(page.base, page.selected), style)

(* The battery life of the product, another number on the page. *)
BatteryNode == [numerals |-> <<[runs |-> <<Run(60, 2)>>, seps |-> <<>>]>>,
                currencies |-> {}, qualified |-> FALSE]

(* The offer in the structured data is that of the preselected variant,     *)
(* written by toFixed(2).                                                    *)
JsonLdPrice(page) ==
    [money(page.base, [group |-> "none", point |-> "dot", short |-> FALSE, note |-> "none"])
        EXCEPT !.currencies = {}]
===============================================================================
