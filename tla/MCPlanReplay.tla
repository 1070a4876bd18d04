----------------------------- MODULE MCPlanReplay ------------------------------
(* Instances of PlanReplay for TLC. *)
EXTENDS PlanReplay

Style(group, point, short, note) ==
    [group |-> group, point |-> point, short |-> short, note |-> note]

English == Style("comma", "dot", FALSE, "none")

ShopStyles ==
    {English, Style("comma", "dot", TRUE, "none"), Style("dot", "comma", FALSE, "none"),
     Style("dot", "comma", TRUE, "none"), Style("space", "comma", FALSE, "none"),
     Style("none", "dot", FALSE, "none"),
     Style("comma", "dot", FALSE, "was"), Style("comma", "dot", FALSE, "from")}

(* A price of three digits that grows a fourth with a variant, the largest  *)
(* one, and two that are refused.                                           *)
EdgePrices == {0, 98500, 100000000, 100000001}

AskedFor ==
    {<<>>, [color |-> "silver"], [color |-> "black", capacity |-> "2tb"], [capacity |-> "4tb"]}
===============================================================================
