---------------------------- MODULE MCAlertDelivery ----------------------------
(* Instances of AlertDelivery for TLC. *)
EXTENDS AlertDelivery, TLC

CONSTANTS a1, webhook, discord, r1, r2

OneAlert == {a1}
BothChannels == {webhook, discord}
OneRunner == {r1}
TwoRunners == {r1, r2}

AnyConfig == SUBSET Channels
SharedConfig == {{}, Channels}

Symmetry == Permutations(BothChannels) \cup Permutations(TwoRunners)
===============================================================================
