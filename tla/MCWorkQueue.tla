------------------------------ MODULE MCWorkQueue ------------------------------
(* Instances of WorkQueue for TLC. *)
EXTENDS WorkQueue, TLC

CONSTANTS j1, j2, w1, w2, p1, p2

OneJob == {j1}
TwoJobs == {j1, j2}
TwoWorkers == {w1, w2}
OneRelay == {p1}
TwoRelays == {p1, p2}

Symmetry == Permutations(TwoJobs) \cup Permutations(TwoWorkers) \cup Permutations(TwoRelays)
===============================================================================
