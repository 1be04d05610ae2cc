---------------------------- MODULE MCLifecycle ----------------------------
(* Two goroutines and two controllers: enough for both compare-and-set    *)
(* races, both map orders, and a failure followed by a retry.             *)
EXTENDS Lifecycle, TLC

CONSTANTS p1, p2, c1, c2

MCCallers == {p1, p2}
MCControllers == {c1, c2}

Symm == Permutations(MCCallers) \cup Permutations(MCControllers)
====
