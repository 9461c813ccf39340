------------------------- MODULE MC_PQoSLifecycle -------------------------
(* Model-checking instance of PQoSLifecycle: three goroutines, symmetric.  *)
(* No bound is needed: every variable ranges over a finite set.           *)
EXTENDS PQoSLifecycle, TLC

CONSTANTS g1, g2, g3

MCGoroutines == {g1, g2, g3}

LifeSymmetry == Permutations(MCGoroutines)
=============================================================================
