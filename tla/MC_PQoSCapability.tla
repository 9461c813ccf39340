------------------------ MODULE MC_PQoSCapability ------------------------
(* Model-checking instance of PQoSCapability: two goroutines, two          *)
(* capability types of which the platform reports one, so that both the   *)
(* reported and the unreported path of every accessor occur.  No bound is  *)
(* needed: every variable ranges over a finite set.                        *)
EXTENDS PQoSCapability, TLC

CONSTANTS g1, g2

MCGoroutines == {g1, g2}
====
