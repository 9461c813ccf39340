---------------------------- MODULE MC_PQoSMon ----------------------------
(* Model-checking instance of PQoSMon: one goroutine (all methods are     *)
(* serialised by p.mu), two groups so that a batch can mix groups, two     *)
(* PIDs so that removing some and removing all PIDs differ, two reads per  *)
(* group so that a failed poll can follow a successful one, and batches of *)
(* two entries so that a slice can name one group twice.                   *)
EXTENDS PQoSMon, TLC

CONSTANTS g1, m1, m2, p1, p2

MCGoroutines == {g1}
MCGroups == {m1, m2}
\* Core IDs are C uints of a scaled width 4 (2^32).  Two cores: core groups
\* that overlap, and MonReset unbinding several; a caller may also pass 4,
\* which C.uint cuts to core 0.
MCCoresWide == {0, 1}
MCGoCoresWide == {0, 1, 4}
MCPids == {p1, p2}

MonSymmetry == Permutations(MCGroups) \union Permutations(MCPids)

\* monRet, the result of the last monitoring method, is written by every
\* monitoring method and read by no action and by no property of
\* monitoring_safety: two states that differ only in it have the same
\* futures, and fingerprinting states without it loses no behaviour.
MonView == <<lifeVars, cgrp, mon, freedUse, polled, rmid>>
=============================================================================
