---------------------------- MODULE MC_PQoSAlloc ----------------------------
EXTENDS PQoSAlloc, TLC

CONSTANTS g1

MCGoroutines == {g1}

\* PIDs as Go ints: a task that exists (1) and one that does not (-1); the
\* narrowing run adds 5, which C.pid_t cuts to 1 at the scaled width 4.
MCGoPids == {-1, 1}
MCGoPidsNarrow == {-1, 1, 5}
\* The results only the round-trip properties read: those of the getters.
ReadResults == {"L3CAGet", "L2CAGet", "MBAGet", "AllocAssocGet", "AllocAssocGetPID"}

\* States are told apart by what the next steps and the properties read.
\* No guard reads ret or allocRet; the properties read allocRet only after
\* a getter and TypeOK only its error, so another method's result is kept
\* as its error alone.
AllocView ==
  <<instance, initialized, initOnceDone, initErr, native,
    cdpOn, cat, assoc, want, wantAssoc, taskAssoc, wantPid, mba, wantMba,
    IF allocRet.op \in ReadResults THEN allocRet ELSE allocRet.err>>
=============================================================================
