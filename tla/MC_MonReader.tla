---------------------------- MODULE MC_MonReader ----------------------------
EXTENDS MonReader, TLC

\* Readers share nothing but the MonData they read, so one reader goroutine
\* shows every interleaving of a getter with the poller.
CONSTANTS r1

MCReaders == {r1}
=============================================================================
