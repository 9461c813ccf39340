----------------------------- MODULE MC_CPUInfo -----------------------------
EXTENDS CPUInfo, TLC
=============================================================================
