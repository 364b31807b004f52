----------------------------- MODULE MC_LyfLog -----------------------------
EXTENDS LyfLog, TLC
Interchangeable == Permutations(Monitors)
=============================================================================
