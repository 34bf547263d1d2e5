---------------------------- MODULE MCMemoryJobs ----------------------------
EXTENDS MemoryJobs, TLC

Symmetry == Permutations(Threads)
=============================================================================
