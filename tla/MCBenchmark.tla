---------------------------- MODULE MCBenchmark -----------------------------
EXTENDS Benchmark, TLC

CONSTANTS c1, c2

Entries == 0..3
TwoClients == {c1, c2}
Symmetry == Permutations(TwoClients)
=============================================================================
