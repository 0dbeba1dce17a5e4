--------------------------- MODULE MCIndexContexts ---------------------------
(* IndexContexts with two threads and two names: a command and one it races   *)
(* with, and the two names a rename or a swap needs.                          *)
EXTENDS IndexContexts, TLC

CONSTANTS t1, t2, a, b, c1, c2

MCThreads == {t1, t2}
MCNames == {a, b}
MCContexts == {c1, c2}
MCFaults == {"env", "reader"}

\* Nothing tells the threads apart, nor the names, nor the contexts.
Symmetry == Permutations(MCThreads) \cup Permutations(MCNames)
            \cup Permutations(MCContexts)
=============================================================================
