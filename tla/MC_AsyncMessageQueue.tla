------------------------ MODULE MC_AsyncMessageQueue ------------------------
\* Small instances of AsyncMessageQueue for TLC.
EXTENDS AsyncMessageQueue, TLC

Symmetry == Permutations(Producers) \cup Permutations(Consumers)
              \cup Permutations(Messages)
=============================================================================
