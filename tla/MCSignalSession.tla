--------------------------- MODULE MCSignalSession ---------------------------
EXTENDS SignalSession

Symmetry == Permutations(Parties)
=============================================================================
