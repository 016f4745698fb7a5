--------------------------- MODULE MCValueStorage ---------------------------
\* Instance for TLC.
EXTENDS ValueStorage, TLC

Symmetric == Permutations(Optionals) \cup Permutations(Storages) \cup Permutations(Foreign)
=============================================================================
