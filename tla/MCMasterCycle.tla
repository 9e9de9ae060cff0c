--------------------------- MODULE MCMasterCycle ---------------------------
\* Small instances of MasterCycle for TLC.
EXTENDS MasterCycle, TLC
PidSymmetry == Permutations(Pids)
NoHelpers == <<>>
Manager == <<"manager">>
Caches == <<"manager", "loader">>
=============================================================================
