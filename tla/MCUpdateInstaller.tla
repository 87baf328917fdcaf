-------------------------- MODULE MCUpdateInstaller --------------------------
\* Instances of UpdateInstaller for TLC.  No action names an installation or a process.
EXTENDS UpdateInstaller, TLC
Symmetry == Permutations(Install) \cup Permutations(Client) \cup Permutations(Helper)
=============================================================================
