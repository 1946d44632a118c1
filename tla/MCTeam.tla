-------------------------------- MODULE MCTeam --------------------------------
\* Small instances of Team for TLC.
EXTENDS Team, TLC

Symmetry == Permutations(People) \cup Permutations(Hosts)
            \cup Permutations(Invitations) \cup Permutations(Requests)
=============================================================================
