----------------------------- MODULE MCEnrolment -----------------------------
\* Small instances of Enrolment for TLC.
EXTENDS Enrolment, TLC

Symmetry == Permutations(Codes) \cup Permutations(Pairings)
            \cup Permutations(Withdrawals) \cup Permutations(Tunnels)
=============================================================================
