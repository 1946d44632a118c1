------------------------------- MODULE MCSignIn -------------------------------
\* Small instances of SignIn for TLC.
EXTENDS SignIn, TLC

CONSTANTS c1, c2

\* The tokens they signed in with.  Both tabs are of the first client; the second only ends sessions elsewhere.
InOrder == c1 :> 1 @@ c2 :> 2
OneBusyClient == [s \in Tabs |-> c1]
TwoWorkspaces == {1, 2}
Symmetry == Permutations(Tabs)
=============================================================================
