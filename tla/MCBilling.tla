------------------------------ MODULE MCBilling -------------------------------
\* Small instances of Billing for TLC.
EXTENDS Billing, TLC

Symmetry == Permutations(Checkouts) \cup Permutations(Handlers)
=============================================================================
