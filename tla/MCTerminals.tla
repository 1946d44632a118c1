---------------------------- MODULE MCTerminals ----------------------------
(* Instances of Terminals: three browser sockets, two shells.               *)
EXTENDS Terminals, TLC

CONSTANTS s1, s2, s3, h1, h2

Symmetry == Permutations({s1, s2, s3}) \cup Permutations({h1, h2})

OnlyOutputWhileDying == {"outputWhileDying"}

============================================================================
