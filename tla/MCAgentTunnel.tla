--------------------------- MODULE MCAgentTunnel ---------------------------
(* Instances of AgentTunnel: two terminals, two processes.                  *)
EXTENDS AgentTunnel, TLC

CONSTANTS a1, a2, p1, p2

Symmetry == Permutations({a1, a2}) \cup Permutations({p1, p2})

OnlyLostClose == {"lostClose"}

============================================================================
