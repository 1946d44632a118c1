------------------------- MODULE MCSessionRecords -------------------------
(* Instances of SessionRecords: two sessions of any kind.                *)
EXTENDS SessionRecords

CONSTANTS r1, r2, l1

============================================================================
