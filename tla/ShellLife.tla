------------------------------ MODULE ShellLife ------------------------------
(***************************************************************************)
(* What docs/architecture.md promises of a terminal ("A terminal outlives  *)
(* its WebSocket"): one shell per session, watched by at most one browser  *)
(* at a time, ended by exactly three things -- the far end exiting, a      *)
(* deliberate close, and the grace period running out with nobody there.   *)
(***************************************************************************)
VARIABLES
  life,      \* "unopened", "live", "exited" (by the far end) or "ended" (by us)
  attached,  \* a browser is attached to the shell
  closed     \* the session was closed deliberately

vars == <<life, attached, closed>>

Init == life = "unopened" /\ attached = FALSE /\ closed = FALSE

\* The first browser opens the shell.
Open == life = "unopened" /\ ~closed /\ life' = "live" /\ attached' = TRUE /\ UNCHANGED closed

\* The browser drops; the shell stays.
Drop == attached /\ attached' = FALSE /\ UNCHANGED <<life, closed>>

\* A browser comes back to the same shell.
Return == life = "live" /\ ~attached /\ attached' = TRUE /\ UNCHANGED <<life, closed>>

FarEndExits == life = "live" /\ life' = "exited" /\ attached' = FALSE /\ UNCHANGED closed

Close ==
  /\ closed' = TRUE
  /\ attached' = FALSE
  /\ life' = IF life = "live" THEN "ended" ELSE life

\* TERMINAL_DETACH_GRACE_SECONDS have passed with nobody attached.
Expire == life = "live" /\ ~attached /\ life' = "ended" /\ UNCHANGED <<attached, closed>>

Next == Open \/ Drop \/ Return \/ FarEndExits \/ Close \/ Expire

Spec == Init /\ [][Next]_vars

\* A shell nobody comes back to does not keep running.
FairSpec == Spec /\ WF_vars(Expire)

=============================================================================
