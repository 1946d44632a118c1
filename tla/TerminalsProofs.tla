--------------------------- MODULE TerminalsProofs ---------------------------
(***************************************************************************)
(* Theorems about Terminals, for any number of browsers and shells, any    *)
(* backlog and any set of races; and, in the last part, about the records  *)
(* of the sessions these terminals belong to (SessionRecords).             *)
(***************************************************************************)
EXTENDS Terminals, SessionRecords, SequenceTheorems, TLAPS

-----------------------------------------------------------------------------
(* What the helpers return.                                                  *)

LEMMA EmptyBacklog == <<>> \in Backlogs
BY BoundsAssumption DEF Backlogs

LEMMA FreshTerminalType ==
  ASSUME NEW s \in Sockets \cup {NoSocket}
  PROVE  FreshTerminal(s) \in LiveTerminal
BY EmptyBacklog DEF FreshTerminal, LiveTerminal

\* remember keeps the backlog within its limit and touches nothing else.
LEMMA RememberType ==
  ASSUME NEW t \in LiveTerminal, NEW chunk \in Chunks
  PROVE  /\ Remember(t, chunk) \in LiveTerminal
         /\ Remember(t, chunk).socket = t.socket
         /\ Remember(t, chunk).exited = t.exited
         /\ Remember(t, chunk).grace = t.grace
<1> DEFINE all == Append(t.backlog, chunk)
           kept == IF Len(all) > MaxBacklog THEN Tail(all) ELSE all
<1>1. t.backlog \in Seq(Chunks) /\ Len(t.backlog) <= MaxBacklog
  BY DEF LiveTerminal, Backlogs
<1>2. all \in Seq(Chunks) /\ Len(all) = Len(t.backlog) + 1
  BY <1>1
<1>3. kept \in Seq(Chunks) /\ Len(kept) <= MaxBacklog
  BY <1>1, <1>2, BoundsAssumption
<1>4. Remember(t, chunk) = [t EXCEPT !.backlog = kept, !.truncated = t.truncated \/ Len(all) > MaxBacklog]
  BY DEF Remember
<1>5. kept \in Backlogs
  BY <1>3 DEF Backlogs
<1> QED BY <1>4, <1>5 DEF LiveTerminal

LEMMA StopType ==
  ASSUME NEW sh \in [Shells -> ShellStates], NEW H
  PROVE  Stop(sh, H) \in [Shells -> ShellStates]
BY DEF Stop, ShellStates

LEMMA HangUpType ==
  ASSUME NEW so \in [Sockets -> {"new", "open", "closing", "closed"}], NEW s
  PROVE  HangUp(so, s) \in [Sockets -> {"new", "open", "closing", "closed"}]
BY DEF HangUp

LEMMA DisposedClientType ==
  ASSUME client \in {"none", "connecting", "ready", "ending", "failed", "gone"}
  PROVE  DisposedClient \in {"none", "connecting", "ready", "ending", "failed", "gone"}
BY DEF DisposedClient

LEMMA EndTerminalType ==
  ASSUME TypeOK, NEW sh \in [Shells -> ShellStates], NEW map
  PROVE  /\ EndTerminal(sh, map) \in [Shells -> ShellStates]
         /\ EndTerminalSockets \in [Sockets -> {"new", "open", "closing", "closed"}]
         /\ EndTerminalTerms \in [Shells -> LiveTerminal]
<1>1. EndTerminal(sh, map) \in [Shells -> ShellStates]
  BY StopType DEF EndTerminal
<1>2. EndTerminalSockets \in [Sockets -> {"new", "open", "closing", "closed"}]
  BY HangUpType DEF EndTerminalSockets, TypeOK
<1>3. EndTerminalTerms \in [Shells -> LiveTerminal]
  BY ZenonT(40) DEF EndTerminalTerms, TypeOK, LiveTerminal
<1> QED BY <1>1, <1>2, <1>3

LEMMA RaceType ==
  ASSUME TypeOK, NEW r, NEW condition \in BOOLEAN, Race(r, condition)
  PROVE  raced' \in SUBSET Races /\ raced \subseteq raced'
BY DEF TypeOK, Race

-----------------------------------------------------------------------------
\* Every variable of the gateway's terminal code keeps its type; in particular
\* no backlog ever exceeds its limit.
THEOREM TypeCorrect == Spec => []TypeOK
<1>1. Init => TypeOK
  <2>1. FreshTerminal(NoSocket) \in LiveTerminal
    BY FreshTerminalType
  <2>2. "none" \in ShellStates
    BY DEF ShellStates
  <2> SUFFICES ASSUME Init PROVE TypeOK
    OBVIOUS
  <2>3. term \in [Shells -> LiveTerminal] /\ shell \in [Shells -> ShellStates]
    BY <2>1, <2>2 DEF Init
  <2>4. made \in [Shells -> Nat] /\ accounted \in [Shells -> Nat]
    BY DEF Init
  <2>5. /\ sock \in [Sockets -> {"new", "open", "closing", "closed"}]
        /\ pc \in [Sockets -> {"idle", "opening", "done"}]
    BY DEF Init
  <2> QED BY <2>3, <2>4, <2>5 DEF Init, TypeOK
<1>2. TypeOK /\ [Next]_vars => TypeOK'
  <2> SUFFICES ASSUME TypeOK, [Next]_vars PROVE TypeOK'
    OBVIOUS
  <2> USE DEF TypeOK
  <2>1. CASE SshReady
    BY <2>1 DEF SshReady
  <2>2. CASE SshError
    BY <2>2 DEF SshError
  <2>3. CASE SshClosed
    BY <2>3 DEF SshClosed
  <2>4. ASSUME NEW s \in Sockets, Reattach(s) PROVE TypeOK'
    <3> DEFINE t == term[terminals]
               arrived == HangUp([sock EXCEPT ![s] = "open"], t.socket)
    <3>0. terminals \in Shells /\ t \in LiveTerminal
      BY <2>4 DEF Reattach
    <3>1. term' \in [Shells -> LiveTerminal]
      <4>1. [t EXCEPT !.socket = s, !.backlog = <<>>, !.truncated = FALSE, !.grace = FALSE] \in LiveTerminal
        BY <3>0, EmptyBacklog DEF LiveTerminal
      <4> QED BY <2>4, <3>0, <4>1 DEF Reattach
    <3>2. accounted' \in [Shells -> Nat]
      BY <2>4, <3>0 DEF Reattach
    <3>3. /\ terminals' \in Shells \cup {NoShell}
          /\ shells' \in Shells \cup {NoShell}
          /\ pumped' \in SUBSET Sockets
      BY <2>4, <3>0 DEF Reattach
    <3>4. shell' \in [Shells -> ShellStates]
      <4>1. shell' = shell \/ shell' = Stop(shell, Disposable(shells))
        BY <2>4 DEF Reattach
      <4> QED BY <4>1, StopType
    <3>5. client' \in {"none", "connecting", "ready", "ending", "failed", "gone"}
      BY <2>4, DisposedClientType DEF Reattach
    <3>6. sock' \in [Sockets -> {"new", "open", "closing", "closed"}]
      <4>1. arrived \in [Sockets -> {"new", "open", "closing", "closed"}]
        <5>1. [sock EXCEPT ![s] = "open"] \in [Sockets -> {"new", "open", "closing", "closed"}]
          OBVIOUS
        <5> QED BY <5>1, HangUpType
      <4>2. sock' = arrived \/ sock' = HangUp(arrived, s)
        BY <2>4 DEF Reattach
      <4> HIDE DEF arrived
      <4> QED BY <4>1, <4>2, HangUpType
    <3>7. pc' \in [Sockets -> {"idle", "opening", "done"}]
      BY <2>4 DEF Reattach
    <3> QED BY <2>4, <3>1, <3>2, <3>3, <3>4, <3>5, <3>6, <3>7 DEF Reattach
  <2>5. ASSUME NEW s \in Sockets, Refuse(s) PROVE TypeOK'
    BY <2>5 DEF Refuse
  <2>6. ASSUME NEW s \in Sockets, StartOpening(s) PROVE TypeOK'
    BY <2>6, RaceType DEF StartOpening
  <2>7. ASSUME NEW s \in Sockets, OpenFails(s) PROVE TypeOK'
    BY <2>7, HangUpType DEF OpenFails
  <2>8. ASSUME NEW s \in Sockets, PeerCloses(s) PROVE TypeOK'
    BY <2>8 DEF PeerCloses
  <2>9. ASSUME NEW s \in Sockets, CloseEvent(s) PROVE TypeOK'
    <3>1. raced' \in SUBSET Races
      BY <2>9, RaceType DEF CloseEvent
    <3>2. CASE s \in pumped /\ terminals # NoShell /\ term[terminals].socket = s
      <4>1. Detach
        BY <2>9, <3>2 DEF CloseEvent
      <4>2. term' \in [Shells -> LiveTerminal]
        BY <4>1, <3>2 DEF Detach, LiveTerminal
      <4>3. /\ shell' \in [Shells -> ShellStates]
            /\ client' \in {"none", "connecting", "ready", "ending", "failed", "gone"}
            /\ terminals' \in Shells \cup {NoShell}
            /\ shells' \in Shells \cup {NoShell}
            /\ status' \in {"pending", "active", "closed", "failed"}
        BY <4>1, StopType, DisposedClientType DEF Detach
      <4> QED BY <2>9, <3>1, <4>2, <4>3 DEF CloseEvent
    <3>3. CASE ~(s \in pumped /\ terminals # NoShell /\ term[terminals].socket = s)
      BY <2>9, <3>1, <3>3 DEF CloseEvent
    <3> QED BY <3>2, <3>3
  <2>10. ASSUME NEW s \in Sockets, NEW h \in Shells, OpenSucceeds(s, h) PROVE TypeOK'
    <3>1. Opened(h) \in [Shells -> ShellStates]
      BY DEF ShellStates, Opened
    <3>2. shell' \in [Shells -> ShellStates]
      <4>1. shell' = EndTerminal(Opened(h), Stored(h))
        BY <2>10 DEF OpenSucceeds
      <4> QED BY <3>1, <4>1, EndTerminalType
    <3>3. term' \in [Shells -> LiveTerminal]
      BY <2>10, EndTerminalType, FreshTerminalType DEF OpenSucceeds
    <3>4. sock' \in [Sockets -> {"new", "open", "closing", "closed"}]
      BY <2>10, EndTerminalType DEF OpenSucceeds
    <3>5. client' \in {"none", "connecting", "ready", "ending", "failed", "gone"}
      BY <2>10, DisposedClientType DEF OpenSucceeds
    <3>6. shells' \in Shells \cup {NoShell}
      BY <2>10 DEF OpenSucceeds, Stored
    <3> QED BY <2>10, <3>2, <3>3, <3>4, <3>5, <3>6 DEF OpenSucceeds
  <2>11. ASSUME NEW h \in Shells, Output(h) PROVE TypeOK'
    <3>1. made[h] + 1 \in Chunks
      BY <2>11, BoundsAssumption DEF Output, Chunks
    <3>2. term' \in [Shells -> LiveTerminal]
      BY <2>11, <3>1, RememberType DEF Output
    <3>3. accounted' \in [Shells -> Nat] /\ made' \in [Shells -> Nat]
      BY <2>11 DEF Output
    <3>4. raced' \in SUBSET Races
      BY <2>11, RaceType DEF Output
    <3> QED BY <2>11, <3>2, <3>3, <3>4 DEF Output
  <2>12. ASSUME NEW h \in Shells, Exit(h) PROVE TypeOK'
    <3> DEFINE gone == [shell EXCEPT ![h] = IF @ = "running" THEN "exited" ELSE "ended"]
    <3>1. gone \in [Shells -> ShellStates]
      BY DEF ShellStates
    <3>2. shell' \in [Shells -> ShellStates]
      <4>1. shell' = gone \/ shell' = Stop(gone, Disposable(NoShell))
        BY <2>12 DEF Exit
      <4> HIDE DEF gone
      <4> QED BY <3>1, <4>1, StopType
    <3>3. term' \in [Shells -> LiveTerminal]
      <4> DEFINE told == [term EXCEPT ![h].exited = TRUE]
      <4>1. told \in [Shells -> LiveTerminal]
        BY DEF LiveTerminal
      <4>2. [told EXCEPT ![h].grace = FALSE] \in [Shells -> LiveTerminal]
        <5> HIDE DEF told
        <5> QED BY <4>1 DEF LiveTerminal
      <4>3. term' = told \/ term' = [told EXCEPT ![h].grace = FALSE]
        BY <2>12 DEF Exit
      <4> QED BY <4>1, <4>2, <4>3
    <3>4. sock' \in [Sockets -> {"new", "open", "closing", "closed"}]
      BY <2>12, HangUpType DEF Exit
    <3>5. client' \in {"none", "connecting", "ready", "ending", "failed", "gone"}
      BY <2>12, DisposedClientType DEF Exit
    <3> QED BY <2>12, <3>2, <3>3, <3>4, <3>5 DEF Exit
  <2>13. ASSUME NEW h \in Shells, GraceFires(h) PROVE TypeOK'
    <3>1. term' \in [Shells -> LiveTerminal]
      <4>1. term' = [term EXCEPT ![h].grace = FALSE]
        BY <2>13 DEF GraceFires
      <4>2. [term EXCEPT ![h].grace = FALSE] \in [Shells -> LiveTerminal]
        BY DEF LiveTerminal
      <4> QED BY <4>1, <4>2
    <3> QED BY <2>13, <3>1, StopType, DisposedClientType DEF GraceFires
  <2>14. CASE CloseSession
    <3>1. /\ EndTerminal(shell, shells) \in [Shells -> ShellStates]
          /\ sock' \in [Sockets -> {"new", "open", "closing", "closed"}]
          /\ term' \in [Shells -> LiveTerminal]
      BY <2>14, EndTerminalType DEF CloseSession
    <3>2. raced' \in SUBSET Races
      BY <2>14, RaceType DEF CloseSession
    <3> QED BY <2>14, <3>1, <3>2, StopType, DisposedClientType DEF CloseSession
  <2>15. CASE UNCHANGED vars
    BY <2>15 DEF vars
  <2> QED
    BY <2>1, <2>2, <2>3, <2>4, <2>5, <2>6, <2>7, <2>8, <2>9, <2>10, <2>11,
       <2>12, <2>13, <2>14, <2>15 DEF Next
<1> QED BY <1>1, <1>2, PTL DEF Spec

-----------------------------------------------------------------------------
(* One shell per session.                                                    *)

LEMMA StopStops ==
  ASSUME TypeOK, NEW sh \in [Shells -> ShellStates], NEW H, NEW h \in Shells
  PROVE  /\ Stop(sh, H)[h] = "running" => sh[h] = "running" /\ h \notin H
         /\ sh[h] # "running" => Stop(sh, H)[h] = sh[h]
         /\ Stop(sh, H)[h] = "none" <=> sh[h] = "none"
BY DEF Stop

LEMMA RacedGrows ==
  ASSUME TypeOK, [Next]_vars
  PROVE  raced \subseteq raced'
<1>1. ASSUME NEW s \in Sockets,
             Reattach(s) \/ Refuse(s) \/ StartOpening(s) \/ OpenFails(s) \/ PeerCloses(s) \/ CloseEvent(s)
      PROVE  raced \subseteq raced'
  BY <1>1 DEF Reattach, Refuse, StartOpening, OpenFails, PeerCloses, CloseEvent, Race
<1>2. ASSUME NEW s \in Sockets, NEW h \in Shells, OpenSucceeds(s, h)
      PROVE  raced \subseteq raced'
  BY <1>2 DEF OpenSucceeds
<1>3. ASSUME NEW h \in Shells, Output(h) \/ Exit(h) \/ GraceFires(h)
      PROVE  raced \subseteq raced'
  BY <1>3 DEF Output, Exit, GraceFires, Race
<1>4. CASE SshReady \/ SshError \/ SshClosed \/ CloseSession
  BY <1>4 DEF SshReady, SshError, SshClosed, CloseSession, Race
<1> QED BY <1>1, <1>2, <1>3, <1>4 DEF Next, vars

\* What a step that opens no shell has to show for OneShellParts.
LEMMA NothingOpens ==
  ASSUME TypeOK, OneShellParts, transport' = transport,
         \A x \in Sockets : pc'[x] = "opening" => pc[x] = "opening",
         \A g \in Shells : shell'[g] = "none" <=> shell[g] = "none",
         \A g \in Shells : shell'[g] = "running" => terminals' = g,
         \A g \in Shells : term'[g].exited => shell'[g] \in {"exited", "ended"},
         terminals' \in {terminals, NoShell},
         client' \in {client, DisposedClient},
         LetGoIsOver', GraceIsRight'
  PROVE  OneShellParts'
<1>1. OneOpener' /\ FirstOpening'
  BY DEF OneShellParts, OneOpener, FirstOpening
<1>2. OnlyShell' /\ RunningIsRegistered' /\ ExitedHasExited'
  BY DEF OneShellParts, OnlyShell, RunningIsRegistered, ExitedHasExited
<1>3. RegisteredIsMade'
  BY DEF OneShellParts, RegisteredIsMade, TypeOK
<1>4. NothingBeforeReady'
  BY DEF OneShellParts, NothingBeforeReady, DisposedClient, SshHeld
<1> QED BY <1>1, <1>2, <1>3, <1>4 DEF OneShellParts

LEMMA ReattachKeeps ==
  ASSUME TypeOK, OneShellParts, NEW s \in Sockets, Reattach(s)
  PROVE  OneShellParts'
<1>1. /\ terminals \in Shells /\ UNCHANGED <<status, transport>>
      /\ \A x \in Sockets : pc'[x] = "opening" => pc[x] = "opening"
  BY DEF Reattach, TypeOK
<1>2. \A g \in Shells : /\ term'[g].exited = term[g].exited
                        /\ g # terminals => term'[g] = term[g]
  BY DEF Reattach, LiveTerminal, TypeOK
<1>3. term'[terminals].socket = s /\ ~term'[terminals].grace
  BY <1>1 DEF Reattach, LiveTerminal, TypeOK
<1>4. shell' = shell \/ shell' = Stop(shell, Disposable(shells))
  BY DEF Reattach
<1>5. \A g \in Shells : /\ shell'[g] = "none" <=> shell[g] = "none"
                        /\ shell'[g] = "running" => shell[g] = "running"
                        /\ shell[g] # "running" => shell'[g] = shell[g]
  BY <1>4, StopStops DEF TypeOK
<1>6. \/ UNCHANGED <<terminals, client>>
      \/ terminals' = NoShell /\ term[terminals].exited /\ client' = DisposedClient
  BY DEF Reattach, Spent
<1>7. GraceIsRight'
  BY <1>1, <1>2, <1>3, <1>6, NoShellAssumption, NoSocketAssumption DEF OneShellParts, GraceIsRight
<1>8. LetGoIsOver'
  BY <1>1, <1>2, <1>5, <1>6 DEF OneShellParts, LetGoIsOver, SessionOver, SshHeld, DisposedClient, TypeOK
<1>9. \A g \in Shells : shell'[g] = "running" => terminals' = g
  BY <1>5, <1>6 DEF OneShellParts, RunningIsRegistered, ExitedHasExited
<1>10. \A g \in Shells : term'[g].exited => shell'[g] \in {"exited", "ended"}
  BY <1>2, <1>5 DEF OneShellParts, ExitedHasExited
<1> QED BY <1>1, <1>5, <1>6, <1>7, <1>8, <1>9, <1>10, NothingOpens

LEMMA DetachKeeps ==
  ASSUME TypeOK, OneShellParts, terminals # NoShell, Detach,
         UNCHANGED <<transport, pc>>
  PROVE  OneShellParts'
<1>1. terminals \in Shells
  BY DEF TypeOK
<1>2. \A g \in Shells : /\ term'[g].exited = term[g].exited
                        /\ g # terminals => term'[g] = term[g]
  BY <1>1 DEF Detach, LiveTerminal, TypeOK
<1>3. /\ term'[terminals].socket = NoSocket
      /\ term'[terminals].grace = ~term[terminals].exited
  BY <1>1 DEF Detach, LiveTerminal, TypeOK, Spent
<1>4. shell' = shell \/ shell' = Stop(shell, Disposable(shells))
  BY DEF Detach
<1>5. \A g \in Shells : /\ shell'[g] = "none" <=> shell[g] = "none"
                        /\ shell'[g] = "running" => shell[g] = "running"
                        /\ shell[g] # "running" => shell'[g] = shell[g]
  BY <1>4, StopStops DEF TypeOK
<1>6. \/ UNCHANGED <<terminals, client, status>> /\ ~term[terminals].exited
      \/ /\ terminals' = NoShell /\ term[terminals].exited
         /\ client' = DisposedClient /\ status' = "closed"
  BY DEF Detach, Spent
<1>7. GraceIsRight'
  BY <1>1, <1>2, <1>3, <1>6, NoShellAssumption DEF OneShellParts, GraceIsRight
<1>8. LetGoIsOver'
  BY <1>1, <1>2, <1>5, <1>6 DEF OneShellParts, LetGoIsOver, SessionOver, SshHeld, TypeOK
<1>9. \A g \in Shells : shell'[g] = "running" => terminals' = g
  BY <1>5, <1>6 DEF OneShellParts, RunningIsRegistered, ExitedHasExited
<1>10. \A g \in Shells : term'[g].exited => shell'[g] \in {"exited", "ended"}
  BY <1>2, <1>5 DEF OneShellParts, ExitedHasExited
<1> QED BY <1>5, <1>6, <1>7, <1>8, <1>9, <1>10, NothingOpens

\* The opening is the first: nothing is registered, and nothing is ended.
LEMMA OpenSucceedsKeeps ==
  ASSUME TypeOK, OneShellParts, NEW s \in Sockets, NEW h \in Shells, OpenSucceeds(s, h)
  PROVE  OneShellParts'
<1>1. \A g \in Shells : shell[g] = "none"
  BY DEF OpenSucceeds, OneShellParts, FirstOpening
<1>2. terminals = NoShell
  BY <1>1 DEF OneShellParts, RegisteredIsMade, TypeOK
<1>3. shell' = Opened(h)
  BY <1>2 DEF OpenSucceeds, EndTerminal
<1>4. /\ shell'[h] \in {"running", "ending"}
      /\ \A g \in Shells : g # h => shell'[g] = "none"
  BY <1>1, <1>3 DEF TypeOK, Opened
<1>5. term' = [term EXCEPT ![h] = FreshTerminal(s)]
  BY <1>2 DEF OpenSucceeds, EndTerminalTerms
<1>6. /\ term'[h].socket = s /\ ~term'[h].exited /\ ~term'[h].grace
      /\ \A g \in Shells : g # h => term'[g] = term[g]
  BY <1>5 DEF FreshTerminal, TypeOK
<1>7. \A g \in Shells : ~term[g].exited /\ ~term[g].grace
  BY <1>1, <1>2, NoShellAssumption DEF OneShellParts, ExitedHasExited, GraceIsRight
<1>8. /\ terminals' = h /\ UNCHANGED <<transport, client, status>>
      /\ transport = "ssh" => client \in {"ready", "ending"}
      /\ \A x \in Sockets : pc'[x] = "opening" => pc[x] = "opening" /\ x # s
  BY <1>2 DEF OpenSucceeds, TypeOK
<1>9. pc[s] = "opening"
  BY DEF OpenSucceeds
<1>10. OneOpener' /\ FirstOpening'
  BY <1>8, <1>9 DEF OneShellParts, OneOpener, FirstOpening
<1>11. OnlyShell' /\ RunningIsRegistered' /\ RegisteredIsMade'
  BY <1>4, <1>8 DEF OnlyShell, RunningIsRegistered, RegisteredIsMade
<1>12. ExitedHasExited' /\ GraceIsRight'
  BY <1>6, <1>7, <1>8, NoSocketAssumption DEF ExitedHasExited, GraceIsRight
<1>13. NothingBeforeReady'
  BY <1>8 DEF OneShellParts, NothingBeforeReady, TypeOK
<1>14. LetGoIsOver'
  BY <1>4, <1>6, <1>7, <1>8, NoShellAssumption DEF LetGoIsOver
<1> QED BY <1>10, <1>11, <1>12, <1>13, <1>14 DEF OneShellParts

LEMMA OutputKeeps ==
  ASSUME TypeOK, OneShellParts, NEW h \in Shells, Output(h)
  PROVE  OneShellParts'
<1>1. made[h] + 1 \in Chunks
  BY BoundsAssumption DEF Output, Chunks, TypeOK
<1>2. /\ Remember(term[h], made[h] + 1).exited = term[h].exited
      /\ Remember(term[h], made[h] + 1).socket = term[h].socket
      /\ Remember(term[h], made[h] + 1).grace = term[h].grace
  BY <1>1, RememberType DEF TypeOK
<1>3. term' = term \/ term' = [term EXCEPT ![h] = Remember(term[h], made[h] + 1)]
  BY DEF Output
<1>4. \A g \in Shells : /\ term'[g].exited = term[g].exited
                        /\ term'[g].socket = term[g].socket
                        /\ term'[g].grace = term[g].grace
  BY <1>2, <1>3 DEF TypeOK
<1>5. UNCHANGED <<transport, status, client, pc, shell, terminals>>
  BY DEF Output
<1>6. GraceIsRight' /\ LetGoIsOver'
  BY <1>4, <1>5 DEF OneShellParts, GraceIsRight, LetGoIsOver, SessionOver, SshHeld
<1> QED BY <1>4, <1>5, <1>6, NothingOpens DEF OneShellParts, RunningIsRegistered, ExitedHasExited

\* The shell that exits is the only one, so the entry deleted is its own.
LEMMA ExitKeeps ==
  ASSUME TypeOK, OneShellParts, NEW h \in Shells, Exit(h)
  PROVE  OneShellParts'
<1> DEFINE gone == [shell EXCEPT ![h] = IF @ = "running" THEN "exited" ELSE "ended"]
<1>1. /\ shell[h] \in {"running", "ending"} /\ UNCHANGED <<transport, pc>>
      /\ status' = IF transport = "ssh" THEN status ELSE "closed"
      /\ \/ term[h].socket # NoSocket /\ terminals' = NoShell /\ client' = DisposedClient
         \/ term[h].socket = NoSocket /\ UNCHANGED <<terminals, client>>
  BY DEF Exit
<1>2. /\ term'[h].exited /\ term'[h].socket = term[h].socket
      /\ term'[h].grace = (term[h].socket = NoSocket /\ term[h].grace)
      /\ \A g \in Shells : g # h => term'[g] = term[g]
  BY DEF Exit, LiveTerminal, TypeOK
<1>3. \A g \in Shells : g # h => shell[g] = "none"
  BY <1>1 DEF OneShellParts, OnlyShell
<1>4. /\ gone \in [Shells -> ShellStates] /\ gone[h] \in {"exited", "ended"}
      /\ \A g \in Shells : g # h => gone[g] = "none"
  BY <1>3 DEF ShellStates, TypeOK
<1>5. shell' = gone \/ shell' = Stop(gone, Disposable(NoShell))
  BY DEF Exit
<1>6. shell'[h] \in {"exited", "ended"} /\ \A g \in Shells : g # h => shell'[g] = "none"
  <2> HIDE DEF gone
  <2> QED BY <1>4, <1>5, StopStops
<1>7. \A g \in Shells : g # h => terminals # g /\ ~term[g].exited
  BY <1>3, NoShellAssumption DEF OneShellParts, RegisteredIsMade, ExitedHasExited
<1>8. GraceIsRight'
  BY <1>1, <1>2, <1>7, NoShellAssumption, ZenonT(40) DEF OneShellParts, GraceIsRight, TypeOK
<1>9. LetGoIsOver'
  <2>1. CASE transport # "ssh"
    BY <1>1, <2>1 DEF LetGoIsOver, SessionOver
  <2>2. CASE transport = "ssh"
    BY <1>1, <1>3, <1>6, <2>2 DEF OneShellParts, LetGoIsOver, SessionOver, SshHeld, DisposedClient
  <2> QED BY <2>1, <2>2
<1>10. \A g \in Shells : term'[g].exited => shell'[g] \in {"exited", "ended"}
  BY <1>2, <1>6, <1>7
<1>11. \A g \in Shells : shell'[g] = "none" <=> shell[g] = "none"
  BY <1>1, <1>3, <1>6
<1>12. \A g \in Shells : shell'[g] # "running"
  BY <1>6
<1> QED BY <1>1, <1>8, <1>9, <1>10, <1>11, <1>12, NothingOpens

\* The timer is the registered terminal's, so the entry deleted is its own.
LEMMA GraceFiresKeeps ==
  ASSUME TypeOK, OneShellParts, NEW h \in Shells, GraceFires(h)
  PROVE  OneShellParts'
<1>1. /\ term[h].grace /\ terminals' = NoShell /\ status' = "closed"
      /\ client' = DisposedClient /\ UNCHANGED <<transport, pc>>
  BY DEF GraceFires
<1>2. terminals = h
  BY <1>1 DEF OneShellParts, GraceIsRight
<1>3. /\ ~term'[h].grace
      /\ \A g \in Shells : term'[g].exited = term[g].exited
      /\ \A g \in Shells : g # h => term'[g] = term[g]
  BY DEF GraceFires, LiveTerminal, TypeOK
<1>4. shell' = Stop(shell, {h} \cup Disposable(shells))
  BY DEF GraceFires
<1>5. \A g \in Shells : /\ shell'[g] = "none" <=> shell[g] = "none"
                        /\ shell'[g] = "running" => shell[g] = "running" /\ g # h
                        /\ shell[g] # "running" => shell'[g] = shell[g]
  BY <1>4, StopStops DEF TypeOK
<1>6. GraceIsRight'
  BY <1>1, <1>2, <1>3, NoShellAssumption DEF OneShellParts, GraceIsRight
<1>7. \A g \in Shells : shell'[g] # "running"
  BY <1>2, <1>5 DEF OneShellParts, RunningIsRegistered
<1>8. \A g \in Shells : term'[g].exited => shell'[g] \in {"exited", "ended"}
  BY <1>3, <1>5 DEF OneShellParts, ExitedHasExited
<1>9. LetGoIsOver'
  BY <1>1 DEF LetGoIsOver, SessionOver
<1> QED BY <1>1, <1>5, <1>6, <1>7, <1>8, <1>9, NothingOpens

LEMMA CloseSessionKeeps ==
  ASSUME TypeOK, OneShellParts, CloseSession
  PROVE  OneShellParts'
<1> DEFINE e == EndTerminal(shell, shells)
<1>1. /\ terminals' = NoShell /\ status' = "closed" /\ client' = DisposedClient
      /\ UNCHANGED <<transport, pc>>
  BY DEF CloseSession
<1>2. e \in [Shells -> ShellStates]
  BY EndTerminalType DEF TypeOK
<1>3. \A g \in Shells : /\ e[g] = "none" <=> shell[g] = "none"
                        /\ e[g] = "running" => shell[g] = "running" /\ terminals # g
                        /\ shell[g] # "running" => e[g] = shell[g]
  <2>1. CASE terminals = NoShell
    BY <2>1, NoShellAssumption DEF EndTerminal
  <2>2. CASE terminals # NoShell
    <3>1. e = Stop(shell, (IF term[terminals].exited THEN {} ELSE {terminals}) \cup Disposable(shells))
      BY <2>2 DEF EndTerminal, Spent
    <3>2. term[terminals].exited => shell[terminals] # "running"
      BY <2>2 DEF OneShellParts, ExitedHasExited, TypeOK
    <3> HIDE DEF e
    <3> QED BY <3>1, <3>2, StopStops DEF TypeOK
  <2> QED BY <2>1, <2>2
<1>4. shell' = Stop(e, Disposable(shells))
  BY DEF CloseSession
<1>5. \A g \in Shells : /\ shell'[g] = "none" <=> shell[g] = "none"
                        /\ shell'[g] = "running" => shell[g] = "running" /\ terminals # g
                        /\ shell[g] # "running" => shell'[g] = shell[g]
  <2> HIDE DEF e
  <2> QED BY <1>2, <1>3, <1>4, StopStops
<1>6. /\ \A g \in Shells : term'[g].exited = term[g].exited
      /\ \A g \in Shells : g # terminals => term'[g] = term[g]
      /\ \A g \in Shells : g = terminals => ~term'[g].grace
  BY NoShellAssumption DEF CloseSession, EndTerminalTerms, LiveTerminal, TypeOK
<1>7. GraceIsRight'
  BY <1>1, <1>6, NoShellAssumption DEF OneShellParts, GraceIsRight
<1>8. \A g \in Shells : shell'[g] # "running"
  BY <1>5 DEF OneShellParts, RunningIsRegistered
<1>9. \A g \in Shells : term'[g].exited => shell'[g] \in {"exited", "ended"}
  BY <1>5, <1>6 DEF OneShellParts, ExitedHasExited
<1>10. LetGoIsOver'
  BY <1>1 DEF LetGoIsOver, SessionOver
<1> QED BY <1>1, <1>5, <1>7, <1>8, <1>9, <1>10, NothingOpens

\* Without an overlap, the parts of OneShellInvariant hold together: a shell is
\* opened only when none was, only the registered one is ever running, and only
\* the registered one is on a countdown.
THEOREM OneShellInductive == Spec => []OneShellInvariant
<1>1. Init => OneShellInvariant
  <2> SUFFICES ASSUME Init PROVE OneShellParts
    BY DEF OneShellInvariant
  <2>1. /\ \A h \in Shells : shell[h] = "none" /\ ~term[h].exited /\ ~term[h].grace
        /\ \A s \in Sockets : pc[s] = "idle"
        /\ terminals = NoShell
    BY DEF Init, FreshTerminal
  <2>2. OneOpener /\ FirstOpening /\ OnlyShell /\ RunningIsRegistered /\ ExitedHasExited
    BY <2>1 DEF OneOpener, FirstOpening, OnlyShell, RunningIsRegistered, ExitedHasExited
  <2>3. RegisteredIsMade /\ LetGoIsOver /\ GraceIsRight
    BY <2>1, NoShellAssumption DEF RegisteredIsMade, LetGoIsOver, GraceIsRight
  <2>4. NothingBeforeReady
    BY <2>1 DEF Init, NothingBeforeReady
  <2> QED BY <2>2, <2>3, <2>4 DEF OneShellParts
<1>2. TypeOK /\ OneShellInvariant /\ [Next]_vars => OneShellInvariant'
  <2> SUFFICES ASSUME TypeOK, OneShellInvariant, [Next]_vars, "overlap" \notin raced'
               PROVE  OneShellParts'
    BY DEF OneShellInvariant
  <2>0. OneShellParts
    BY RacedGrows DEF OneShellInvariant
  <2> USE DEF OneOpener, FirstOpening, OnlyShell, RunningIsRegistered, RegisteredIsMade,
              ExitedHasExited, NothingBeforeReady, LetGoIsOver, GraceIsRight,
              SessionOver, SshHeld
  <2>1. CASE SshReady
    BY <2>0, <2>1 DEF SshReady, OneShellParts
  <2>2. CASE SshError
    BY <2>0, <2>2 DEF SshError, OneShellParts
  <2>3. CASE SshClosed
    BY <2>0, <2>3 DEF SshClosed, OneShellParts
  <2>4. ASSUME NEW s \in Sockets, Reattach(s) PROVE OneShellParts'
    BY <2>0, <2>4, ReattachKeeps
  <2>5. ASSUME NEW s \in Sockets, Refuse(s) PROVE OneShellParts'
    BY <2>0, <2>5 DEF Refuse, OneShellParts, TypeOK
  <2>6. ASSUME NEW s \in Sockets, StartOpening(s) PROVE OneShellParts'
    BY <2>0, <2>6 DEF StartOpening, OneShellParts, TypeOK, Race
  <2>7. ASSUME NEW s \in Sockets, OpenFails(s) PROVE OneShellParts'
    BY <2>0, <2>7 DEF OpenFails, OneShellParts, TypeOK
  <2>8. ASSUME NEW s \in Sockets, PeerCloses(s) PROVE OneShellParts'
    BY <2>0, <2>8 DEF PeerCloses, OneShellParts, TypeOK
  <2>9. ASSUME NEW s \in Sockets, CloseEvent(s) PROVE OneShellParts'
    <3>1. CASE s \in pumped /\ terminals # NoShell /\ term[terminals].socket = s
      BY <2>0, <2>9, <3>1, DetachKeeps DEF CloseEvent
    <3>2. CASE ~(s \in pumped /\ terminals # NoShell /\ term[terminals].socket = s)
      BY <2>0, <2>9, <3>2 DEF CloseEvent, OneShellParts
    <3> QED BY <3>1, <3>2
  <2>10. ASSUME NEW s \in Sockets, NEW h \in Shells, OpenSucceeds(s, h) PROVE OneShellParts'
    BY <2>0, <2>10, OpenSucceedsKeeps
  <2>11. ASSUME NEW h \in Shells, Output(h) PROVE OneShellParts'
    BY <2>0, <2>11, OutputKeeps
  <2>12. ASSUME NEW h \in Shells, Exit(h) PROVE OneShellParts'
    BY <2>0, <2>12, ExitKeeps
  <2>13. ASSUME NEW h \in Shells, GraceFires(h) PROVE OneShellParts'
    BY <2>0, <2>13, GraceFiresKeeps
  <2>14. CASE CloseSession
    BY <2>0, <2>14, CloseSessionKeeps
  <2>15. CASE UNCHANGED vars
    BY <2>0, <2>15 DEF vars, OneShellParts
  <2> QED
    BY <2>1, <2>2, <2>3, <2>4, <2>5, <2>6, <2>7, <2>8, <2>9, <2>10, <2>11,
       <2>12, <2>13, <2>14, <2>15 DEF Next
<1> QED BY <1>1, <1>2, TypeCorrect, PTL DEF Spec

\* routes.ts:774: whoever comes to the session finds its one shell, or is told
\* that it is over; a second shell is never started.
THEOREM OneShellHolds == Spec => []OneShell
<1>1. OneShellInvariant => OneShell
  BY DEF OneShellInvariant, OneShellParts, OneShell
<1> QED BY <1>1, OneShellInductive, PTL

\* terminals.ts:95: a timer left running by a path that forgot clearGrace would
\* one day end a terminal somebody came back to; none is.
THEOREM GraceHolds == Spec => []GraceIffUnattended
<1>1. OneShellInvariant => GraceIffUnattended
  BY DEF OneShellInvariant, OneShellParts, GraceIffUnattended
<1> QED BY <1>1, OneShellInductive, PTL

-----------------------------------------------------------------------------
\* docs/architecture.md:172: as long as no opening overlapped another, the
\* gateway ends a running shell only by a deliberate close or an elapsed grace
\* period.  Every other call of dispose() meets a shell that has exited.
THEOREM EndsForAReasonHolds == Spec => EndsForAReasonUnlessRaced
<1>1. TypeOK /\ OneShellInvariant /\ [Next]_vars => ["overlap" \notin raced => StopsForAReason]_vars
  <2> SUFFICES ASSUME TypeOK, OneShellParts, Next, NEW h \in Shells,
                      shell[h] = "running", shell'[h] \in {"ending", "ended"}
               PROVE  closed' \/ (terminals = h /\ term[h].grace)
    BY DEF OneShellInvariant, StopsForAReason
  <2>0. /\ terminals = h /\ ~term[h].exited
        /\ \A g \in Shells : shell[g] # "none" => g = h
        /\ \A s \in Sockets : pc[s] # "opening"
    BY DEF OneShellParts, RunningIsRegistered, ExitedHasExited, OnlyShell, FirstOpening, TypeOK
  <2>1. CASE SshReady \/ SshError \/ SshClosed
    BY <2>1 DEF SshReady, SshError, SshClosed
  <2>2. ASSUME NEW s \in Sockets,
               Refuse(s) \/ StartOpening(s) \/ OpenFails(s) \/ PeerCloses(s)
        PROVE  FALSE
    BY <2>2 DEF Refuse, StartOpening, OpenFails, PeerCloses
  <2>3. ASSUME NEW s \in Sockets, Reattach(s) PROVE FALSE
    BY <2>0, <2>3 DEF Reattach, Spent
  <2>4. ASSUME NEW s \in Sockets, CloseEvent(s) PROVE FALSE
    BY <2>0, <2>4 DEF CloseEvent, Detach, Spent
  <2>5. ASSUME NEW s \in Sockets, NEW g \in Shells, OpenSucceeds(s, g) PROVE FALSE
    BY <2>0, <2>5 DEF OpenSucceeds, FirstOpening
  <2>6. ASSUME NEW g \in Shells, Output(g) PROVE FALSE
    BY <2>6 DEF Output
  <2>7. ASSUME NEW g \in Shells, Exit(g) PROVE FALSE
    <3> DEFINE gone == [shell EXCEPT ![g] = IF @ = "running" THEN "exited" ELSE "ended"]
    <3>1. g = h
      BY <2>0, <2>7 DEF Exit
    <3>2. gone[h] = "exited" /\ gone \in [Shells -> ShellStates]
      BY <3>1 DEF TypeOK, ShellStates
    <3>3. shell' = gone \/ shell' = Stop(gone, Disposable(NoShell))
      BY <2>7 DEF Exit
    <3> HIDE DEF gone
    <3> QED BY <3>2, <3>3, StopStops
  <2>8. ASSUME NEW g \in Shells, GraceFires(g) PROVE terminals = h /\ term[h].grace
    BY <2>0, <2>8 DEF GraceFires, OneShellParts, GraceIsRight
  <2>9. CASE CloseSession
    BY <2>9 DEF CloseSession
  <2> QED BY <2>1, <2>2, <2>3, <2>4, <2>5, <2>6, <2>7, <2>8, <2>9 DEF Next
<1> QED BY <1>1, TypeCorrect, OneShellInductive, PTL DEF Spec, EndsForAReasonUnlessRaced

-----------------------------------------------------------------------------
(* Nothing a shell prints is missed.                                         *)

\* A shell that was not started has said nothing, and whoever is attached has
\* been handed the backlog.
SilentUntilMade == \A h \in Shells : shell[h] = "none" => made[h] = 0 /\ accounted[h] = 0
AttachedIsCaughtUp == \A h \in Shells : term[h].socket # NoSocket => term[h].backlog = <<>>
MissedInv == TypeOK /\ SilentUntilMade /\ AttachedIsCaughtUp /\ NothingMissed

LEMMA TailDrops ==
  ASSUME NEW S, NEW b \in Seq(S), Len(b) > 0
  PROVE  /\ Tail(b) \in Seq(S) /\ Len(b) \in Nat /\ Len(Tail(b)) = Len(b) - 1
         /\ \A i \in 1 .. Len(b) - 1 : Tail(b)[i] = b[i + 1]
<1>1. b # <<>> /\ Len(b) \in Nat
  OBVIOUS
<1> QED BY <1>1

\* What remember leaves out is what it says was truncated.
LEMMA RememberTells ==
  ASSUME NEW t \in LiveTerminal, NEW told \in Nat, NEW all \in Nat, all + 1 \in Chunks, Told(t, told, all)
  PROVE  Told(Remember(t, all + 1), told, all + 1)
<1> DEFINE b == Append(t.backlog, all + 1)
           m == Len(t.backlog)
           r == Remember(t, all + 1)
<1>1. t.backlog \in Seq(Chunks) /\ m \in Nat /\ m <= MaxBacklog /\ MaxBacklog \in Nat \ {0}
  BY BoundsAssumption DEF LiveTerminal, Backlogs
<1>2. b \in Seq(Chunks) /\ Len(b) = m + 1 /\ b[m + 1] = all + 1 /\ \A i \in 1 .. m : b[i] = t.backlog[i]
  BY <1>1
<1>3. /\ r.backlog = IF Len(b) > MaxBacklog THEN Tail(b) ELSE b
      /\ r.truncated = (t.truncated \/ Len(b) > MaxBacklog)
  BY DEF Remember, LiveTerminal
<1>4. /\ \A i \in 1 .. m : t.backlog[i] = all - m + i
      /\ told + m = all \/ (m > 0 /\ t.truncated /\ told + m < all)
  BY DEF Told
<1> SUFFICES Told(r, told, all + 1)
  OBVIOUS
<1> HIDE DEF b, m, r
<1>5. CASE m + 1 <= MaxBacklog
  <2>0. ~ (Len(b) > MaxBacklog)
    BY <1>1, <1>2, <1>5
  <2>1. r.backlog = b /\ (r.truncated <=> t.truncated)
    BY <1>3, <2>0
  <2>2. \A i \in 1 .. m + 1 : b[i] = (all + 1) - (m + 1) + i
    <3>1. TAKE i \in 1 .. m + 1
    <3>2. CASE i = m + 1
      BY <1>1, <1>2, <3>2
    <3>3. CASE i # m + 1
      <4>1. i \in 1 .. m
        BY <1>1, <3>3
      <4> QED BY <1>1, <1>2, <1>4, <4>1
    <3> QED BY <3>2, <3>3
  <2>3. told + (m + 1) = all + 1 \/ (m + 1 > 0 /\ r.truncated /\ told + (m + 1) < all + 1)
    BY <1>1, <1>4, <2>1
  <2>4. Len(r.backlog) = m + 1
    BY <1>2, <2>1
  <2>5. \A i \in 1 .. Len(r.backlog) : r.backlog[i] = (all + 1) - Len(r.backlog) + i
    BY <2>1, <2>2, <2>4, Zenon
  <2>6. \/ told + Len(r.backlog) = all + 1
        \/ Len(r.backlog) > 0 /\ r.truncated /\ told + Len(r.backlog) < all + 1
    BY <2>3, <2>4
  <2> QED BY <2>5, <2>6, Zenon DEF Told
<1>6. CASE m + 1 > MaxBacklog
  <2>0. Len(b) > MaxBacklog /\ m > 0
    BY <1>1, <1>2, <1>6
  <2>1. r.backlog = Tail(b) /\ r.truncated
    BY <1>3, <2>0
  <2>2. Len(Tail(b)) = m /\ \A i \in 1 .. m : Tail(b)[i] = b[i + 1]
    BY <1>1, <1>2, <2>0, TailDrops
  <2>3. \A i \in 1 .. m : b[i + 1] = all + 1 - m + i
    <3>1. TAKE i \in 1 .. m
    <3>2. CASE i = m
      BY <1>1, <1>2, <3>2
    <3>3. CASE i < m
      <4>1. i + 1 \in 1 .. m
        BY <1>1, <3>3
      <4>2. b[i + 1] = t.backlog[i + 1] /\ t.backlog[i + 1] = all - m + (i + 1)
        BY <1>2, <1>4, <4>1
      <4> QED BY <1>1, <4>1, <4>2
    <3> QED BY <1>1, <3>2, <3>3
  <2>4. told + m < all + 1
    BY <1>1, <1>4
  <2>5. /\ Len(r.backlog) = m
        /\ \A i \in 1 .. m : r.backlog[i] = all + 1 - m + i
    BY <2>1, <2>2, <2>3
  <2>6. \A i \in 1 .. m : r.backlog[i] = (all + 1) - m + i
    BY <1>1, <2>5
  <2> QED BY <1>1, <2>0, <2>1, <2>4, <2>5, <2>6 DEF Told
<1> QED BY <1>1, <1>5, <1>6

\* What the steps do that neither print, nor show, nor start a shell.
NothingNew ==
  /\ UNCHANGED <<made, accounted>> /\ terminals' \in {terminals, NoShell}
  /\ \A h \in Shells : /\ term'[h].backlog = term[h].backlog /\ term'[h].truncated = term[h].truncated
                       /\ term'[h].socket \in {term[h].socket, NoSocket}
                       /\ shell'[h] = "none" <=> shell[h] = "none"

LEMMA NothingNewSteps ==
  ASSUME TypeOK, Next
  PROVE  \/ \E s \in Sockets : Reattach(s)
         \/ \E s \in Sockets, h \in Shells : OpenSucceeds(s, h)
         \/ \E h \in Shells : Output(h)
         \/ NothingNew
<1>0. shell \in [Shells -> ShellStates] /\ term \in [Shells -> LiveTerminal]
  BY DEF TypeOK
<1>1. CASE SshReady \/ SshError \/ SshClosed
  BY <1>1 DEF SshReady, SshError, SshClosed, NothingNew
<1>2. ASSUME NEW s \in Sockets, Refuse(s) \/ StartOpening(s) \/ OpenFails(s) \/ PeerCloses(s)
      PROVE  NothingNew
  BY <1>2 DEF Refuse, StartOpening, OpenFails, PeerCloses, NothingNew
<1>3. ASSUME NEW s \in Sockets, CloseEvent(s)
      PROVE  NothingNew
  <2>1. CASE Detach /\ terminals # NoShell
    <3>1. /\ terminals \in Shells /\ terminals' \in {terminals, NoShell}
          /\ shell' = shell \/ shell' = Stop(shell, Disposable(shells))
          /\ \E b \in BOOLEAN : term' = [term EXCEPT ![terminals].socket = NoSocket, ![terminals].grace = b]
      BY <2>1 DEF Detach, TypeOK
    <3>2. \A h \in Shells : shell'[h] = "none" <=> shell[h] = "none"
      BY <1>0, <3>1, StopStops
    <3>3. \A h \in Shells : /\ term'[h].backlog = term[h].backlog /\ term'[h].truncated = term[h].truncated
                            /\ term'[h].socket \in {term[h].socket, NoSocket}
      BY <1>0, <3>1 DEF LiveTerminal
    <3> QED BY <1>3, <3>1, <3>2, <3>3 DEF CloseEvent, NothingNew
  <2>2. CASE UNCHANGED <<term, terminals, shell, client, shells, status>>
    BY <1>3, <2>2 DEF CloseEvent, NothingNew
  <2> QED BY <1>3, <2>1, <2>2 DEF CloseEvent
<1>4. ASSUME NEW h \in Shells, Exit(h)
      PROVE  NothingNew
  <2> DEFINE gone == [shell EXCEPT ![h] = IF @ = "running" THEN "exited" ELSE "ended"]
  <2>1. /\ terminals' \in {terminals, NoShell} /\ UNCHANGED <<made, accounted>>
        /\ shell' = gone \/ shell' = Stop(gone, Disposable(NoShell))
        /\ shell[h] # "none"
    BY <1>4 DEF Exit
  <2>2. gone \in [Shells -> ShellStates] /\ \A g \in Shells : gone[g] = "none" <=> shell[g] = "none"
    BY <1>0, <2>1 DEF ShellStates
  <2> HIDE DEF gone
  <2>3. \A g \in Shells : shell'[g] = "none" <=> shell[g] = "none"
    BY <2>1, <2>2, StopStops
  <2>4. \A g \in Shells : /\ term'[g].backlog = term[g].backlog /\ term'[g].truncated = term[g].truncated
                          /\ term'[g].socket = term[g].socket
    BY <1>0, <1>4 DEF Exit, LiveTerminal
  <2> QED BY <2>1, <2>3, <2>4 DEF NothingNew
<1>5. ASSUME NEW h \in Shells, GraceFires(h)
      PROVE  NothingNew
  <2>1. /\ terminals' = NoShell /\ UNCHANGED <<made, accounted>>
        /\ shell' = Stop(shell, {h} \cup Disposable(shells))
        /\ term' = [term EXCEPT ![h].grace = FALSE]
    BY <1>5 DEF GraceFires
  <2> QED BY <1>0, <2>1, StopStops DEF NothingNew, LiveTerminal
<1>6. CASE CloseSession
  <2>1. /\ terminals' = NoShell /\ UNCHANGED <<made, accounted>>
        /\ shell' = Stop(EndTerminal(shell, shells), Disposable(shells))
        /\ term' = EndTerminalTerms
    BY <1>6 DEF CloseSession
  <2>2. EndTerminal(shell, shells) \in [Shells -> ShellStates]
    BY <1>0, EndTerminalType
  <2>3. \A h \in Shells : EndTerminal(shell, shells)[h] = "none" <=> shell[h] = "none"
    BY <1>0, StopStops DEF EndTerminal
  <2>4. \A h \in Shells : shell'[h] = "none" <=> shell[h] = "none"
    BY <2>1, <2>2, <2>3, StopStops
  <2>5. \A h \in Shells : /\ term'[h].backlog = term[h].backlog /\ term'[h].truncated = term[h].truncated
                          /\ term'[h].socket = term[h].socket
    BY <1>0, <2>1 DEF EndTerminalTerms, LiveTerminal
  <2> QED BY <2>1, <2>4, <2>5 DEF NothingNew
<1> QED BY <1>1, <1>2, <1>3, <1>4, <1>5, <1>6 DEF Next

LEMMA NothingNewKeeps ==
  ASSUME MissedInv, TypeOK', NothingNew, raced \subseteq raced'
  PROVE  MissedInv'
<1>0. /\ UNCHANGED <<made, accounted>> /\ terminals' \in {terminals, NoShell}
      /\ \A h \in Shells : /\ term'[h].backlog = term[h].backlog
                           /\ term'[h].socket \in {term[h].socket, NoSocket}
                           /\ shell'[h] = "none" <=> shell[h] = "none"
  BY DEF NothingNew
<1>1. SilentUntilMade' /\ AttachedIsCaughtUp'
  BY <1>0 DEF MissedInv, SilentUntilMade, AttachedIsCaughtUp
<1>2. ASSUME "outputWhileDying" \notin raced', terminals' # NoShell
      PROVE  Told(term'[terminals'], accounted'[terminals'], made'[terminals'])
  <2>1. terminals' = terminals /\ terminals \in Shells /\ accounted' = accounted /\ made' = made
    BY <1>0, <1>2 DEF MissedInv, TypeOK
  <2>2. Told(term[terminals], accounted[terminals], made[terminals])
    BY <1>2, <2>1 DEF MissedInv, NothingMissed
  <2>3. /\ term'[terminals].backlog = term[terminals].backlog
        /\ term'[terminals].truncated = term[terminals].truncated
    BY <2>1 DEF NothingNew
  <2>4. Told(term'[terminals], accounted[terminals], made[terminals])
    BY <2>2, <2>3 DEF Told
  <2> QED BY <2>1, <2>4
<1> QED BY <1>1, <1>2 DEF MissedInv, NothingMissed

LEMMA ReattachTells ==
  ASSUME MissedInv, TypeOK', NEW s \in Sockets, Reattach(s)
  PROVE  MissedInv'
<1> DEFINE h == terminals
           t == term[h]
           told == accounted[h]
           all == made[h]
<1>1. /\ h \in Shells /\ shell \in [Shells -> ShellStates] /\ term \in [Shells -> LiveTerminal]
      /\ told \in Nat /\ all \in Nat /\ accounted \in [Shells -> Nat]
  BY DEF Reattach, MissedInv, TypeOK
<1>2. t.backlog \in Seq(Chunks) /\ Len(t.backlog) \in Nat /\ (t.backlog # <<>> => Len(t.backlog) > 0)
  BY <1>1, EmptySeq DEF LiveTerminal, Backlogs
<1>3. /\ term'[h].backlog = <<>> /\ \A g \in Shells : g # h => term'[g] = term[g]
      /\ made' = made /\ raced' = raced /\ terminals' \in {h, NoShell}
      /\ accounted' = [accounted EXCEPT ![h] =
                         IF t.backlog # <<>> /\ (t.truncated \/ Head(t.backlog) = told + 1)
                         THEN all ELSE told]
      /\ shell' = shell \/ shell' = Stop(shell, Disposable(shells))
  BY <1>1 DEF Reattach, LiveTerminal
<1>4. SilentUntilMade'
  <2>1. \A g \in Shells : shell'[g] = "none" <=> shell[g] = "none"
    BY <1>1, <1>3, StopStops DEF MissedInv
  <2> QED BY <1>1, <1>3, <2>1 DEF MissedInv, SilentUntilMade
<1>5. AttachedIsCaughtUp'
  BY <1>3 DEF MissedInv, AttachedIsCaughtUp
<1>6. ASSUME "outputWhileDying" \notin raced'
      PROVE  accounted'[h] = all
  <2>1. Told(t, told, all)
    BY <1>1, <1>3, <1>6, NoShellAssumption DEF MissedInv, NothingMissed
  <2>2. CASE t.backlog = <<>>
    <3>1. Len(t.backlog) = 0
      BY <2>2, EmptySeq
    <3> QED BY <1>1, <1>3, <2>1, <2>2, <3>1 DEF Told
  <2>3. CASE t.backlog # <<>> /\ t.truncated
    BY <1>1, <1>3, <2>3
  <2>4. CASE t.backlog # <<>> /\ ~t.truncated
    <3>1. told + Len(t.backlog) = all /\ t.backlog[1] = all - Len(t.backlog) + 1
      BY <1>2, <2>1, <2>4 DEF Told
    <3>2. Head(t.backlog) = told + 1
      BY <1>1, <1>2, <2>4, <3>1
    <3> QED BY <1>1, <1>3, <2>4, <3>2
  <2> QED BY <2>2, <2>3, <2>4
<1>7. NothingMissed'
  <2> SUFFICES ASSUME "outputWhileDying" \notin raced', terminals' # NoShell
               PROVE  Told(term'[terminals'], accounted'[terminals'], made'[terminals'])
    BY DEF NothingMissed
  <2>1. terminals' = h /\ accounted'[h] = all /\ made'[h] = all
    BY <1>3, <1>6
  <2>2. Told(term'[h], all, all)
    BY <1>1, <1>3, EmptySeq DEF Told
  <2> QED BY <2>1, <2>2
<1> QED BY <1>4, <1>5, <1>7 DEF MissedInv

LEMMA OpenSucceedsTells ==
  ASSUME MissedInv, TypeOK', NEW s \in Sockets, NEW h \in Shells, OpenSucceeds(s, h)
  PROVE  MissedInv'
<1>1. /\ shell \in [Shells -> ShellStates] /\ term \in [Shells -> LiveTerminal]
      /\ shell[h] = "none" /\ made[h] = 0 /\ accounted[h] = 0
      /\ UNCHANGED <<made, accounted, raced>> /\ terminals' = h
      /\ shell' = EndTerminal(Opened(h), Stored(h))
      /\ term' = [EndTerminalTerms EXCEPT ![h] = FreshTerminal(s)]
  BY DEF OpenSucceeds, MissedInv, TypeOK, SilentUntilMade
<1>2. /\ EndTerminalTerms \in [Shells -> LiveTerminal]
      /\ \A g \in Shells : /\ EndTerminalTerms[g].backlog = term[g].backlog
                           /\ EndTerminalTerms[g].socket = term[g].socket
  BY <1>1, EndTerminalType DEF MissedInv, EndTerminalTerms, LiveTerminal
<1>3. /\ term'[h] = FreshTerminal(s) /\ term'[h].backlog = <<>>
      /\ \A g \in Shells : g # h => term'[g] = EndTerminalTerms[g]
  BY <1>1, <1>2 DEF FreshTerminal
<1>4. SilentUntilMade'
  <2>1. Opened(h) \in [Shells -> ShellStates] /\ Opened(h)[h] # "none" /\ \A g \in Shells : g # h => Opened(h)[g] = shell[g]
    BY <1>1 DEF Opened, ShellStates
  <2>2. \A g \in Shells : shell'[g] = "none" => Opened(h)[g] = "none"
    BY <1>1, <2>1, StopStops DEF EndTerminal, MissedInv
  <2> QED BY <1>1, <2>1, <2>2 DEF MissedInv, SilentUntilMade
<1>5. AttachedIsCaughtUp'
  BY <1>2, <1>3 DEF MissedInv, AttachedIsCaughtUp
<1>6. NothingMissed'
  <2>1. Told(term'[h], 0, 0)
    BY <1>3, EmptySeq DEF Told
  <2> QED BY <1>1, <2>1 DEF NothingMissed
<1> QED BY <1>4, <1>5, <1>6 DEF MissedInv

LEMMA OutputTells ==
  ASSUME MissedInv, TypeOK', NEW h \in Shells, Output(h)
  PROVE  MissedInv'
<1> DEFINE t == term[h]
           r == Remember(t, made[h] + 1)
<1>1. /\ t \in LiveTerminal /\ made \in [Shells -> Nat] /\ accounted \in [Shells -> Nat]
      /\ term \in [Shells -> LiveTerminal] /\ shell[h] # "none"
      /\ UNCHANGED <<shell, terminals>> /\ made' = [made EXCEPT ![h] = made[h] + 1]
      /\ raced \subseteq raced'
  BY DEF Output, MissedInv, TypeOK, Race
<1>2. made[h] + 1 \in Chunks
  BY <1>1, BoundsAssumption DEF Output, Chunks
<1>3. r \in LiveTerminal /\ r.socket = t.socket
  BY <1>1, <1>2, RememberType
<1>4. CASE t.socket = NoSocket
  <2>1. term' = [term EXCEPT ![h] = r] /\ accounted' = accounted
    BY <1>4 DEF Output
  <2>2. SilentUntilMade'
    BY <1>1, <2>1 DEF MissedInv, SilentUntilMade
  <2>3. AttachedIsCaughtUp'
    BY <1>1, <1>3, <1>4, <2>1 DEF MissedInv, AttachedIsCaughtUp
  <2>4. ASSUME "outputWhileDying" \notin raced', terminals = h
        PROVE  Told(r, accounted[h], made[h] + 1)
    <3>1. Told(t, accounted[h], made[h])
      BY <1>1, <2>4, NoShellAssumption DEF MissedInv, NothingMissed
    <3> QED BY <1>1, <1>2, <3>1, RememberTells
  <2>5. NothingMissed'
    <3> SUFFICES ASSUME "outputWhileDying" \notin raced', terminals # NoShell
                 PROVE  Told(term'[terminals], accounted[terminals], made'[terminals])
      BY <1>1, <2>1 DEF NothingMissed
    <3>1. CASE terminals = h
      BY <1>1, <2>1, <2>4, <3>1
    <3>2. CASE terminals # h
      BY <1>1, <2>1, <3>2 DEF MissedInv, NothingMissed, TypeOK
    <3> QED BY <3>1, <3>2
  <2> QED BY <2>2, <2>3, <2>5 DEF MissedInv
<1>5. CASE t.socket # NoSocket
  <2>1. /\ term' = term /\ t.backlog = <<>> /\ t.socket \in Sockets
        /\ accounted' = [accounted EXCEPT ![h] = IF sock[t.socket] = "open" /\ accounted[h] = made[h]
                                                 THEN accounted[h] + 1 ELSE accounted[h]]
    BY <1>1, <1>5 DEF Output, MissedInv, AttachedIsCaughtUp, LiveTerminal
  <2>2. SilentUntilMade' /\ AttachedIsCaughtUp'
    BY <1>1, <2>1 DEF MissedInv, SilentUntilMade, AttachedIsCaughtUp
  <2>3. ASSUME "outputWhileDying" \notin raced', terminals = h
        PROVE  Told(t, accounted[h] + 1, made[h] + 1) /\ accounted'[h] = accounted[h] + 1
    <3>1. Told(t, accounted[h], made[h])
      BY <1>1, <2>3, NoShellAssumption DEF MissedInv, NothingMissed
    <3>2. Len(t.backlog) = 0 /\ accounted[h] = made[h]
      BY <1>1, <2>1, <3>1, EmptySeq DEF Told
    <3>3. sock[t.socket] = "open"
      BY <2>1, <2>3 DEF Output, Race, Dying
    <3>4. Told(t, accounted[h] + 1, made[h] + 1)
      BY <1>1, <3>2 DEF Told
    <3> QED BY <1>1, <2>1, <3>2, <3>3, <3>4
  <2>4. NothingMissed'
    <3> SUFFICES ASSUME "outputWhileDying" \notin raced', terminals # NoShell
                 PROVE  Told(term[terminals], accounted'[terminals], made'[terminals])
      BY <1>1, <2>1 DEF NothingMissed
    <3>1. CASE terminals = h
      BY <1>1, <2>1, <2>3, <3>1
    <3>2. CASE terminals # h
      BY <1>1, <2>1, <3>2 DEF MissedInv, NothingMissed, TypeOK
    <3> QED BY <3>1, <3>2
  <2> QED BY <2>2, <2>4 DEF MissedInv
<1> QED BY <1>4, <1>5

\* "Handed the same shell plus everything it missed" (terminals.ts): nobody who
\* reattaches finds a gap in what the shell printed that the terminal does not
\* announce, as long as nothing was printed to a socket already dying.
THEOREM NothingMissedHolds == Spec => []NothingMissed
<1>1. Init /\ TypeOK => MissedInv
  BY DEF Init, MissedInv, SilentUntilMade, AttachedIsCaughtUp, NothingMissed, FreshTerminal
<1>2. MissedInv /\ TypeOK' /\ [Next]_vars => MissedInv'
  <2> SUFFICES ASSUME MissedInv, TypeOK', [Next]_vars PROVE MissedInv'
    OBVIOUS
  <2>1. CASE Next
    BY <2>1, NothingNewSteps, RacedGrows, NothingNewKeeps, ReattachTells, OpenSucceedsTells, OutputTells DEF MissedInv
  <2>2. CASE UNCHANGED vars
    <3>1. NothingNew
      BY <2>2 DEF vars, NothingNew
    <3> QED BY <2>2, <3>1, NothingNewKeeps DEF vars
  <2> QED BY <2>1, <2>2
<1>3. MissedInv => NothingMissed
  BY DEF MissedInv
<1> QED BY <1>1, <1>2, <1>3, TypeCorrect, PTL DEF Spec

-----------------------------------------------------------------------------
(* What is registered is of use.                                             *)

\* Whatever has raced: a registered terminal nobody is attached to is on a
\* countdown, one that has exited has nobody attached, and a socket is pumped
\* only once it has arrived.
Waiting == terminals # NoShell =>
  /\ term[terminals].socket = NoSocket => term[terminals].grace
  /\ term[terminals].exited => term[terminals].socket = NoSocket
NewIsUntouched == \A s \in Sockets : sock[s] = "new" => s \notin pumped /\ pc[s] # "opening"

\* The three facts hold together: what is registered waits for somebody, or ends
\* (terminals.ts detachSocket, endTerminal), and an opening is of a socket that came.
THEOREM WaitingInductive == Spec => [](Waiting /\ NewIsUntouched)
<1>1. Init => Waiting /\ NewIsUntouched
  BY DEF Init, Waiting, NewIsUntouched
<1>2. TypeOK /\ TypeOK' /\ Waiting /\ NewIsUntouched /\ [Next]_vars => Waiting' /\ NewIsUntouched'
  <2> SUFFICES ASSUME TypeOK, TypeOK', Waiting, NewIsUntouched, [Next]_vars
               PROVE  Waiting' /\ NewIsUntouched'
    OBVIOUS
  <2>0. /\ term \in [Shells -> LiveTerminal] /\ sock \in [Sockets -> {"new", "open", "closing", "closed"}]
        /\ terminals \in Shells \cup {NoShell} /\ pc \in [Sockets -> {"idle", "opening", "done"}]
    BY DEF TypeOK
  <2>1. ASSUME NEW so \in [Sockets -> {"new", "open", "closing", "closed"}], NEW x, NEW y \in Sockets
        PROVE  HangUp(so, x)[y] = "new" <=> so[y] = "new"
    BY DEF HangUp
  <2>2. CASE SshReady \/ SshError \/ SshClosed \/ UNCHANGED vars
    BY <2>2 DEF SshReady, SshError, SshClosed, vars, Waiting, NewIsUntouched
  <2>3. ASSUME NEW s \in Sockets, Reattach(s) PROVE Waiting' /\ NewIsUntouched'
    <3> DEFINE t == term[terminals]
               arrived == HangUp([sock EXCEPT ![s] = "open"], t.socket)
    <3>1. /\ term'[terminals].socket = s /\ term'[terminals].exited = t.exited /\ s # NoSocket
          /\ terminals' = IF t.exited THEN NoShell ELSE terminals
      BY <2>0, <2>3, NoSocketAssumption DEF Reattach, LiveTerminal, Spent
    <3>2. Waiting'
      BY <3>1 DEF Waiting
    <3>3. [sock EXCEPT ![s] = "open"] \in [Sockets -> {"new", "open", "closing", "closed"}]
      <4>1. /\ sock \in [Sockets -> {"new", "open", "closing", "closed"}]
            /\ "open" \in {"new", "open", "closing", "closed"}
        BY <2>0
      <4> QED BY <4>1, Zenon
    <3>a. \A y \in Sockets : [sock EXCEPT ![s] = "open"][y] = "new" => sock[y] = "new" /\ y # s
      BY <2>0
    <3>4. /\ arrived \in [Sockets -> {"new", "open", "closing", "closed"}]
          /\ \A y \in Sockets : arrived[y] = "new" => sock[y] = "new" /\ y # s
      <4>1. arrived \in [Sockets -> {"new", "open", "closing", "closed"}]
        BY <3>3, HangUpType, Zenon
      <4> QED BY <2>1, <3>3, <3>a, <4>1
    <3>5. /\ sock' = arrived \/ sock' = HangUp(arrived, s)
          /\ pumped' \subseteq pumped \cup {s} /\ pc' = [pc EXCEPT ![s] = "done"]
      BY <2>3 DEF Reattach
    <3> HIDE DEF arrived
    <3>6. \A y \in Sockets : sock'[y] = "new" => sock[y] = "new" /\ y # s
      BY <2>1, <3>4, <3>5
    <3> QED BY <2>0, <3>2, <3>5, <3>6 DEF NewIsUntouched
  <2>4. ASSUME NEW s \in Sockets, Refuse(s) \/ StartOpening(s) \/ PeerCloses(s)
        PROVE  Waiting' /\ NewIsUntouched'
    BY <2>0, <2>4 DEF Refuse, StartOpening, PeerCloses, Waiting, NewIsUntouched
  <2>5. ASSUME NEW s \in Sockets, OpenFails(s) PROVE Waiting' /\ NewIsUntouched'
    BY <2>0, <2>1, <2>5 DEF OpenFails, Waiting, NewIsUntouched
  <2>6. ASSUME NEW s \in Sockets, CloseEvent(s) PROVE Waiting' /\ NewIsUntouched'
    <3>1. NewIsUntouched'
      BY <2>0, <2>6 DEF CloseEvent, NewIsUntouched
    <3>2. CASE s \in pumped /\ terminals # NoShell /\ term[terminals].socket = s
      <4>1. Detach /\ terminals \in Shells
        BY <2>0, <2>6, <3>2 DEF CloseEvent
      <4>2. CASE term[terminals].exited
        BY <3>1, <4>1, <4>2 DEF Detach, Spent, Waiting
      <4>3. CASE ~term[terminals].exited
        <5>1. /\ terminals' = terminals
              /\ term' = [term EXCEPT ![terminals].socket = NoSocket, ![terminals].grace = TRUE]
          BY <4>1, <4>3 DEF Detach, Spent
        <5>2. term'[terminals].socket = NoSocket /\ term'[terminals].grace
          BY <2>0, <4>1, <5>1 DEF LiveTerminal
        <5> QED BY <3>1, <5>1, <5>2 DEF Waiting
      <4> QED BY <4>2, <4>3
    <3>3. CASE ~(s \in pumped /\ terminals # NoShell /\ term[terminals].socket = s)
      BY <2>6, <3>1, <3>3 DEF CloseEvent, Waiting
    <3> QED BY <3>2, <3>3
  <2>7. ASSUME NEW s \in Sockets, NEW h \in Shells, OpenSucceeds(s, h) PROVE Waiting' /\ NewIsUntouched'
    <3>0. EndTerminalTerms \in [Shells -> LiveTerminal]
      BY EndTerminalType DEF TypeOK
    <3>1. /\ terminals' = h /\ term'[h] = FreshTerminal(s)
          /\ sock' = EndTerminalSockets /\ pumped' \subseteq pumped \cup {s}
          /\ pc[s] = "opening" /\ pc' = [pc EXCEPT ![s] = "done"]
      BY <2>0, <2>7, <3>0 DEF OpenSucceeds
    <3>2. \A y \in Sockets : sock'[y] = "new" => sock[y] = "new"
      BY <2>0, <2>1, <3>1 DEF EndTerminalSockets
    <3>3. NewIsUntouched'
      BY <2>0, <3>1, <3>2 DEF NewIsUntouched
    <3>4. Waiting'
      BY <3>1, NoSocketAssumption DEF Waiting, FreshTerminal
    <3> QED BY <3>3, <3>4
  <2>8. ASSUME NEW h \in Shells, Output(h) PROVE Waiting' /\ NewIsUntouched'
    <3>1. made[h] + 1 \in Chunks
      BY <2>8, BoundsAssumption DEF Output, Chunks, TypeOK
    <3>2. /\ Remember(term[h], made[h] + 1).exited = term[h].exited
          /\ Remember(term[h], made[h] + 1).socket = term[h].socket
          /\ Remember(term[h], made[h] + 1).grace = term[h].grace
      BY <2>0, <3>1, RememberType
    <3>3. term' = term \/ term' = [term EXCEPT ![h] = Remember(term[h], made[h] + 1)]
      BY <2>8 DEF Output
    <3>4. \A g \in Shells : /\ term'[g].exited = term[g].exited
                            /\ term'[g].socket = term[g].socket
                            /\ term'[g].grace = term[g].grace
      BY <2>0, <3>2, <3>3
    <3>5. UNCHANGED <<sock, pumped, pc, terminals>>
      BY <2>8 DEF Output
    <3> QED BY <2>0, <3>4, <3>5 DEF Waiting, NewIsUntouched
  <2>9. ASSUME NEW h \in Shells, Exit(h) PROVE Waiting' /\ NewIsUntouched'
    <3>1. UNCHANGED <<pumped, pc>> /\ (sock' = sock \/ sock' = HangUp(sock, term[h].socket))
      BY <2>9 DEF Exit
    <3>2. NewIsUntouched'
      BY <2>0, <2>1, <3>1 DEF NewIsUntouched
    <3>3. \/ terminals' = NoShell
          \/ /\ terminals' = terminals /\ term[h].socket = NoSocket
             /\ \A g \in Shells : /\ term'[g].socket = term[g].socket /\ term'[g].grace = term[g].grace
                                  /\ g # h => term'[g] = term[g]
      BY <2>0, <2>9 DEF Exit, LiveTerminal
    <3>4. Waiting'
      BY <2>0, <3>3 DEF Waiting
    <3> QED BY <3>2, <3>4
  <2>10. ASSUME NEW h \in Shells, GraceFires(h) PROVE Waiting' /\ NewIsUntouched'
    BY <2>10 DEF GraceFires, Waiting, NewIsUntouched
  <2>11. CASE CloseSession
    BY <2>0, <2>1, <2>11 DEF CloseSession, EndTerminalSockets, Waiting, NewIsUntouched
  <2> QED BY <2>2, <2>3, <2>4, <2>5, <2>6, <2>7, <2>8, <2>9, <2>10, <2>11 DEF Next
<1> QED BY <1>1, <1>2, TypeCorrect, PTL DEF Spec

\* Without an overlap or a close in the midst of an opening, an opening hands
\* its shell to a session that is still there, and a closed session stays over.
OpeningIsWelcome == \A s \in Sockets : pc[s] = "opening" => client # "ending" /\ ~closed
ClosedIsOver == closed => terminals = NoShell /\ ~SshHeld /\ (transport = "ssh" \/ SessionOver)
EntryLives == terminals # NoShell =>
  \/ shell[terminals] = "running"
  \/ shell[terminals] = "exited" /\ term[terminals].exited
WelcomeParts == OpeningIsWelcome /\ ClosedIsOver /\ EntryLives
WelcomeInvariant == raced \cap {"overlap", "closeWhileOpening"} = {} => WelcomeParts

\* A step that lets the registered shell go, when no socket is opening one.
LEMMA LetGoIsWelcome ==
  ASSUME TypeOK, \A s \in Sockets : pc'[s] # "opening", terminals' = NoShell,
         client' = DisposedClient, UNCHANGED transport,
         closed' => transport = "ssh" \/ SessionOver'
  PROVE  WelcomeParts'
<1>1. ~SshHeld'
  BY DEF SshHeld, DisposedClient
<1> QED BY <1>1 DEF WelcomeParts, OpeningIsWelcome, ClosedIsOver, EntryLives

\* The parts of WelcomeInvariant hold together, without an overlap or a close in the
\* midst of an opening (routes.ts:794, terminals.ts registerTerminal).
THEOREM WelcomeInductive == Spec => []WelcomeInvariant
<1>1. Init => WelcomeInvariant
  BY DEF Init, WelcomeInvariant, WelcomeParts, OpeningIsWelcome, ClosedIsOver, EntryLives
<1>2. TypeOK /\ TypeOK' /\ OneShellInvariant /\ WelcomeInvariant /\ [Next]_vars => WelcomeInvariant'
  <2> SUFFICES ASSUME TypeOK, TypeOK', OneShellInvariant, WelcomeInvariant, [Next]_vars,
                      raced' \cap {"overlap", "closeWhileOpening"} = {}
               PROVE  WelcomeParts'
    BY DEF WelcomeInvariant
  <2>0. /\ WelcomeParts /\ OneShellParts
        /\ shell \in [Shells -> ShellStates] /\ term \in [Shells -> LiveTerminal]
        /\ terminals \in Shells \cup {NoShell} /\ pc \in [Sockets -> {"idle", "opening", "done"}]
    BY RacedGrows DEF WelcomeInvariant, OneShellInvariant, TypeOK
  <2>r. terminals # NoShell => /\ ~closed
                               /\ \A s \in Sockets : pc[s] # "opening"
    BY <2>0 DEF WelcomeParts, ClosedIsOver, OneShellParts, RegisteredIsMade, FirstOpening
  <2> USE DEF OpeningIsWelcome, ClosedIsOver, EntryLives, SshHeld, SessionOver
  <2>1. CASE SshReady \/ SshError \/ SshClosed \/ UNCHANGED vars
    BY <2>0, <2>1 DEF SshReady, SshError, SshClosed, vars, WelcomeParts
  <2>2. ASSUME NEW s \in Sockets, Reattach(s) PROVE WelcomeParts'
    <3>1. /\ terminals \in Shells /\ UNCHANGED <<transport, status, closed>>
          /\ \A x \in Sockets : pc'[x] # "opening"
      BY <2>0, <2>2, <2>r DEF Reattach
    <3>2. CASE term[terminals].exited
      BY <2>2, <2>r, <3>1, <3>2, LetGoIsWelcome DEF Reattach, Spent
    <3>3. CASE ~term[terminals].exited
      <4>1. UNCHANGED <<terminals, shell, client>> /\ term'[terminals].exited = term[terminals].exited
        BY <2>0, <2>2, <3>1, <3>3 DEF Reattach, Spent, LiveTerminal
      <4> QED BY <2>0, <3>1, <4>1 DEF WelcomeParts
    <3> QED BY <3>2, <3>3
  <2>3. ASSUME NEW s \in Sockets, Refuse(s) \/ OpenFails(s) \/ PeerCloses(s) PROVE WelcomeParts'
    BY <2>0, <2>3 DEF Refuse, OpenFails, PeerCloses, WelcomeParts
  <2>4. ASSUME NEW s \in Sockets, StartOpening(s) PROVE WelcomeParts'
    <3>1. client # "ending" /\ ~closed
      BY <2>0, <2>4 DEF StartOpening, WelcomeParts, OneShellParts, NothingBeforeReady
    <3> QED BY <2>0, <2>4, <3>1 DEF StartOpening, WelcomeParts
  <2>5. ASSUME NEW s \in Sockets, CloseEvent(s) PROVE WelcomeParts'
    <3>1. UNCHANGED <<transport, pc, closed>>
      BY <2>5 DEF CloseEvent
    <3>2. CASE s \in pumped /\ terminals # NoShell /\ term[terminals].socket = s
      <4>1. Detach /\ terminals \in Shells
        BY <2>0, <2>5, <3>2 DEF CloseEvent
      <4>2. CASE term[terminals].exited
        BY <2>r, <3>1, <3>2, <4>1, <4>2, LetGoIsWelcome DEF Detach, Spent
      <4>3. CASE ~term[terminals].exited
        <5>1. UNCHANGED <<terminals, shell, client, status>>
          BY <4>1, <4>3 DEF Detach, Spent
        <5>2. term'[terminals].exited = term[terminals].exited
          BY <2>0, <4>1, <4>3 DEF Detach, Spent, LiveTerminal
        <5> QED BY <2>0, <3>1, <4>3, <5>1, <5>2 DEF WelcomeParts
      <4> QED BY <4>2, <4>3
    <3>3. CASE ~(s \in pumped /\ terminals # NoShell /\ term[terminals].socket = s)
      BY <2>0, <2>5, <3>1, <3>3 DEF CloseEvent, WelcomeParts
    <3> QED BY <3>2, <3>3
  <2>6. ASSUME NEW s \in Sockets, NEW h \in Shells, OpenSucceeds(s, h) PROVE WelcomeParts'
    <3>1. terminals = NoShell /\ pc[s] = "opening"
      BY <2>6, <2>r DEF OpenSucceeds
    <3>2. client # "ending" /\ ~closed
      BY <2>0, <3>1 DEF WelcomeParts
    <3>3. /\ shell'[h] = "running" /\ terminals' = h
          /\ UNCHANGED <<client, closed>>
          /\ \A x \in Sockets : pc'[x] = "opening" => pc[x] = "opening"
      BY <2>0, <2>6, <3>1, <3>2 DEF OpenSucceeds, EndTerminal, Opened
    <3> QED BY <2>0, <3>2, <3>3 DEF WelcomeParts
  <2>7. ASSUME NEW h \in Shells, Output(h) PROVE WelcomeParts'
    <3>1. made[h] + 1 \in Chunks
      BY <2>7, BoundsAssumption DEF Output, Chunks, TypeOK
    <3>2. Remember(term[h], made[h] + 1).exited = term[h].exited
      BY <2>0, <3>1, RememberType
    <3>3. term' = term \/ term' = [term EXCEPT ![h] = Remember(term[h], made[h] + 1)]
      BY <2>7 DEF Output
    <3>4. \A g \in Shells : term'[g].exited = term[g].exited
      BY <2>0, <3>2, <3>3
    <3>5. UNCHANGED <<transport, status, client, pc, shell, terminals, closed>>
      BY <2>7 DEF Output
    <3> QED BY <2>0, <3>4, <3>5 DEF WelcomeParts
  <2>8. ASSUME NEW h \in Shells, Exit(h) PROVE WelcomeParts'
    <3>1. /\ \A x \in Sockets : pc'[x] # "opening"
          /\ terminals # NoShell => terminals = h
          /\ UNCHANGED <<transport, closed>>
          /\ status' = IF transport = "ssh" THEN status ELSE "closed"
      BY <2>0, <2>8 DEF Exit, OneShellParts, OnlyShell, RegisteredIsMade, FirstOpening
    <3>2. CASE term[h].socket # NoSocket
      BY <2>8, <3>1, <3>2, LetGoIsWelcome DEF Exit
    <3>3. CASE term[h].socket = NoSocket
      <4>1. UNCHANGED <<terminals, client>> /\ term'[h].exited
        BY <2>0, <2>8, <3>3 DEF Exit, LiveTerminal
      <4>2. shell[h] = "running" => shell'[h] = "exited"
        BY <2>0, <2>8, <3>3 DEF Exit
      <4>3. EntryLives'
        BY <2>0, <2>8, <3>1, <4>1, <4>2 DEF Exit, WelcomeParts
      <4> QED BY <2>0, <3>1, <4>1, <4>3 DEF WelcomeParts
    <3> QED BY <3>2, <3>3
  <2>9. ASSUME NEW h \in Shells, GraceFires(h) PROVE WelcomeParts'
    <3>1. terminals = h
      BY <2>0, <2>9 DEF GraceFires, OneShellParts, GraceIsRight
    <3> QED BY <2>9, <2>r, <3>1, NoShellAssumption, LetGoIsWelcome DEF GraceFires
  <2>10. CASE CloseSession
    <3>1. \A s \in Sockets : pc'[s] # "opening"
      BY <2>10 DEF CloseSession, Race
    <3> QED BY <2>10, <3>1, LetGoIsWelcome DEF CloseSession
  <2> QED BY <2>1, <2>2, <2>3, <2>4, <2>5, <2>6, <2>7, <2>8, <2>9, <2>10 DEF Next
<1> QED BY <1>1, <1>2, TypeCorrect, OneShellInductive, PTL DEF Spec

\* routes.ts:603: a terminal "must not survive somebody deciding the session is
\* over", nor appear after it.
THEOREM ClosedMeansOverHolds == Spec => []ClosedMeansOverUnlessRaced
<1>1. TypeOK /\ OneShellInvariant /\ WelcomeInvariant => ClosedMeansOverUnlessRaced
  BY NoShellAssumption
     DEF OneShellInvariant, OneShellParts, RunningIsRegistered, WelcomeInvariant, WelcomeParts,
         ClosedIsOver, ClosedMeansOverUnlessRaced, Over
<1> QED BY <1>1, TypeCorrect, OneShellInductive, WelcomeInductive, PTL

LEMMA HangUpHangs ==
  ASSUME NEW so \in [Sockets -> {"new", "open", "closing", "closed"}], NEW x, NEW y \in Sockets
  PROVE  HangUp(so, x)[y] = "open" <=> so[y] = "open" /\ y # x
BY DEF HangUp

\* terminals.ts:214: never "two keyboards on one shell".
THEOREM NoDeafSocketHolds == Spec => []NoDeafSocket
<1> DEFINE SockStates == [Sockets -> {"new", "open", "closing", "closed"}]
<1>1. Init => NoDeafSocket
  BY DEF Init, NoDeafSocket
<1>2. TypeOK /\ OneShellInvariant /\ NewIsUntouched /\ NoDeafSocket /\ [Next]_vars => NoDeafSocket'
  <2> SUFFICES ASSUME TypeOK, OneShellInvariant, NewIsUntouched, NoDeafSocket, [Next]_vars,
                      "overlap" \notin raced',
                      NEW x \in pumped', sock'[x] = "open"
               PROVE  terminals' # NoShell /\ term'[terminals'].socket = x
    BY DEF NoDeafSocket
  <2>0. /\ OneShellParts /\ sock \in SockStates /\ term \in [Shells -> LiveTerminal]
        /\ terminals \in Shells \cup {NoShell} /\ pumped \subseteq Sockets
        /\ \A y \in pumped : sock[y] = "open" => terminals # NoShell /\ term[terminals].socket = y
    BY RacedGrows DEF OneShellInvariant, NoDeafSocket, TypeOK
  <2>k. ASSUME x \in pumped, sock[x] = "open", UNCHANGED terminals,
               \A g \in Shells : term'[g].socket = term[g].socket
        PROVE  terminals' # NoShell /\ term'[terminals'].socket = x
    BY <2>0, <2>k
  <2>1. CASE SshReady \/ SshError \/ SshClosed \/ UNCHANGED vars
    BY <2>0, <2>1 DEF SshReady, SshError, SshClosed, vars
  <2>2. ASSUME NEW s \in Sockets, Reattach(s)
        PROVE  terminals' # NoShell /\ term'[terminals'].socket = x
    <3> DEFINE t == term[terminals]
               here == [sock EXCEPT ![s] = "open"]
               arrived == HangUp(here, t.socket)
    <3>1. /\ terminals \in Shells /\ s \notin pumped
          /\ here \in SockStates /\ \A y \in Sockets : here[y] = "open" <=> y = s \/ sock[y] = "open"
      BY <2>0, <2>2 DEF Reattach, NewIsUntouched
    <3> HIDE DEF here
    <3>2. /\ arrived \in SockStates
          /\ \A y \in Sockets : arrived[y] = "open" => (y = s \/ sock[y] = "open") /\ y # t.socket
      BY <3>1, HangUpType, HangUpHangs
    <3>3. term'[terminals].socket = s
      BY <2>0, <2>2, <3>1 DEF Reattach, LiveTerminal
    <3>4. CASE t.exited
      <4>1. sock' = HangUp(arrived, s) /\ pumped' = pumped
        BY <2>2, <3>4 DEF Reattach, Spent, here
      <4> HIDE DEF arrived
      <4>2. sock[x] = "open" /\ x # t.socket
        BY <2>0, <3>1, <3>2, <4>1, HangUpHangs
      <4> QED BY <2>0, <4>1, <4>2
    <3>5. CASE ~t.exited
      <4>1. sock' = arrived /\ pumped' = pumped \cup {s} /\ terminals' = terminals
        BY <2>2, <3>5 DEF Reattach, Spent, here
      <4> HIDE DEF arrived
      <4>2. x = s
        BY <2>0, <3>2, <4>1
      <4> QED BY <3>1, <3>3, <4>1, <4>2, NoShellAssumption
    <3> QED BY <3>4, <3>5
  <2>3. ASSUME NEW s \in Sockets, Refuse(s) \/ PeerCloses(s) \/ OpenFails(s)
        PROVE  terminals' # NoShell /\ term'[terminals'].socket = x
    <3>1. x \in pumped /\ sock[x] = "open" /\ UNCHANGED <<terminals, term>>
      BY <2>0, <2>3, HangUpHangs DEF Refuse, PeerCloses, OpenFails
    <3> QED BY <2>0, <3>1
  <2>4. ASSUME NEW s \in Sockets, StartOpening(s)
        PROVE  terminals' # NoShell /\ term'[terminals'].socket = x
    <3>1. x \in pumped /\ sock[x] = "open" /\ UNCHANGED <<terminals, term>>
      BY <2>0, <2>4 DEF StartOpening, NewIsUntouched
    <3> QED BY <2>0, <3>1
  <2>5. ASSUME NEW s \in Sockets, CloseEvent(s)
        PROVE  terminals' # NoShell /\ term'[terminals'].socket = x
    <3>1. x \in pumped /\ sock[x] = "open" /\ x # s
      BY <2>0, <2>5 DEF CloseEvent
    <3>2. UNCHANGED <<terminals, term>>
      BY <2>0, <2>5, <3>1 DEF CloseEvent
    <3> QED BY <2>0, <3>1, <3>2
  <2>6. ASSUME NEW s \in Sockets, NEW h \in Shells, OpenSucceeds(s, h)
        PROVE  terminals' # NoShell /\ term'[terminals'].socket = x
    <3>1. terminals = NoShell
      BY <2>0, <2>6 DEF OpenSucceeds, OneShellParts, FirstOpening, RegisteredIsMade
    <3>2. /\ terminals' = h /\ term' = [term EXCEPT ![h] = FreshTerminal(s)]
          /\ sock' = sock /\ pumped' \subseteq pumped \cup {s}
      BY <2>6, <3>1 DEF OpenSucceeds, EndTerminalTerms, EndTerminalSockets
    <3>3. x = s
      BY <2>0, <3>1, <3>2
    <3> QED BY <2>0, <3>2, <3>3, NoShellAssumption DEF FreshTerminal
  <2>7. ASSUME NEW h \in Shells, Output(h)
        PROVE  terminals' # NoShell /\ term'[terminals'].socket = x
    <3>1. made[h] + 1 \in Chunks
      BY <2>7, BoundsAssumption DEF Output, Chunks, TypeOK
    <3>2. Remember(term[h], made[h] + 1).socket = term[h].socket
      BY <2>0, <3>1, RememberType
    <3>3. term' = term \/ term' = [term EXCEPT ![h] = Remember(term[h], made[h] + 1)]
      BY <2>7 DEF Output
    <3>4. \A g \in Shells : term'[g].socket = term[g].socket
      BY <2>0, <3>2, <3>3
    <3>5. UNCHANGED <<sock, pumped, terminals>>
      BY <2>7 DEF Output
    <3> QED BY <2>k, <3>4, <3>5
  <2>8. ASSUME NEW h \in Shells, Exit(h)
        PROVE  terminals' # NoShell /\ term'[terminals'].socket = x
    <3>1. terminals # NoShell => terminals = h
      BY <2>0, <2>8 DEF Exit, OneShellParts, OnlyShell, RegisteredIsMade
    <3>2. CASE term[h].socket # NoSocket
      <4>1. sock' = HangUp(sock, term[h].socket) /\ pumped' = pumped
        BY <2>8, <3>2 DEF Exit
      <4>2. sock[x] = "open" /\ x # term[h].socket
        BY <2>0, <4>1, HangUpHangs
      <4> QED BY <2>0, <3>1, <4>1, <4>2
    <3>3. CASE term[h].socket = NoSocket
      <4>1. UNCHANGED <<sock, pumped>>
        BY <2>8, <3>3 DEF Exit
      <4> QED BY <2>0, <3>1, <3>3, <4>1, NoSocketAssumption
    <3> QED BY <3>2, <3>3
  <2>9. ASSUME NEW h \in Shells, GraceFires(h)
        PROVE  terminals' # NoShell /\ term'[terminals'].socket = x
    <3>1. terminals = h /\ term[h].socket = NoSocket
      BY <2>0, <2>9 DEF GraceFires, OneShellParts, GraceIsRight
    <3>2. UNCHANGED <<sock, pumped>>
      BY <2>9 DEF GraceFires
    <3> QED BY <2>0, <3>1, <3>2, NoSocketAssumption
  <2>10. CASE CloseSession
    <3>1. sock' = EndTerminalSockets /\ pumped' = pumped
      BY <2>10 DEF CloseSession
    <3>2. sock[x] = "open" /\ (terminals # NoShell => x # term[terminals].socket)
      BY <2>0, <3>1, HangUpHangs DEF EndTerminalSockets
    <3> QED BY <2>0, <3>1, <3>2
  <2> QED BY <2>1, <2>2, <2>3, <2>4, <2>5, <2>6, <2>7, <2>8, <2>9, <2>10 DEF Next
<1> QED BY <1>1, <1>2, TypeCorrect, OneShellInductive, WaitingInductive, PTL DEF Spec

\* Whoever comes for the registered terminal finds it of use: its shell runs, or
\* has last words that are kept on a countdown, and the one browser whose typing
\* reaches a shell is the one that hears it.
THEOREM RegisteredIsSoundHolds == Spec => []RegisteredIsSound
<1>1. Waiting => LastWordsOnCountdown
  BY DEF Waiting, LastWordsOnCountdown
<1>2. WelcomeInvariant => EntryIsAlive
  BY DEF WelcomeInvariant, WelcomeParts, EntryLives, EntryIsAlive
<1> QED BY <1>1, <1>2, WaitingInductive, WelcomeInductive, NoDeafSocketHolds, PTL DEF RegisteredIsSound

-----------------------------------------------------------------------------
(* The gateway implements ShellLife, step by step.                           *)

LifeOf(sh) ==
  IF \E h \in Shells : sh[h] = "running" THEN "live"
  ELSE IF \E h \in Shells : sh[h] = "exited" THEN "exited"
  ELSE IF \E h \in Shells : sh[h] # "none" THEN "ended"
  ELSE "unopened"

LEMMA LifeOfOne ==
  ASSUME NEW sh, NEW h \in Shells, sh[h] # "none", \A g \in Shells : sh[g] # "none" => g = h
  PROVE  LifeOf(sh) = IF sh[h] = "running" THEN "live"
                      ELSE IF sh[h] = "exited" THEN "exited" ELSE "ended"
BY DEF LifeOf

LEMMA LifeOfNone ==
  ASSUME NEW sh, \A g \in Shells : sh[g] = "none"
  PROVE  LifeOf(sh) = "unopened"
BY DEF LifeOf

LEMMA LifeIsLifeOf == Life = LifeOf(shell) /\ Life' = LifeOf(shell')
BY DEF Life, LifeOf

\* What a step shows of the promise when its shell, reader and closing stay.
LEMMA NothingShows ==
  ASSUME UNCHANGED <<closed, terminals>>, LifeOf(shell') = LifeOf(shell),
         terminals # NoShell => (term'[terminals].socket = NoSocket <=> term[terminals].socket = NoSocket)
  PROVE  UNCHANGED <<Life, Attached, closed>>
<1>1. Attached' <=> Attached
  BY DEF Attached
<1>2. Attached \in BOOLEAN /\ Attached' \in BOOLEAN
  BY DEF Attached
<1> QED BY <1>1, <1>2, LifeIsLifeOf

LEMMA NobodyAttached ==
  ASSUME terminals # NoShell => term[terminals].socket = NoSocket
  PROVE  Attached = FALSE
BY DEF Attached

LEMMA StepKeepsThePromise ==
  ASSUME TypeOK, Waiting, OneShellParts, WelcomeParts, Next
  PROVE  [Promise!Next]_<<Life, Attached, closed>>
<1>0. /\ shell \in [Shells -> ShellStates] /\ term \in [Shells -> LiveTerminal]
      /\ terminals \in Shells \cup {NoShell}
  BY DEF TypeOK
<1>1. ASSUME terminals # NoShell
      PROVE  /\ terminals \in Shells /\ ~closed
             /\ \A g \in Shells : shell[g] # "none" => g = terminals
             /\ \/ shell[terminals] = "running" /\ ~term[terminals].exited /\ LifeOf(shell) = "live"
                \/ /\ shell[terminals] = "exited" /\ term[terminals].exited /\ LifeOf(shell) = "exited"
                   /\ term[terminals].socket = NoSocket
  <2>1. /\ terminals \in Shells /\ ~closed
        /\ \A g \in Shells : shell[g] # "none" => g = terminals
    BY <1>0, <1>1 DEF WelcomeParts, ClosedIsOver, OneShellParts, OnlyShell, RegisteredIsMade
  <2>2. CASE shell[terminals] = "running"
    BY <2>1, <2>2, LifeOfOne DEF OneShellParts, ExitedHasExited
  <2>3. CASE shell[terminals] = "exited" /\ term[terminals].exited
    BY <1>1, <2>1, <2>3, LifeOfOne DEF Waiting
  <2> QED BY <1>1, <2>1, <2>2, <2>3 DEF WelcomeParts, EntryLives
<1>2. ASSUME SshReady \/ SshError \/ SshClosed
             \/ \E s \in Sockets : Refuse(s) \/ StartOpening(s) \/ OpenFails(s) \/ PeerCloses(s)
      PROVE  UNCHANGED <<Life, Attached, closed>>
  <2>1. UNCHANGED <<shell, term, terminals, closed>>
    BY <1>2 DEF SshReady, SshError, SshClosed, Refuse, StartOpening, OpenFails, PeerCloses
  <2> QED BY <2>1, NothingShows
<1>3. ASSUME NEW s \in Sockets, Reattach(s)
      PROVE  [Promise!Next]_<<Life, Attached, closed>>
  <2>1. terminals # NoShell /\ terminals \in Shells /\ UNCHANGED closed
    BY <1>1, <1>3 DEF Reattach
  <2>2. CASE ~term[terminals].exited
    <3>1. UNCHANGED <<terminals, shell>> /\ term'[terminals].socket = s
      BY <1>0, <1>3, <2>1, <2>2 DEF Reattach, Spent, LiveTerminal
    <3>2. CASE term[terminals].socket # NoSocket
      BY <2>1, <3>1, <3>2, NothingShows, NoSocketAssumption
    <3>3. CASE term[terminals].socket = NoSocket
      <4>1. Life = "live" /\ UNCHANGED Life
        BY <1>1, <2>1, <2>2, <3>1, LifeIsLifeOf
      <4>2. Attached = FALSE /\ Attached' = TRUE
        BY <2>1, <3>1, <3>3, NoSocketAssumption DEF Attached
      <4> QED BY <2>1, <4>1, <4>2 DEF Promise!Next, Promise!Return
    <3> QED BY <3>2, <3>3
  <2>3. CASE term[terminals].exited
    <3>1. terminals' = NoShell /\ shell' = Stop(shell, Disposable(shells))
      BY <1>3, <2>3 DEF Reattach, Spent
    <3>2. shell'[terminals] = "exited" /\ \A g \in Shells : shell'[g] # "none" => g = terminals
      BY <1>0, <1>1, <2>1, <2>3, <3>1, StopStops
    <3>3. LifeOf(shell') = "exited" /\ LifeOf(shell) = "exited"
      BY <1>1, <2>1, <2>3, <3>2, LifeOfOne
    <3>4. Attached = FALSE /\ Attached' = FALSE
      BY <1>1, <2>1, <2>3, <3>1 DEF Attached
    <3> QED BY <2>1, <3>3, <3>4, LifeIsLifeOf
  <2> QED BY <2>2, <2>3
<1>4. ASSUME NEW s \in Sockets, CloseEvent(s)
      PROVE  [Promise!Next]_<<Life, Attached, closed>>
  <2>1. CASE s \in pumped /\ terminals # NoShell /\ term[terminals].socket = s
    <3>1. Detach /\ terminals \in Shells /\ ~term[terminals].exited /\ UNCHANGED closed
      BY <1>1, <1>4, <2>1, NoSocketAssumption DEF CloseEvent
    <3>2. UNCHANGED <<terminals, shell>> /\ term'[terminals].socket = NoSocket
      BY <1>0, <3>1 DEF Detach, Spent, LiveTerminal
    <3>3. Attached = TRUE /\ Attached' = FALSE /\ UNCHANGED Life
      BY <2>1, <3>2, NoSocketAssumption, LifeIsLifeOf DEF Attached
    <3> QED BY <3>1, <3>3 DEF Promise!Next, Promise!Drop
  <2>2. CASE ~(s \in pumped /\ terminals # NoShell /\ term[terminals].socket = s)
    <3>1. UNCHANGED <<shell, term, terminals, closed>>
      BY <1>4, <2>2 DEF CloseEvent
    <3> QED BY <3>1, NothingShows
  <2> QED BY <2>1, <2>2
<1>5. ASSUME NEW s \in Sockets, NEW h \in Shells, OpenSucceeds(s, h)
      PROVE  [Promise!Next]_<<Life, Attached, closed>>
  <2>1. /\ \A g \in Shells : shell[g] = "none"
        /\ client # "ending" /\ ~closed /\ UNCHANGED closed
    BY <1>5 DEF OpenSucceeds, OneShellParts, FirstOpening, WelcomeParts, OpeningIsWelcome
  <2>2. terminals = NoShell
    BY <1>0, <2>1 DEF OneShellParts, RegisteredIsMade
  <2>3. /\ shell' = Opened(h) /\ terminals' = h /\ term' = [term EXCEPT ![h] = FreshTerminal(s)]
    BY <1>5, <2>2 DEF OpenSucceeds, EndTerminal, EndTerminalTerms
  <2>4. shell'[h] = "running" /\ \A g \in Shells : shell'[g] # "none" => g = h
    BY <1>0, <2>1, <2>3 DEF Opened
  <2>5. Life = "unopened" /\ Life' = "live"
    BY <2>1, <2>4, LifeOfOne, LifeOfNone, LifeIsLifeOf
  <2>6. Attached' = TRUE
    BY <1>0, <2>3, NoShellAssumption, NoSocketAssumption DEF Attached, FreshTerminal
  <2> QED BY <2>1, <2>5, <2>6 DEF Promise!Next, Promise!Open
<1>6. ASSUME NEW h \in Shells, Output(h)
      PROVE  UNCHANGED <<Life, Attached, closed>>
  <2>1. made[h] + 1 \in Chunks
    BY <1>6, BoundsAssumption DEF Output, Chunks, TypeOK
  <2>2. Remember(term[h], made[h] + 1).socket = term[h].socket
    BY <1>0, <2>1, RememberType
  <2>3. term' = term \/ term' = [term EXCEPT ![h] = Remember(term[h], made[h] + 1)]
    BY <1>6 DEF Output
  <2>4. \A g \in Shells : term'[g].socket = term[g].socket
    BY <1>0, <2>2, <2>3
  <2>5. UNCHANGED <<shell, terminals, closed>>
    BY <1>6 DEF Output
  <2> QED BY <1>0, <2>4, <2>5, NothingShows
<1>7. ASSUME NEW h \in Shells, Exit(h)
      PROVE  [Promise!Next]_<<Life, Attached, closed>>
  <2> DEFINE gone == [shell EXCEPT ![h] = IF @ = "running" THEN "exited" ELSE "ended"]
  <2>1. /\ shell[h] \in {"running", "ending"} /\ UNCHANGED closed
        /\ shell' = gone \/ shell' = Stop(gone, Disposable(NoShell))
        /\ \A g \in Shells : g # h => shell[g] = "none"
    BY <1>7 DEF Exit, OneShellParts, OnlyShell
  <2>2. /\ gone \in [Shells -> ShellStates] /\ \A g \in Shells : g # h => gone[g] = "none"
        /\ gone[h] = IF shell[h] = "running" THEN "exited" ELSE "ended"
    BY <1>0, <2>1 DEF ShellStates
  <2> HIDE DEF gone
  <2>3. /\ shell'[h] = IF shell[h] = "running" THEN "exited" ELSE "ended"
        /\ \A g \in Shells : shell'[g] # "none" => g = h
    BY <2>1, <2>2, StopStops
  <2>4. /\ Life = IF shell[h] = "running" THEN "live" ELSE "ended"
        /\ Life' = IF shell[h] = "running" THEN "exited" ELSE "ended"
    BY <2>1, <2>3, LifeOfOne, LifeIsLifeOf
  <2>5. CASE terminals = NoShell
    <3>1. shell[h] = "ending" /\ terminals' = NoShell
      BY <1>7, <2>1, <2>5, NoShellAssumption DEF Exit, OneShellParts, RunningIsRegistered
    <3>2. Attached = FALSE /\ Attached' = FALSE
      BY <2>5, <3>1 DEF Attached
    <3> QED BY <2>1, <2>4, <3>1, <3>2
  <2>6. CASE terminals # NoShell
    <3>1. terminals = h /\ shell[h] = "running"
      BY <1>1, <2>1, <2>6
    <3>2. terminals' = NoShell \/ (terminals' = terminals /\ term'[h].socket = NoSocket)
      BY <1>0, <1>7, <3>1 DEF Exit, LiveTerminal
    <3>3. Attached' = FALSE
      BY <3>1, <3>2 DEF Attached
    <3> QED BY <2>1, <2>4, <3>1, <3>3 DEF Promise!Next, Promise!FarEndExits
  <2> QED BY <2>5, <2>6
<1>8. ASSUME NEW h \in Shells, GraceFires(h)
      PROVE  [Promise!Next]_<<Life, Attached, closed>>
  <2>1. terminals = h /\ terminals # NoShell /\ term[h].socket = NoSocket
    BY <1>8, NoShellAssumption DEF GraceFires, OneShellParts, GraceIsRight
  <2>2. terminals' = NoShell /\ UNCHANGED closed /\ shell' = Stop(shell, {h} \cup Disposable(shells))
    BY <1>8 DEF GraceFires
  <2>3. Attached = FALSE /\ Attached' = FALSE
    BY <2>1, <2>2 DEF Attached
  <2>4. \A g \in Shells : shell'[g] # "none" => g = h
    BY <1>0, <1>1, <2>1, <2>2, StopStops
  <2>5. CASE shell[h] = "running"
    <3>1. shell'[h] \in {"ending", "ended"}
      BY <1>0, <2>2, <2>5 DEF Stop
    <3>2. Life = "live" /\ Life' = "ended"
      BY <1>1, <2>1, <2>4, <2>5, <3>1, LifeOfOne, LifeIsLifeOf
    <3> QED BY <2>2, <2>3, <3>2 DEF Promise!Next, Promise!Expire
  <2>6. CASE shell[h] # "running"
    <3>1. shell[h] = "exited" /\ shell'[h] = "exited"
      BY <1>0, <1>1, <2>1, <2>2, <2>6, StopStops
    <3>2. Life = "exited" /\ Life' = "exited"
      BY <1>1, <2>1, <2>4, <3>1, LifeOfOne, LifeIsLifeOf
    <3> QED BY <2>2, <2>3, <3>2
  <2> QED BY <2>5, <2>6
<1>9. CASE CloseSession
  <2> DEFINE e == EndTerminal(shell, shells)
  <2>1. /\ terminals' = NoShell /\ closed' = TRUE /\ shell' = Stop(e, Disposable(shells))
    BY <1>9 DEF CloseSession
  <2>2. Attached' = FALSE
    BY <2>1 DEF Attached
  <2>3. e \in [Shells -> ShellStates]
    BY <1>0, EndTerminalType
  <2>4. CASE \E h \in Shells : shell[h] = "running"
    <3>1. PICK h \in Shells : shell[h] = "running"
      BY <2>4
    <3>2. terminals = h /\ terminals # NoShell
      BY <3>1, NoShellAssumption DEF OneShellParts, RunningIsRegistered
    <3>3. e = Stop(shell, {h} \cup Disposable(shells))
      BY <1>1, <3>1, <3>2 DEF EndTerminal, Spent
    <3> HIDE DEF e
    <3>4. e[h] \in {"ending", "ended"} /\ \A g \in Shells : e[g] # "none" => g = h
      <4>1. e[h] \in {"ending", "ended"}
        BY <1>0, <3>1, <3>3 DEF Stop
      <4>2. \A g \in Shells : e[g] # "none" => g = h
        BY <1>0, <1>1, <3>2, <3>3, StopStops
      <4> QED BY <4>1, <4>2
    <3>5. shell'[h] \in {"ending", "ended"} /\ \A g \in Shells : shell'[g] # "none" => g = h
      BY <2>1, <2>3, <3>4, StopStops
    <3>6. Life = "live" /\ Life' = "ended"
      BY <1>1, <3>1, <3>2, <3>5, LifeOfOne, LifeIsLifeOf
    <3> QED BY <2>1, <2>2, <3>6 DEF Promise!Next, Promise!Close
  <2>5. CASE ~\E h \in Shells : shell[h] = "running"
    <3>1. \A g \in Shells : e[g] = shell[g]
      BY <1>0, <2>5, StopStops DEF EndTerminal
    <3> HIDE DEF e
    <3>2. \A g \in Shells : shell'[g] = shell[g]
      BY <1>0, <2>1, <2>3, <2>5, <3>1, StopStops
    <3>3. Life' = Life /\ Life # "live"
      BY <2>5, <3>2, LifeIsLifeOf DEF LifeOf
    <3> QED BY <2>1, <2>2, <3>3 DEF Promise!Next, Promise!Close
  <2> QED BY <2>4, <2>5
<1> QED BY <1>2, <1>3, <1>4, <1>5, <1>6, <1>7, <1>8, <1>9 DEF Next

\* docs/architecture.md, "A terminal outlives its WebSocket": whatever races the code allows, a
\* session starts as the promise has it, and every step from a state before which no two openings
\* overlapped and no close arrived in the midst of an opening is a step the promise allows, or one
\* it does not see.  From the first of those two races on (terminals.ts opens without looking again)
\* nothing is claimed.
THEOREM KeepsTheSafetyOfThePromise ==
  Spec => /\ Promise!Init
          /\ [][raced \cap {"overlap", "closeWhileOpening"} = {} => [Promise!Next]_Promise!vars]_vars
<1>1. Init => Promise!Init
  <2> SUFFICES ASSUME Init PROVE Promise!Init
    OBVIOUS
  <2>1. Life = "unopened"
    BY LifeOfNone, LifeIsLifeOf DEF Init
  <2>2. Attached = FALSE /\ closed = FALSE
    BY DEF Init, Attached
  <2> QED BY <2>1, <2>2 DEF Promise!Init
<1>2. raced \cap {"overlap", "closeWhileOpening"} = {} =>
        /\ OneShellInvariant => OneShellParts
        /\ WelcomeInvariant => WelcomeParts
  BY DEF OneShellInvariant, WelcomeInvariant
<1>3. /\ TypeOK /\ Waiting /\ OneShellInvariant /\ WelcomeInvariant /\ [Next]_vars
      => [raced \cap {"overlap", "closeWhileOpening"} = {} => [Promise!Next]_Promise!vars]_vars
  <2> SUFFICES ASSUME TypeOK, Waiting, OneShellInvariant, WelcomeInvariant, Next,
                      raced \cap {"overlap", "closeWhileOpening"} = {}
               PROVE  [Promise!Next]_Promise!vars
    OBVIOUS
  <2> QED BY <1>2, StepKeepsThePromise DEF Promise!vars
<1> QED BY <1>1, <1>3, TypeCorrect, WaitingInductive, OneShellInductive, WelcomeInductive, PTL DEF Spec

\* A behaviour in which neither race happens keeps the whole safety of the promise: the safety half
\* of KeepsThePromise, for every number of sockets, of shells and of bytes.
COROLLARY KeepsThePromiseUnlessRaced ==
  Spec /\ [](raced \cap {"overlap", "closeWhileOpening"} = {}) => Promise!Spec
<1>1. /\ raced \cap {"overlap", "closeWhileOpening"} = {}
      /\ [raced \cap {"overlap", "closeWhileOpening"} = {} => [Promise!Next]_Promise!vars]_vars
      => [Promise!Next]_Promise!vars
  BY NothingShows DEF vars, Promise!vars
<1> QED BY <1>1, KeepsTheSafetyOfThePromise, PTL DEF Promise!Spec

-----------------------------------------------------------------------------
(* The records of the sessions these terminals belong to: SessionRecords,    *)
(* for any number of sessions and of concurrent lookers, and any races.      *)

\* Every record of a session, on either side, keeps its type.
THEOREM RowsTypeCorrect == RowsSpec => []RowsTypeOK
<1>1. RowsInit => RowsTypeOK
  BY DEF RowsInit, RowsTypeOK, Relayed, Direct, Open, Ended, ApiStates, ConsoleStates,
       AppStates, Reports
<1>2. RowsTypeOK /\ [RowsNext]_rowVars => RowsTypeOK'
  <2> SUFFICES ASSUME RowsTypeOK, [RowsNext]_rowVars PROVE RowsTypeOK'
    OBVIOUS
  <2> USE DEF RowsTypeOK, clientVars, directVars, listVars, Relayed, Direct, Open, Ended,
       ApiStates, ConsoleStates, AppStates, Reports
  <2>1. ASSUME NEW r \in Rows, AskGateway(r) PROVE RowsTypeOK'
    BY <2>1 DEF AskGateway
  <2>2. ASSUME NEW r \in Rows, GatewayOpens(r) PROVE RowsTypeOK'
    BY <2>2 DEF GatewayOpens
  <2>3. ASSUME NEW r \in Rows, GatewayRefuses(r) PROVE RowsTypeOK'
    BY <2>3 DEF GatewayRefuses
  <2>4. ASSUME NEW r \in Rows, GatewayAnswers(r) PROVE RowsTypeOK'
    BY <2>4 DEF GatewayAnswers
  <2>5. ASSUME NEW r \in Rows, GatewayFails(r) PROVE RowsTypeOK'
    BY <2>5 DEF GatewayFails, RowRace
  <2>6. ASSUME NEW r \in Rows, CreateRow(r) PROVE RowsTypeOK'
    BY <2>6 DEF CreateRow
  <2>7. ASSUME NEW r \in Rows, RecordFailure(r) PROVE RowsTypeOK'
    BY <2>7 DEF RecordFailure
  <2>8. ASSUME NEW r \in Rows, InsertFails(r) PROVE RowsTypeOK'
    BY <2>8 DEF InsertFails, RowRace
  <2>9. ASSUME NEW r \in Rows, ShowSession(r) PROVE RowsTypeOK'
    BY <2>9 DEF ShowSession, GatewaySessionId
  <2>10. ASSUME NEW r \in Rows, AttachTerminal(r) PROVE RowsTypeOK'
    BY <2>10 DEF AttachTerminal
  <2>11. ASSUME NEW r \in Rows, PageGoes(r) PROVE RowsTypeOK'
    BY <2>11 DEF PageGoes, RowRace
  <2>12. ASSUME NEW r \in Rows, CloseTab(r) PROVE RowsTypeOK'
    BY <2>12 DEF CloseTab
  <2>13. ASSUME NEW r \in Rows, CloseInGateway(r) PROVE RowsTypeOK'
    BY <2>13 DEF CloseInGateway, EndGatewaySession
  <2>14. ASSUME NEW r \in Rows, CloseCallFails(r) PROVE RowsTypeOK'
    BY <2>14 DEF CloseCallFails, RowRace
  <2>15. ASSUME NEW r \in Rows, CloseRow(r) PROVE RowsTypeOK'
    BY <2>15 DEF CloseRow
  <2>16. ASSUME NEW r \in Rows, FarEndGoes(r) PROVE RowsTypeOK'
    BY <2>16 DEF FarEndGoes
  <2>17. ASSUME NEW r \in Rows, GraceElapses(r) PROVE RowsTypeOK'
    BY <2>17 DEF GraceElapses, FarEndGoes
  <2>18. ASSUME NEW r \in Rows, LeaseFor(r) PROVE RowsTypeOK'
    BY <2>18 DEF LeaseFor
  <2>19. ASSUME NEW r \in Rows, Connects(r) PROVE RowsTypeOK'
    BY <2>19 DEF Connects, Report
  <2>20. ASSUME NEW r \in Rows, ConnectionFails(r) PROVE RowsTypeOK'
    BY <2>20 DEF ConnectionFails, Report
  <2>21. ASSUME NEW r \in Rows, FilesClose(r) PROVE RowsTypeOK'
    BY <2>21 DEF FilesClose, Report, RowRace
  <2>22. ASSUME NEW r \in Rows, Disconnects(r) PROVE RowsTypeOK'
    BY <2>22 DEF Disconnects, Report
  <2>23. ASSUME NEW r \in Rows, AppGoes(r) PROVE RowsTypeOK'
    BY <2>23 DEF AppGoes, RowRace
  <2>24. ASSUME NEW r \in Rows, NEW state \in Reports, HandleReport(r,
       state) \/ LoseReport(r, state)
         PROVE  RowsTypeOK'
    BY <2>24 DEF HandleReport, LoseReport, RowRace, Status
  <2>25. ASSUME NEW l \in Lists, ListGateway(l) PROVE RowsTypeOK'
    BY <2>25 DEF ListGateway, LiveGatewaySessionIds, Live
  <2>26. ASSUME NEW l \in Lists, CloseStaleRows(l) PROVE RowsTypeOK'
    BY <2>26 DEF CloseStaleRows, StaleRows
  <2>27. CASE GatewayRestarts
    BY <2>27 DEF GatewayRestarts
  <2>28. CASE UNCHANGED rowVars
    BY <2>28 DEF rowVars
  <2> HIDE DEF RowsTypeOK, clientVars, directVars, listVars, Relayed, Direct, Open, Ended,
       ApiStates, ConsoleStates, AppStates, Reports
  <2> QED
    BY <2>1, <2>2, <2>3, <2>4, <2>5, <2>6, <2>7, <2>8, <2>9, <2>10, <2>11, <2>12, <2>13,
         <2>14, <2>15, <2>16, <2>17, <2>18, <2>19, <2>20, <2>21, <2>22, <2>23, <2>24, <2>25,
         <2>26, <2>27, <2>28 DEF RowsNext, Handle, Happen
<1> QED BY <1>1, <1>2, PTL DEF RowsSpec

-----------------------------------------------------------------------------
(* What the gateway holds is listed.                                         *)

\* A session is either relayed, and none of the application's, or direct, and
\* none of the gateway's.
EachToItsOwn ==
  \A x \in Rows :
    IF kind[x] \in Relayed THEN app[x] = "none" /\ reports[x] = {}
    ELSE gateway[x] = "none" /\ api[x] = "idle" /\ console[x] = "none" /\ closing[x] = "idle"

\* A session has a row, is shown and is closed only once the API has answered.
ShownIsAnswered ==
  \A x \in Rows :
    kind[x] \in Relayed /\ (row[x] # "none" \/ console[x] = "open" \/ closing[x] # "idle")
      => api[x] = "done"

\* An opening that fails after the gateway held the session has lost the answer,
\* and a close marks the row of a session that is over or that it could not end.
OpenedIsAnswered ==
  \A x \in Rows : api[x] = "failing" /\ gateway[x] # "none" => "answerLost" \in touched[x]
CloseMarksTheEnded ==
  \A x \in Rows : closing[x] = "called" => gateway[x] = "over" \/ "closeCallFails" \in touched[x]

\* A session already opened when the list was heard and not on it is over.
UnlistedIsOver ==
  \A l \in Lists : \A listed \in seen[l] : \A x \in known[l] \ listed : gateway[x] = "over"

ListingInv ==
  /\ RowsTypeOK /\ EachToItsOwn /\ ShownIsAnswered /\ OpenedIsAnswered /\ CloseMarksTheEnded /\ UnlistedIsOver
  /\ LiveIsListedUnlessRaced

\* desktop/.../runtime: a direct session's reports come in one order, and the
\* last of them says how it ended.
ReportsSoFar(x) ==
  /\ app[x] \in {"none", "dialling"} => reports[x] = {}
  /\ app[x] = "up" => reports[x] \subseteq {"opened"}
  /\ app[x] = "ended" => reports[x] \subseteq {"opened", "closed"}
LastWord(x) ==
  Untouched(x, {"reportLost", "reordered", "closeAfterFailure"}) =>
    /\ app[x] = "ended" => "closed" \in reports[x] \/ (reports[x] = {} /\ row[x] = "CLOSED")
    /\ app[x] = "failed" => reports[x] = {"failed"} \/ (reports[x] = {} /\ row[x] = "FAILED")
ReportInv == RowsTypeOK /\ EachToItsOwn /\ \A x \in Rows : ReportsSoFar(x) /\ LastWord(x)

LEMMA EachToItsOwnKept ==
  ASSUME RowsTypeOK, EachToItsOwn, [RowsNext]_rowVars
  PROVE  EachToItsOwn'
<1> USE DEF RowsTypeOK, EachToItsOwn, clientVars, directVars, listVars, Relayed, Direct
<1>1. ASSUME NEW r \in Rows, AskGateway(r) PROVE EachToItsOwn'
  BY <1>1 DEF AskGateway
<1>2. ASSUME NEW r \in Rows, GatewayOpens(r) PROVE EachToItsOwn'
  BY <1>2 DEF GatewayOpens
<1>3. ASSUME NEW r \in Rows, GatewayRefuses(r) PROVE EachToItsOwn'
  BY <1>3 DEF GatewayRefuses
<1>4. ASSUME NEW r \in Rows, GatewayAnswers(r) PROVE EachToItsOwn'
  BY <1>4 DEF GatewayAnswers
<1>5. ASSUME NEW r \in Rows, GatewayFails(r) PROVE EachToItsOwn'
  BY <1>5 DEF GatewayFails, RowRace
<1>6. ASSUME NEW r \in Rows, CreateRow(r) PROVE EachToItsOwn'
  BY <1>6 DEF CreateRow
<1>7. ASSUME NEW r \in Rows, RecordFailure(r) PROVE EachToItsOwn'
  BY <1>7 DEF RecordFailure
<1>8. ASSUME NEW r \in Rows, InsertFails(r) PROVE EachToItsOwn'
  BY <1>8 DEF InsertFails, RowRace
<1>9. ASSUME NEW r \in Rows, ShowSession(r) PROVE EachToItsOwn'
  BY <1>9 DEF ShowSession, GatewaySessionId
<1>10. ASSUME NEW r \in Rows, AttachTerminal(r) PROVE EachToItsOwn'
  BY <1>10 DEF AttachTerminal
<1>11. ASSUME NEW r \in Rows, PageGoes(r) PROVE EachToItsOwn'
  BY <1>11 DEF PageGoes, RowRace
<1>12. ASSUME NEW r \in Rows, CloseTab(r) PROVE EachToItsOwn'
  BY <1>12 DEF CloseTab
<1>13. ASSUME NEW r \in Rows, CloseInGateway(r) PROVE EachToItsOwn'
  BY <1>13 DEF CloseInGateway, EndGatewaySession
<1>14. ASSUME NEW r \in Rows, CloseCallFails(r) PROVE EachToItsOwn'
  BY <1>14 DEF CloseCallFails, RowRace
<1>15. ASSUME NEW r \in Rows, CloseRow(r) PROVE EachToItsOwn'
  BY <1>15 DEF CloseRow
<1>16. ASSUME NEW r \in Rows, FarEndGoes(r) PROVE EachToItsOwn'
  BY <1>16 DEF FarEndGoes
<1>17. ASSUME NEW r \in Rows, GraceElapses(r) PROVE EachToItsOwn'
  BY <1>17 DEF GraceElapses, FarEndGoes
<1>18. ASSUME NEW r \in Rows, LeaseFor(r) PROVE EachToItsOwn'
  BY <1>18 DEF LeaseFor
<1>19. ASSUME NEW r \in Rows, Connects(r) PROVE EachToItsOwn'
  BY <1>19 DEF Connects, Report
<1>20. ASSUME NEW r \in Rows, ConnectionFails(r) PROVE EachToItsOwn'
  BY <1>20 DEF ConnectionFails, Report
<1>21. ASSUME NEW r \in Rows, FilesClose(r) PROVE EachToItsOwn'
  BY <1>21 DEF FilesClose, Report, RowRace
<1>22. ASSUME NEW r \in Rows, Disconnects(r) PROVE EachToItsOwn'
  BY <1>22 DEF Disconnects, Report
<1>23. ASSUME NEW r \in Rows, AppGoes(r) PROVE EachToItsOwn'
  BY <1>23 DEF AppGoes, RowRace
<1>24. ASSUME NEW r \in Rows, NEW state \in Reports, HandleReport(r,
     state) \/ LoseReport(r, state)
       PROVE  EachToItsOwn'
  <2>1. kind[r] \notin Relayed
    BY <1>24 DEF HandleReport, LoseReport
  <2>2. UNCHANGED <<kind, app, gateway, api, console, closing>>
    BY <1>24 DEF HandleReport, LoseReport
  <2>3. reports' = [reports EXCEPT ![r] = @ \ {state}]
    BY <1>24 DEF HandleReport, LoseReport
  <2> QED BY <2>1, <2>2, <2>3
<1>25. ASSUME NEW l \in Lists,
     ListGateway(l) \/ CloseStaleRows(l) PROVE EachToItsOwn'
  BY <1>25 DEF ListGateway, CloseStaleRows
<1>26. CASE GatewayRestarts \/ UNCHANGED rowVars
  BY <1>26 DEF GatewayRestarts, rowVars, Live
<1> QED
  BY <1>1, <1>2, <1>3, <1>4, <1>5, <1>6, <1>7, <1>8, <1>9, <1>10, <1>11, <1>12, <1>13, <1>14,
       <1>15, <1>16, <1>17, <1>18, <1>19, <1>20, <1>21, <1>22, <1>23, <1>24, <1>25,
       <1>26 DEF RowsNext, Handle, Happen

LEMMA ShownIsAnsweredKept ==
  ASSUME RowsTypeOK, EachToItsOwn, ShownIsAnswered, [RowsNext]_rowVars
  PROVE  ShownIsAnswered'
<1> USE DEF RowsTypeOK, EachToItsOwn, ShownIsAnswered, clientVars, directVars, listVars,
     Relayed, Direct
<1>1. ASSUME NEW r \in Rows, AskGateway(r) PROVE ShownIsAnswered'
  BY <1>1 DEF AskGateway
<1>2. ASSUME NEW r \in Rows, GatewayOpens(r) PROVE ShownIsAnswered'
  BY <1>2 DEF GatewayOpens
<1>3. ASSUME NEW r \in Rows, GatewayRefuses(r) PROVE ShownIsAnswered'
  BY <1>3 DEF GatewayRefuses
<1>4. ASSUME NEW r \in Rows, GatewayAnswers(r) PROVE ShownIsAnswered'
  BY <1>4 DEF GatewayAnswers
<1>5. ASSUME NEW r \in Rows, GatewayFails(r) PROVE ShownIsAnswered'
  BY <1>5 DEF GatewayFails, RowRace
<1>6. ASSUME NEW r \in Rows, CreateRow(r) PROVE ShownIsAnswered'
  BY <1>6 DEF CreateRow
<1>7. ASSUME NEW r \in Rows, RecordFailure(r) PROVE ShownIsAnswered'
  BY <1>7 DEF RecordFailure
<1>8. ASSUME NEW r \in Rows, InsertFails(r) PROVE ShownIsAnswered'
  BY <1>8 DEF InsertFails, RowRace
<1>9. ASSUME NEW r \in Rows, ShowSession(r) PROVE ShownIsAnswered'
  BY <1>9 DEF ShowSession, GatewaySessionId
<1>10. ASSUME NEW r \in Rows, AttachTerminal(r) PROVE ShownIsAnswered'
  BY <1>10 DEF AttachTerminal
<1>11. ASSUME NEW r \in Rows, PageGoes(r) PROVE ShownIsAnswered'
  BY <1>11 DEF PageGoes, RowRace
<1>12. ASSUME NEW r \in Rows, CloseTab(r) PROVE ShownIsAnswered'
  BY <1>12 DEF CloseTab
<1>13. ASSUME NEW r \in Rows, CloseInGateway(r) PROVE ShownIsAnswered'
  BY <1>13 DEF CloseInGateway, EndGatewaySession
<1>14. ASSUME NEW r \in Rows, CloseCallFails(r) PROVE ShownIsAnswered'
  BY <1>14 DEF CloseCallFails, RowRace
<1>15. ASSUME NEW r \in Rows, CloseRow(r) PROVE ShownIsAnswered'
  BY <1>15 DEF CloseRow
<1>16. ASSUME NEW r \in Rows, FarEndGoes(r) PROVE ShownIsAnswered'
  BY <1>16 DEF FarEndGoes
<1>17. ASSUME NEW r \in Rows, GraceElapses(r) PROVE ShownIsAnswered'
  BY <1>17 DEF GraceElapses, FarEndGoes
<1>18. ASSUME NEW r \in Rows, LeaseFor(r) PROVE ShownIsAnswered'
  BY <1>18 DEF LeaseFor
<1>19. ASSUME NEW r \in Rows, Connects(r) PROVE ShownIsAnswered'
  BY <1>19 DEF Connects, Report
<1>20. ASSUME NEW r \in Rows, ConnectionFails(r) PROVE ShownIsAnswered'
  BY <1>20 DEF ConnectionFails, Report
<1>21. ASSUME NEW r \in Rows, FilesClose(r) PROVE ShownIsAnswered'
  BY <1>21 DEF FilesClose, Report, RowRace
<1>22. ASSUME NEW r \in Rows, Disconnects(r) PROVE ShownIsAnswered'
  BY <1>22 DEF Disconnects, Report
<1>23. ASSUME NEW r \in Rows, AppGoes(r) PROVE ShownIsAnswered'
  BY <1>23 DEF AppGoes, RowRace
<1>24. ASSUME NEW r \in Rows, NEW state \in Reports, HandleReport(r,
     state) \/ LoseReport(r, state)
       PROVE  ShownIsAnswered'
  <2>1. kind[r] \notin Relayed
    BY <1>24 DEF HandleReport, LoseReport
  <2>2. UNCHANGED <<kind, api, console, closing>>
    BY <1>24 DEF HandleReport, LoseReport
  <2>3. row' = row \/ row' = [row EXCEPT ![r] = Status(state)]
    BY <1>24 DEF HandleReport, LoseReport
  <2>4. \A x \in Rows : x # r => row'[x] = row[x]
    BY <2>3
  <2> QED BY <2>1, <2>2, <2>4
<1>25. ASSUME NEW l \in Lists, ListGateway(l) PROVE ShownIsAnswered'
  BY <1>25 DEF ListGateway
<1>26. ASSUME NEW l \in Lists, CloseStaleRows(l) PROVE ShownIsAnswered'
  <2>1. UNCHANGED <<kind, api, console, closing>>
    BY <1>26 DEF CloseStaleRows
  <2>2. \A x \in Rows : row'[x] = row[x] \/ row[x] # "none"
    BY <1>26 DEF CloseStaleRows, StaleRows, GatewaySessionId
  <2> QED BY <2>1, <2>2
<1>27. CASE GatewayRestarts \/ UNCHANGED rowVars
  BY <1>27 DEF GatewayRestarts, rowVars
<1> QED
  BY <1>1, <1>2, <1>3, <1>4, <1>5, <1>6, <1>7, <1>8, <1>9, <1>10, <1>11, <1>12, <1>13, <1>14,
       <1>15, <1>16, <1>17, <1>18, <1>19, <1>20, <1>21, <1>22, <1>23, <1>24, <1>25, <1>26,
       <1>27 DEF RowsNext, Handle, Happen

LEMMA ListingKept ==
  ASSUME ListingInv, RowsTypeOK', EachToItsOwn', ShownIsAnswered', [RowsNext]_rowVars
  PROVE  ListingInv'
<1> SUFFICES OpenedIsAnswered' /\ CloseMarksTheEnded' /\ UnlistedIsOver' /\ LiveIsListedUnlessRaced'
  BY DEF ListingInv
<1> USE DEF ListingInv, RowsTypeOK, EachToItsOwn, ShownIsAnswered, OpenedIsAnswered,
     CloseMarksTheEnded, UnlistedIsOver, LiveIsListedUnlessRaced, Untouched, clientVars,
     directVars, listVars, Relayed, Direct
<1>1. ASSUME NEW r \in Rows, AskGateway(r)
      PROVE  OpenedIsAnswered' /\ CloseMarksTheEnded' /\ UnlistedIsOver' /\ LiveIsListedUnlessRaced'
  BY <1>1 DEF AskGateway
<1>2. ASSUME NEW r \in Rows, GatewayOpens(r)
      PROVE  OpenedIsAnswered' /\ CloseMarksTheEnded' /\ UnlistedIsOver' /\ LiveIsListedUnlessRaced'
  BY <1>2 DEF GatewayOpens
<1>3. ASSUME NEW r \in Rows, GatewayRefuses(r)
      PROVE  OpenedIsAnswered' /\ CloseMarksTheEnded' /\ UnlistedIsOver' /\ LiveIsListedUnlessRaced'
  BY <1>3 DEF GatewayRefuses
<1>4. ASSUME NEW r \in Rows, GatewayAnswers(r)
      PROVE  OpenedIsAnswered' /\ CloseMarksTheEnded' /\ UnlistedIsOver' /\ LiveIsListedUnlessRaced'
  BY <1>4 DEF GatewayAnswers
<1>5. ASSUME NEW r \in Rows, GatewayFails(r)
      PROVE  OpenedIsAnswered' /\ CloseMarksTheEnded' /\ UnlistedIsOver' /\ LiveIsListedUnlessRaced'
  BY <1>5 DEF GatewayFails, RowRace
<1>6. ASSUME NEW r \in Rows, CreateRow(r)
      PROVE  OpenedIsAnswered' /\ CloseMarksTheEnded' /\ UnlistedIsOver' /\ LiveIsListedUnlessRaced'
  BY <1>6 DEF CreateRow
<1>7. ASSUME NEW r \in Rows, RecordFailure(r)
      PROVE  OpenedIsAnswered' /\ CloseMarksTheEnded' /\ UnlistedIsOver' /\ LiveIsListedUnlessRaced'
  BY <1>7 DEF RecordFailure
<1>8. ASSUME NEW r \in Rows, InsertFails(r)
      PROVE  OpenedIsAnswered' /\ CloseMarksTheEnded' /\ UnlistedIsOver' /\ LiveIsListedUnlessRaced'
  <2>1. /\ UNCHANGED <<kind, row, gateway, closing, seen, known>>
        /\ api' = [api EXCEPT ![r] = "done"] /\ touched' = [touched EXCEPT ![r] = @ \cup {"insertFails"}]
    BY <1>8 DEF InsertFails, RowRace
  <2>2. OpenedIsAnswered' /\ CloseMarksTheEnded' /\ UnlistedIsOver'
    BY <2>1
  <2>3. \A x \in Rows : /\ x # r => api'[x] = api[x] /\ touched'[x] = touched[x]
                        /\ x = r => "insertFails" \in touched'[x]
    BY <2>1
  <2>4. ASSUME NEW x \in Rows, gateway'[x] = "live", api'[x] = "done",
               Untouched(x, {"listedBefore", "answerLost", "insertFails",
                    "closeCallFails"})'
        PROVE  row'[x] = "ACTIVE"
    <3>1. x # r
      BY <2>3, <2>4
    <3>2. gateway[x] = "live" /\ api[x] = "done" /\ touched'[x] = touched[x] /\ row'[x] = row[x]
      BY <2>1, <2>3, <2>4, <3>1
    <3> QED BY <2>4, <3>2
  <2> QED BY <2>2, <2>4
<1>9. ASSUME NEW r \in Rows, ShowSession(r)
      PROVE  OpenedIsAnswered' /\ CloseMarksTheEnded' /\ UnlistedIsOver' /\ LiveIsListedUnlessRaced'
  BY <1>9 DEF ShowSession, GatewaySessionId
<1>10. ASSUME NEW r \in Rows, AttachTerminal(r)
      PROVE  OpenedIsAnswered' /\ CloseMarksTheEnded' /\ UnlistedIsOver' /\ LiveIsListedUnlessRaced'
  BY <1>10 DEF AttachTerminal
<1>11. ASSUME NEW r \in Rows, PageGoes(r)
      PROVE  OpenedIsAnswered' /\ CloseMarksTheEnded' /\ UnlistedIsOver' /\ LiveIsListedUnlessRaced'
  BY <1>11 DEF PageGoes, RowRace
<1>12. ASSUME NEW r \in Rows, CloseTab(r)
      PROVE  OpenedIsAnswered' /\ CloseMarksTheEnded' /\ UnlistedIsOver' /\ LiveIsListedUnlessRaced'
  BY <1>12 DEF CloseTab
<1>13. ASSUME NEW r \in Rows, CloseInGateway(r)
      PROVE  OpenedIsAnswered' /\ CloseMarksTheEnded' /\ UnlistedIsOver' /\ LiveIsListedUnlessRaced'
  <2>1. /\ UNCHANGED <<kind, row, api, seen, known, touched>>
        /\ gateway' = [gateway EXCEPT ![r] = "over"] /\ closing' = [closing EXCEPT ![r] = "called"]
        /\ closing[r] = "asked"
    BY <1>13 DEF CloseInGateway, EndGatewaySession
  <2>2. OpenedIsAnswered' /\ CloseMarksTheEnded'
    BY <2>1
  <2>3. \A x \in Rows : gateway'[x] = IF x = r THEN "over" ELSE gateway[x]
    BY <2>1
  <2>4. UnlistedIsOver'
    BY <2>1, <2>3
  <2>5. ASSUME NEW x \in Rows, gateway'[x] = "live", api'[x] = "done",
               Untouched(x, {"listedBefore", "answerLost", "insertFails",
                    "closeCallFails"})'
        PROVE  row'[x] = "ACTIVE"
    <3>1. x # r
      BY <2>3, <2>5
    <3>2. gateway[x] = "live" /\ api[x] = "done" /\ touched'[x] = touched[x] /\ row'[x] = row[x]
      BY <2>1, <2>3, <2>5, <3>1
    <3> QED BY <2>5, <3>2
  <2> QED BY <2>2, <2>4, <2>5
<1>14. ASSUME NEW r \in Rows, CloseCallFails(r)
      PROVE  OpenedIsAnswered' /\ CloseMarksTheEnded' /\ UnlistedIsOver' /\ LiveIsListedUnlessRaced'
  BY <1>14 DEF CloseCallFails, RowRace
<1>15. ASSUME NEW r \in Rows, CloseRow(r)
      PROVE  OpenedIsAnswered' /\ CloseMarksTheEnded' /\ UnlistedIsOver' /\ LiveIsListedUnlessRaced'
  BY <1>15 DEF CloseRow
<1>16. ASSUME NEW r \in Rows, FarEndGoes(r)
      PROVE  OpenedIsAnswered' /\ CloseMarksTheEnded' /\ UnlistedIsOver' /\ LiveIsListedUnlessRaced'
  BY <1>16 DEF FarEndGoes
<1>17. ASSUME NEW r \in Rows, GraceElapses(r)
      PROVE  OpenedIsAnswered' /\ CloseMarksTheEnded' /\ UnlistedIsOver' /\ LiveIsListedUnlessRaced'
  BY <1>17 DEF GraceElapses, FarEndGoes
<1>18. ASSUME NEW r \in Rows, LeaseFor(r)
      PROVE  OpenedIsAnswered' /\ CloseMarksTheEnded' /\ UnlistedIsOver' /\ LiveIsListedUnlessRaced'
  BY <1>18 DEF LeaseFor
<1>19. ASSUME NEW r \in Rows, Connects(r)
      PROVE  OpenedIsAnswered' /\ CloseMarksTheEnded' /\ UnlistedIsOver' /\ LiveIsListedUnlessRaced'
  BY <1>19 DEF Connects, Report
<1>20. ASSUME NEW r \in Rows, ConnectionFails(r)
      PROVE  OpenedIsAnswered' /\ CloseMarksTheEnded' /\ UnlistedIsOver' /\ LiveIsListedUnlessRaced'
  BY <1>20 DEF ConnectionFails, Report
<1>21. ASSUME NEW r \in Rows, FilesClose(r)
      PROVE  OpenedIsAnswered' /\ CloseMarksTheEnded' /\ UnlistedIsOver' /\ LiveIsListedUnlessRaced'
  BY <1>21 DEF FilesClose, Report, RowRace
<1>22. ASSUME NEW r \in Rows, Disconnects(r)
      PROVE  OpenedIsAnswered' /\ CloseMarksTheEnded' /\ UnlistedIsOver' /\ LiveIsListedUnlessRaced'
  BY <1>22 DEF Disconnects, Report
<1>23. ASSUME NEW r \in Rows, AppGoes(r)
      PROVE  OpenedIsAnswered' /\ CloseMarksTheEnded' /\ UnlistedIsOver' /\ LiveIsListedUnlessRaced'
  BY <1>23 DEF AppGoes, RowRace
<1>24. ASSUME NEW r \in Rows, NEW state \in Reports, HandleReport(r,
     state) \/ LoseReport(r, state)
       PROVE  OpenedIsAnswered' /\ CloseMarksTheEnded' /\ UnlistedIsOver' /\ LiveIsListedUnlessRaced'
  <2>1. kind[r] \notin Relayed
    BY <1>24 DEF HandleReport, LoseReport
  <2>2. /\ UNCHANGED <<kind, gateway, api, closing, seen, known>>
        /\ \A x \in Rows : x # r => row'[x] = row[x]
        /\ \A x \in Rows : touched[x] \subseteq touched'[x]
    BY <1>24 DEF HandleReport, LoseReport, RowRace
  <2> QED BY <2>1, <2>2
<1>25. ASSUME NEW l \in Lists, ListGateway(l)
       PROVE  OpenedIsAnswered' /\ CloseMarksTheEnded' /\ UnlistedIsOver' /\ LiveIsListedUnlessRaced'
  BY <1>25 DEF ListGateway, LiveGatewaySessionIds, Live
<1>26. ASSUME NEW l \in Lists, CloseStaleRows(l)
       PROVE  OpenedIsAnswered' /\ CloseMarksTheEnded' /\ UnlistedIsOver' /\ LiveIsListedUnlessRaced'
  <2>1. PICK listed \in seen[l] :
          LET stale == StaleRows(listed)
              late == stale \ known[l]
          IN  /\ touched' = [x \in Rows |-> touched[x] \cup IF x \in late THEN {"listedBefore"} ELSE {}]
              /\ row' = [x \in Rows |-> IF x \in stale THEN "CLOSED" ELSE row[x]]
    BY <1>26 DEF CloseStaleRows
  <2>2. /\ UNCHANGED <<kind, gateway, api, closing>>
        /\ seen' = [seen EXCEPT ![l] = {}] /\ known' = [known EXCEPT ![l] = {}]
        /\ \A x \in Rows : touched[x] \subseteq touched'[x]
    BY <1>26, <2>1 DEF CloseStaleRows
  <2>3. OpenedIsAnswered' /\ CloseMarksTheEnded' /\ UnlistedIsOver'
    BY <2>2
  <2>4. \A x \in Rows : row'[x] = row[x] \/ gateway[x] = "over" \/ "listedBefore" \in touched'[x]
    <3> TAKE x \in Rows
    <3>1. CASE x \in StaleRows(listed) \ known[l]
      BY <2>1, <3>1
    <3>2. CASE x \in StaleRows(listed) /\ x \in known[l]
      BY <2>1, <3>2 DEF StaleRows
    <3>3. CASE x \notin StaleRows(listed)
      BY <2>1, <3>3
    <3> QED BY <3>1, <3>2, <3>3
  <2>5. LiveIsListedUnlessRaced'
    BY <2>2, <2>4
  <2> QED BY <2>3, <2>5
<1>27. CASE GatewayRestarts \/ UNCHANGED rowVars
  BY <1>27 DEF GatewayRestarts, rowVars, Live
<1> QED
  BY <1>1, <1>2, <1>3, <1>4, <1>5, <1>6, <1>7, <1>8, <1>9, <1>10, <1>11, <1>12, <1>13, <1>14,
       <1>15, <1>16, <1>17, <1>18, <1>19, <1>20, <1>21, <1>22, <1>23, <1>24, <1>25, <1>26,
       <1>27 DEF RowsNext, Handle, Happen

\* A session the gateway holds is one the API lists as open: nobody is told that
\* a session is over while it runs, and nothing runs that no row can close.
THEOREM LiveIsListedHolds == RowsSpec => []LiveIsListedUnlessRaced
<1>1. RowsInit => EachToItsOwn /\ (RowsTypeOK => ListingInv)
  BY DEF RowsInit, ListingInv, EachToItsOwn, ShownIsAnswered, OpenedIsAnswered,
       CloseMarksTheEnded, UnlistedIsOver, LiveIsListedUnlessRaced, Relayed, Direct
<1>2. ListingInv /\ RowsTypeOK' /\ [RowsNext]_rowVars => ListingInv'
  BY EachToItsOwnKept, ShownIsAnsweredKept, ListingKept DEF ListingInv
<1>3. ListingInv => LiveIsListedUnlessRaced
  BY DEF ListingInv
<1> QED BY <1>1, <1>2, <1>3, RowsTypeCorrect, PTL DEF RowsSpec

LEMMA ReportsKept ==
  ASSUME ReportInv, RowsTypeOK', EachToItsOwn', [RowsNext]_rowVars, NEW x \in Rows
  PROVE  ReportsSoFar(x)' /\ LastWord(x)'
<1> USE DEF ReportsSoFar, LastWord, Untouched, clientVars, directVars, listVars
<1>0. /\ ReportsSoFar(x) /\ LastWord(x) /\ EachToItsOwn
      /\ row \in [Rows -> {"none"} \cup Open \cup Ended] /\ app \in [Rows -> AppStates]
      /\ reports \in [Rows -> SUBSET Reports] /\ touched \in [Rows -> SUBSET RowRaces]
  BY DEF ReportInv, RowsTypeOK
<1>1. ASSUME UNCHANGED <<app, reports>>, row'[x] = row[x], touched[x] \subseteq touched'[x]
      PROVE  ReportsSoFar(x)' /\ LastWord(x)'
  BY <1>0, <1>1
<1>2. ASSUME NEW r \in Rows,
             \/ AskGateway(r) \/ GatewayOpens(r) \/ GatewayRefuses(r) \/ GatewayAnswers(r)
             \/ ShowSession(r) \/ AttachTerminal(r) \/ CloseTab(r) \/ CloseInGateway(r)
             \/ FarEndGoes(r) \/ GraceElapses(r)
      PROVE  ReportsSoFar(x)' /\ LastWord(x)'
  BY <1>1, <1>2 DEF AskGateway, GatewayOpens, GatewayRefuses, GatewayAnswers, ShowSession,
       AttachTerminal, CloseTab, CloseInGateway, FarEndGoes, GraceElapses
<1>3. ASSUME NEW r \in Rows,
             GatewayFails(r) \/ InsertFails(r) \/ PageGoes(r) \/ CloseCallFails(r)
      PROVE  ReportsSoFar(x)' /\ LastWord(x)'
  <2>1. UNCHANGED <<app, reports, row>> /\ touched[x] \subseteq touched'[x]
    BY <1>0, <1>3 DEF GatewayFails, InsertFails, PageGoes, CloseCallFails, RowRace
  <2> QED BY <1>1, <2>1
<1>4. ASSUME NEW r \in Rows, CreateRow(r) \/ RecordFailure(r) \/ CloseRow(r)
      PROVE  ReportsSoFar(x)' /\ LastWord(x)'
  <2>1. app[r] = "none"
    BY <1>0, <1>4 DEF CreateRow, RecordFailure, CloseRow, EachToItsOwn
  <2>2. UNCHANGED <<app, reports, touched>> /\ (x # r => row'[x] = row[x])
    BY <1>0, <1>4 DEF CreateRow, RecordFailure, CloseRow
  <2> QED BY <1>0, <2>1, <2>2
<1>5. ASSUME NEW r \in Rows,
     LeaseFor(r) \/ Connects(r) \/ ConnectionFails(r) \/ FilesClose(r)
                             \/ Disconnects(r) \/ AppGoes(r)
      PROVE  ReportsSoFar(x)' /\ LastWord(x)'
  <2>1. CASE x # r
    <3>1. app'[x] = app[x] /\ reports'[x] = reports[x] /\ row'[x] = row[x] /\ touched'[x] = touched[x]
      BY <1>0, <1>5, <2>1 DEF LeaseFor, Connects, ConnectionFails, FilesClose, Disconnects,
           AppGoes, Report, RowRace
    <3> QED BY <1>0, <3>1
  <2>2. CASE x = r /\ LeaseFor(r)
    BY <1>0, <2>2 DEF LeaseFor
  <2>3. CASE x = r /\ Connects(r)
    BY <1>0, <2>3 DEF Connects, Report
  <2>4. CASE x = r /\ ConnectionFails(r)
    BY <1>0, <2>4 DEF ConnectionFails, Report
  <2>5. CASE x = r /\ FilesClose(r)
    BY <1>0, <2>5 DEF FilesClose, Report, RowRace
  <2>6. CASE x = r /\ Disconnects(r)
    BY <1>0, <2>6 DEF Disconnects, Report
  <2>7. CASE x = r /\ AppGoes(r)
    BY <1>0, <2>7 DEF AppGoes, RowRace
  <2> QED BY <1>5, <2>1, <2>2, <2>3, <2>4, <2>5, <2>6, <2>7
<1>6. ASSUME NEW r \in Rows, NEW state \in Reports, HandleReport(r,
     state) \/ LoseReport(r, state)
      PROVE  ReportsSoFar(x)' /\ LastWord(x)'
  <2>1. CASE x # r
    <3>1. app'[x] = app[x] /\ reports'[x] = reports[x] /\ row'[x] = row[x] /\ touched'[x] = touched[x]
      BY <1>0, <1>6, <2>1 DEF HandleReport, LoseReport, RowRace
    <3> QED BY <1>0, <3>1
  <2>2. CASE x = r /\ HandleReport(r, state)
    <3>1. /\ state \in reports[x] /\ reports'[x] = reports[x] \ {state} /\ row'[x] = Status(state)
          /\ app' = app /\ touched[x] \subseteq touched'[x]
          /\ reports[x] \cap EarlierThan(state) # {} => "reordered" \in touched'[x]
      BY <1>0, <2>2 DEF HandleReport, RowRace
    <3>2. ReportsSoFar(x)'
      BY <1>0, <3>1
    <3>3. LastWord(x)'
      BY <1>0, <3>1 DEF Status, EarlierThan, Reports
    <3> QED BY <3>2, <3>3
  <2>3. CASE x = r /\ LoseReport(r, state)
    <3>1. /\ reports'[x] = reports[x] \ {state} /\ app' = app /\ "reportLost" \in touched'[x]
      BY <1>0, <2>3 DEF LoseReport, RowRace
    <3> QED BY <1>0, <3>1
  <2> QED BY <1>6, <2>1, <2>2, <2>3
<1>7. ASSUME NEW l \in Lists, ListGateway(l)
      PROVE  ReportsSoFar(x)' /\ LastWord(x)'
  BY <1>1, <1>7 DEF ListGateway
<1>8. ASSUME NEW l \in Lists, CloseStaleRows(l)
      PROVE  ReportsSoFar(x)' /\ LastWord(x)'
  <2>1. UNCHANGED <<app, reports>> /\ touched[x] \subseteq touched'[x]
    BY <1>8 DEF CloseStaleRows
  <2>2. row'[x] = row[x] \/ kind[x] \in Relayed
    BY <1>8 DEF CloseStaleRows, StaleRows, GatewaySessionId
  <2> QED BY <1>0, <2>1, <2>2 DEF EachToItsOwn
<1>9. CASE GatewayRestarts \/ UNCHANGED rowVars
  BY <1>1, <1>9 DEF GatewayRestarts, rowVars
<1> QED
  BY <1>2, <1>3, <1>4, <1>5, <1>6, <1>7, <1>8, <1>9 DEF RowsNext, Handle, Happen

\* desktop.ts:632: once the application has said all it has to say of a direct
\* session, the row is closed if the session had opened and failed if it had not.
THEOREM SaysHowItEndedHolds == RowsSpec => []SaysHowItEndedUnlessRaced
<1>1. RowsInit /\ RowsTypeOK => ReportInv
  BY DEF RowsInit, ReportInv, EachToItsOwn, ReportsSoFar, LastWord, Relayed, Direct
<1>2. ReportInv /\ RowsTypeOK' /\ [RowsNext]_rowVars => ReportInv'
  <2> SUFFICES ASSUME ReportInv, RowsTypeOK', [RowsNext]_rowVars PROVE ReportInv'
    OBVIOUS
  <2>1. EachToItsOwn'
    BY EachToItsOwnKept DEF ReportInv
  <2> QED BY <2>1, ReportsKept DEF ReportInv
<1>3. ReportInv => SaysHowItEndedUnlessRaced
  BY DEF ReportInv, LastWord, SaysHowItEndedUnlessRaced
<1> QED BY <1>1, <1>2, <1>3, RowsTypeCorrect, PTL DEF RowsSpec

=============================================================================
