------------------------------ MODULE Terminals ------------------------------
(***************************************************************************)
(* The life of one terminal session inside the gateway.                    *)
(*                                                                         *)
(* apps/gateway/src/terminals.ts keeps a shell alive independently of the  *)
(* browser socket reading it; routes.ts opens, reattaches and closes it;   *)
(* protocols/{ssh-connections,local,agent}.ts make the shell.  All their   *)
(* maps are keyed by the session id and no operation looks at two ids, so  *)
(* one session is modelled.                                                *)
(*                                                                         *)
(* JavaScript runs a callback to completion: one action is one stretch of  *)
(* code between two awaits (or one event listener).  The only await inside *)
(* the terminal handler is the opening of the shell, hence StartOpening    *)
(* and OpenSucceeds / OpenFails.                                           *)
(***************************************************************************)
EXTENDS Integers, Sequences, FiniteSets

CONSTANTS
  Sockets,      \* browser WebSockets that may come to this session
  Shells,       \* shells that may be started for it
  NoSocket,     \* null
  NoShell,      \* undefined: nothing stored under the session id
  MaxOutput,    \* bound: chunks one shell prints
  MaxBacklog,   \* MAX_BACKLOG_BYTES, counted in chunks
  Races         \* which of the races below may happen

(* The four ways in which something can slip between two steps of the code.  *)
\* "overlap": a second socket arrives while a first is still opening a shell.
\* "dropWhileOpening": a socket's close event fires while its shell is opening.
\* "closeWhileOpening": POST /sessions/:id/close arrives during an opening.
\* "outputWhileDying": the shell prints while the attached socket is no longer
\*   open but its close event has not fired yet.
AllRaces == {"overlap", "dropWhileOpening", "closeWhileOpening", "outputWhileDying"}

ASSUME NoSocketAssumption == NoSocket \notin Sockets
ASSUME NoShellAssumption == NoShell \notin Shells
ASSUME BoundsAssumption == MaxOutput \in Nat /\ MaxBacklog \in Nat \ {0}
ASSUME RacesAssumption == Races \subseteq AllRaces

VARIABLES
  transport,  \* "ssh", "local" or "agent": fixed when the session is created
  status,     \* GatewaySession.status
  client,     \* the ssh2 client; in sshClients iff "connecting" or "ready"
  sock,       \* readyState of each browser socket
  pumped,     \* sockets whose close listener leads to detachSocket
  pc,         \* where the terminal route is for each socket
  shell,      \* each shell, seen from the gateway
  term,       \* the LiveTerminal object made for each shell
  terminals,  \* terminals.get(id): the shell whose LiveTerminal is registered
  shells,     \* shells.get(id) of the local or agent transport
  raced,      \* history: the races of Races that have happened
  closed,     \* history: POST /sessions/:id/close was called
  made,       \* history: chunks each shell has printed
  accounted   \* history: the chunks 1..accounted[h] were shown, or announced as dropped

vars == <<transport, status, client, sock, pumped, pc, shell, term,
          terminals, shells, raced, closed, made, accounted>>

\* A shell is "ending" between the gateway's end() and its exit event; an
\* agent shell goes straight to "ended" because Channel.end() swallows the
\* event.  "exited" means the far end ended it first.
ShellStates == {"none", "running", "ending", "ended", "exited"}

Chunks == 1 .. MaxOutput

Backlogs == {b \in Seq(Chunks) : Len(b) <= MaxBacklog}

LiveTerminal == [socket : Sockets \cup {NoSocket}, backlog : Backlogs,
                 truncated : BOOLEAN, exited : BOOLEAN, grace : BOOLEAN]

FreshTerminal(s) == [socket |-> s, backlog |-> <<>>, truncated |-> FALSE,
                     exited |-> FALSE, grace |-> FALSE]

-----------------------------------------------------------------------------
(* Helpers: what the shared functions of the gateway do to one part of the   *)
(* state.  A definition named ...Bug is a plausible mistake in the one after *)
(* it, kept to show that the properties notice it; no specification uses it. *)

\* The session is over: the terminal route opens nothing for it any more.
SessionOverBug == FALSE
SessionOver == status \in {"closed", "failed"}

\* The shell behind a terminal has gone, which leaves only its last words.
SpentBug(t) == FALSE
Spent(t) == t.exited

SshHeld == client \in {"connecting", "ready"}

\* stream.end() on every shell of H.
Stop(sh, H) ==
  [h \in Shells |-> IF h \in H /\ sh[h] = "running"
                    THEN IF transport = "agent" THEN "ended" ELSE "ending"
                    ELSE sh[h]]

\* The shells that dispose() ends: it goes by the session id, so it ends
\* whatever the transport holds under that id, not the shell it was made for.
Disposable(map) ==
  IF transport = "ssh" THEN IF SshHeld THEN Shells ELSE {}
                       ELSE {map} \cap Shells

DisposedClient == IF SshHeld THEN "ending" ELSE client

\* What the local or agent transport holds once it has opened shell h.
Stored(h) == IF transport = "ssh" THEN NoShell ELSE h

\* The shell as it is handed over: over a client already ended, it is doomed.
Opened(h) == [shell EXCEPT ![h] = IF client = "ending" THEN "ending" ELSE "running"]

\* socket.close() where the code checks for OPEN first.
HangUpBug(so, s) == so
HangUp(so, s) ==
  [x \in Sockets |-> IF x = s /\ so[x] = "open" THEN "closing" ELSE so[x]]

\* endTerminal: the shells it leaves, given what the transport map holds.
EndTerminal(sh, map) ==
  IF terminals = NoShell THEN sh
  ELSE Stop(sh, (IF Spent(term[terminals]) THEN {} ELSE {terminals}) \cup Disposable(map))

\* endTerminal: the sockets it leaves.
EndTerminalSockets ==
  IF terminals = NoShell THEN sock ELSE HangUp(sock, term[terminals].socket)

\* clearGrace on the registered terminal.
EndTerminalTermsBug == term
EndTerminalTerms ==
  IF terminals = NoShell THEN term ELSE [term EXCEPT ![terminals].grace = FALSE]

\* If the condition holds, the step is race r: it must be allowed, and is noted.
Race(r, condition) ==
  IF condition THEN r \in Races /\ raced' = raced \cup {r} ELSE UNCHANGED raced

\* remember: append, then drop the oldest past the limit, but never the last.
RememberSilentlyBug(t, chunk) ==
  LET all == Append(t.backlog, chunk)
  IN  [t EXCEPT !.backlog = IF Len(all) > MaxBacklog THEN Tail(all) ELSE all]
Remember(t, chunk) ==
  LET all == Append(t.backlog, chunk)
      kept == IF Len(all) > MaxBacklog THEN Tail(all) ELSE all
  IN  [t EXCEPT !.backlog = kept, !.truncated = @ \/ Len(all) > MaxBacklog]

-----------------------------------------------------------------------------
\* POST /sessions has just answered.
Init ==
  /\ transport \in {"ssh", "local", "agent"}
  /\ status = IF transport = "ssh" THEN "pending" ELSE "active"
  /\ client = IF transport = "ssh" THEN "connecting" ELSE "none"
  /\ sock = [s \in Sockets |-> "new"]
  /\ pumped = {}
  /\ pc = [s \in Sockets |-> "idle"]
  /\ shell = [h \in Shells |-> "none"]
  /\ term = [h \in Shells |-> FreshTerminal(NoSocket)]
  /\ terminals = NoShell
  /\ shells = NoShell
  /\ raced = {}
  /\ closed = FALSE
  /\ made = [h \in Shells |-> 0]
  /\ accounted = [h \in Shells |-> 0]

-----------------------------------------------------------------------------
(* The ssh2 client of an SSH session.                                        *)

SshReady ==
  /\ client = "connecting"
  /\ client' = "ready"
  /\ status' = "active"
  /\ UNCHANGED <<transport, sock, pumped, pc, shell, term, terminals, shells,
                 closed, made, accounted, raced>>

SshError ==
  /\ client \in {"connecting", "ready", "ending"}
  /\ client' = "failed"
  /\ status' = "failed"
  /\ UNCHANGED <<transport, sock, pumped, pc, shell, term, terminals, shells,
                 closed, made, accounted, raced>>

\* The channels' own close events follow as Exit.
SshClosed ==
  /\ client \in {"connecting", "ready", "ending", "failed"}
  /\ client' = "gone"
  /\ status' = "closed"
  /\ UNCHANGED <<transport, sock, pumped, pc, shell, term, terminals, shells,
                 closed, made, accounted, raced>>

-----------------------------------------------------------------------------
(* A browser socket reaches /ws/ssh/:sessionId.                              *)

\* attachSocket finds a live terminal: the previous reader is sent away, the
\* backlog goes to the newcomer, and an exited terminal is let go for good.
Reattach(s) ==
  /\ sock[s] = "new"
  /\ terminals # NoShell
  /\ LET t == term[terminals]
         arrived == HangUp([sock EXCEPT ![s] = "open"], t.socket)
     IN  /\ term' = [term EXCEPT ![terminals] =
                       [t EXCEPT !.socket = s, !.backlog = <<>>,
                                 !.truncated = FALSE, !.grace = FALSE]]
         /\ accounted' = [accounted EXCEPT ![terminals] =
                            IF t.backlog # <<>> /\ (t.truncated \/ Head(t.backlog) = @ + 1)
                            THEN made[terminals] ELSE @]
         /\ IF Spent(t)
            THEN /\ terminals' = NoShell
                 /\ shell' = Stop(shell, Disposable(shells))
                 /\ client' = DisposedClient
                 /\ shells' = NoShell
                 /\ sock' = HangUp(arrived, s)
                 /\ UNCHANGED pumped
            ELSE /\ sock' = arrived
                 /\ pumped' = pumped \cup {s}
                 /\ UNCHANGED <<terminals, shell, client, shells>>
  /\ pc' = [pc EXCEPT ![s] = "done"]
  /\ UNCHANGED <<transport, status, closed, made, raced>>

\* No terminal, and the session is over or its ssh client is: waitForSshReady
\* and openShell reject at once.
Refuse(s) ==
  /\ sock[s] = "new"
  /\ terminals = NoShell
  /\ SessionOver \/ (transport = "ssh" /\ ~SshHeld)
  /\ sock' = [sock EXCEPT ![s] = "closing"]
  /\ pc' = [pc EXCEPT ![s] = "done"]
  /\ UNCHANGED <<transport, status, client, pumped, shell, term, terminals,
                 shells, closed, made, accounted, raced>>

\* Up to the await of openAgentShell, openLocalShell or openShellStream.
StartOpening(s) ==
  /\ sock[s] = "new"
  /\ terminals = NoShell
  /\ ~SessionOver
  /\ transport = "ssh" => SshHeld
  /\ Race("overlap", \E x \in Sockets : pc[x] = "opening")
  /\ sock' = [sock EXCEPT ![s] = "open"]
  /\ pc' = [pc EXCEPT ![s] = "opening"]
  /\ UNCHANGED <<transport, status, client, pumped, shell, term, terminals,
                 shells, closed, made, accounted>>

\* After the await: the transport stores the shell, registerTerminal ends
\* whatever is registered and takes the new shell, pumpSocketInput listens.
\* An answer already on the wire when the client was ended still counts.
OpenSucceeds(s, h) ==
  /\ pc[s] = "opening"
  /\ shell[h] = "none"
  /\ transport = "ssh" => client \in {"ready", "ending"}
  /\ shell' = EndTerminal(Opened(h), Stored(h))
  /\ shells' = IF terminals = NoShell THEN Stored(h) ELSE NoShell
  /\ client' = IF terminals = NoShell THEN client ELSE DisposedClient
  /\ sock' = EndTerminalSockets
  /\ term' = [EndTerminalTerms EXCEPT ![h] = FreshTerminal(s)]
  /\ terminals' = h
  /\ pumped' = IF sock[s] = "closed" THEN pumped ELSE pumped \cup {s}
  /\ pc' = [pc EXCEPT ![s] = "done"]
  /\ UNCHANGED <<transport, status, closed, made, accounted, raced>>

\* The await throws: failSession.
OpenFails(s) ==
  /\ pc[s] = "opening"
  /\ transport = "ssh" => client # "connecting"
  /\ pc' = [pc EXCEPT ![s] = "done"]
  /\ sock' = HangUp(sock, s)
  /\ UNCHANGED <<transport, status, client, pumped, shell, term, terminals,
                 shells, closed, made, accounted, raced>>

-----------------------------------------------------------------------------
(* A browser socket goes away.                                               *)

\* A close frame arrives, or keepSocketAlive terminates a silent socket.
PeerCloses(s) ==
  /\ sock[s] = "open"
  /\ sock' = [sock EXCEPT ![s] = "closing"]
  /\ UNCHANGED <<transport, status, client, pumped, pc, shell, term, terminals,
                 shells, closed, made, accounted, raced>>

\* detachSocket for the socket on record: the shell waits on a countdown.
DetachEndsShellBug ==
  /\ term' = [term EXCEPT ![terminals].socket = NoSocket, ![terminals].grace = TRUE]
  /\ shell' = Stop(shell, {terminals})
  /\ UNCHANGED <<terminals, client, shells, status>>
DetachWithoutTimerBug ==
  /\ term' = [term EXCEPT ![terminals].socket = NoSocket]
  /\ UNCHANGED <<terminals, shell, client, shells, status>>
Detach ==
  IF Spent(term[terminals])
  THEN /\ term' = [term EXCEPT ![terminals].socket = NoSocket, ![terminals].grace = FALSE]
       /\ terminals' = NoShell
       /\ shell' = Stop(shell, Disposable(shells))
       /\ client' = DisposedClient
       /\ shells' = NoShell
       /\ status' = "closed"
  ELSE /\ term' = [term EXCEPT ![terminals].socket = NoSocket, ![terminals].grace = TRUE]
       /\ UNCHANGED <<terminals, shell, client, shells, status>>

\* The socket's close event, which only a pumped socket passes on.
CloseEvent(s) ==
  /\ sock[s] = "closing"
  /\ Race("dropWhileOpening", pc[s] = "opening")
  /\ sock' = [sock EXCEPT ![s] = "closed"]
  /\ IF s \in pumped /\ terminals # NoShell /\ term[terminals].socket = s
     THEN Detach
     ELSE UNCHANGED <<term, terminals, shell, client, shells, status>>
  /\ UNCHANGED <<transport, pumped, pc, closed, made, accounted>>

-----------------------------------------------------------------------------
(* The shell.                                                                *)

Dying(s) == s \in Sockets /\ sock[s] # "open"

\* The stream's data listener: to the socket on record, else to the backlog.
\* What is sent to a socket that is not open goes nowhere.
Output(h) ==
  /\ shell[h] \in {"running", "ending"}
  /\ made[h] < MaxOutput
  /\ Race("outputWhileDying", terminals = h /\ Dying(term[h].socket))
  /\ made' = [made EXCEPT ![h] = @ + 1]
  /\ LET s == term[h].socket
     IN  IF s = NoSocket
         THEN /\ term' = [term EXCEPT ![h] = Remember(@, made[h] + 1)]
              /\ UNCHANGED accounted
         ELSE /\ accounted' = [accounted EXCEPT ![h] =
                                 IF sock[s] = "open" /\ @ = made[h] THEN @ + 1 ELSE @]
              /\ UNCHANGED term
  /\ UNCHANGED <<transport, status, client, sock, pumped, pc, shell, terminals,
                 shells, closed>>

\* The exit event.  The transport's listener runs first (shells.delete, status),
\* then the terminal's, which deletes the entry of the session id.
Exit(h) ==
  /\ shell[h] \in {"running", "ending"}
  /\ LET gone == [shell EXCEPT ![h] = IF @ = "running" THEN "exited" ELSE "ended"]
         map  == NoShell
     IN  /\ shells' = map
         /\ IF term[h].socket # NoSocket
            THEN /\ term' = [term EXCEPT ![h].exited = TRUE, ![h].grace = FALSE]
                 /\ sock' = HangUp(sock, term[h].socket)
                 /\ terminals' = NoShell
                 /\ shell' = Stop(gone, Disposable(map))
                 /\ client' = DisposedClient
            ELSE /\ term' = [term EXCEPT ![h].exited = TRUE]
                 /\ shell' = gone
                 /\ UNCHANGED <<sock, terminals, client>>
  /\ status' = IF transport = "ssh" THEN status ELSE "closed"
  /\ UNCHANGED <<transport, pumped, pc, closed, made, accounted, raced>>

\* The timer of detachSocket fires.
GraceFires(h) ==
  /\ term[h].grace
  /\ term' = [term EXCEPT ![h].grace = FALSE]
  /\ terminals' = NoShell
  /\ shell' = Stop(shell, {h} \cup Disposable(shells))
  /\ client' = DisposedClient
  /\ shells' = NoShell
  /\ status' = "closed"
  /\ UNCHANGED <<transport, sock, pumped, pc, closed, made, accounted, raced>>

\* POST /sessions/:sessionId/close.
CloseSession ==
  /\ Race("closeWhileOpening", \E s \in Sockets : pc[s] = "opening")
  /\ shell' = Stop(EndTerminal(shell, shells), Disposable(shells))
  /\ sock' = EndTerminalSockets
  /\ term' = EndTerminalTerms
  /\ terminals' = NoShell
  /\ client' = DisposedClient
  /\ shells' = NoShell
  /\ status' = "closed"
  /\ closed' = TRUE
  /\ UNCHANGED <<transport, pumped, pc, made, accounted>>

-----------------------------------------------------------------------------
Next ==
  \/ SshReady \/ SshError \/ SshClosed \/ CloseSession
  \/ \E s \in Sockets :
       \/ Reattach(s) \/ Refuse(s) \/ StartOpening(s) \/ OpenFails(s)
       \/ PeerCloses(s) \/ CloseEvent(s)
       \/ \E h \in Shells : OpenSucceeds(s, h)
  \/ \E h \in Shells : Output(h) \/ Exit(h) \/ GraceFires(h)

Spec == Init /\ [][Next]_vars

-----------------------------------------------------------------------------
(* Fairness: what the gateway and its libraries always get round to.  A      *)
(* browser is never obliged to connect, nor a shell to exit on its own.      *)

\* An opening is settled: ssh2 answers (or its readyTimeout does), the agent
\* answers or OPEN_TIMEOUT_MS passes, a local spawn returns.
Settle(s) == OpenFails(s) \/ \E h \in Shells : OpenSucceeds(s, h)

\* The handshake ends one way or the other, and an ended client closes.
SshSettles == SshReady \/ SshError \/ (client # "ready" /\ SshClosed)

\* A killed process, or a channel whose connection is gone, does exit.
DoomedExits(h) == (shell[h] = "ending" \/ client = "gone") /\ Exit(h)

Fairness ==
  /\ WF_vars(SshSettles)
  /\ \A s \in Sockets : WF_vars(Settle(s)) /\ WF_vars(CloseEvent(s))
  /\ \A h \in Shells : WF_vars(DoomedExits(h)) /\ WF_vars(GraceFires(h))

FairSpec == Spec /\ Fairness

-----------------------------------------------------------------------------
TypeOK ==
  /\ transport \in {"ssh", "local", "agent"}
  /\ status \in {"pending", "active", "closed", "failed"}
  /\ client \in {"none", "connecting", "ready", "ending", "failed", "gone"}
  /\ sock \in [Sockets -> {"new", "open", "closing", "closed"}]
  /\ pumped \in SUBSET Sockets
  /\ pc \in [Sockets -> {"idle", "opening", "done"}]
  /\ shell \in [Shells -> ShellStates]
  /\ term \in [Shells -> LiveTerminal]
  /\ terminals \in Shells \cup {NoShell}
  /\ shells \in Shells \cup {NoShell}
  /\ raced \in SUBSET Races
  /\ closed \in BOOLEAN
  /\ made \in [Shells -> Nat]
  /\ accounted \in [Shells -> Nat]

(* Each property below names the races that break it: as long as none of     *)
(* those has happened, it holds, whatever others have.                       *)

GraceIsRight == \A h \in Shells : term[h].grace <=> terminals = h /\ term[h].socket = NoSocket
OnlyShell == \A h, g \in Shells : shell[h] # "none" /\ shell[g] # "none" => h = g

\* A countdown runs for exactly the registered terminals nobody is attached
\* to: every path that takes a terminal over, ends it or drops it also clears
\* its timer, so a late timer can never end a terminal someone came back to.
GraceIffUnattended ==
  "overlap" \notin raced => GraceIsRight

\* The last words of a shell that exited are kept only while nobody reads
\* them, and then on a countdown: an exited terminal never stays attached.
LastWordsOnCountdown ==
  terminals # NoShell /\ term[terminals].exited => term[terminals].grace

\* The registered terminal can still be used, or still has last words to tell:
\* no browser is ever reattached to a shell the gateway itself has ended.
EntryIsAlive ==
  raced \cap {"overlap", "closeWhileOpening"} = {} /\ terminals # NoShell =>
    \/ shell[terminals] = "running"
    \/ shell[terminals] = "exited" /\ term[terminals].exited

\* terminals.ts:214: two sockets on one session would be "two keyboards on one
\* shell".  A connected browser whose typing is pumped is the one, and the only
\* one, the registered terminal sends its output to.
NoDeafSocket ==
  "overlap" \notin raced =>
    \A s \in pumped : sock[s] = "open" =>
      terminals # NoShell /\ term[terminals].socket = s

\* What the gateway has registered is of use to whoever comes for it.
RegisteredIsSound == LastWordsOnCountdown /\ EntryIsAlive /\ NoDeafSocket

\* A session starts one shell in its life; whoever comes back, whenever, finds
\* that one or is told that it is over (routes.ts:774).
OneShell ==
  "overlap" \notin raced => OnlyShell

\* routes.ts:603: a terminal "must not survive somebody deciding the session
\* is over", nor appear after it.  Of three overlapping openings the last can
\* lose its entry to the exit of the first two, and nothing ends it any more.
Over == terminals = NoShell /\ \A h \in Shells : shell[h] # "running"
ClosedMeansOverUnlessRaced ==
  closed /\ raced \cap {"overlap", "closeWhileOpening"} = {} => Over

\* The chunks 1..told were told, and t has the rest of 1..all to tell, in order
\* and whole, or else with a word that the oldest of it was dropped.
Told(t, told, all) ==
  /\ \A i \in 1 .. Len(t.backlog) : t.backlog[i] = all - Len(t.backlog) + i
  /\ \/ told + Len(t.backlog) = all
     \/ Len(t.backlog) > 0 /\ t.truncated /\ told + Len(t.backlog) < all

\* "Handed the same shell plus everything it missed": each chunk of the
\* registered shell was shown, is in the backlog in order, or is older than a
\* backlog that says it was truncated.
NothingMissed ==
  "outputWhileDying" \notin raced /\ terminals # NoShell =>
    Told(term[terminals], accounted[terminals], made[terminals])

\* docs/architecture.md:172: besides the far end, only a deliberate close or an
\* elapsed grace period ends a shell.
StopsForAReason ==
  \A h \in Shells :
    shell[h] = "running" /\ shell'[h] \in {"ending", "ended"} =>
      closed' \/ (terminals = h /\ term[h].grace)

EndsForAReasonUnlessRaced == []["overlap" \notin raced => StopsForAReason]_vars

\* Why the properties above hold as long as no opening overlapped another.
OneOpener == \A s, x \in Sockets : pc[s] = "opening" /\ pc[x] = "opening" => s = x
FirstOpening == \A s \in Sockets, h \in Shells : pc[s] = "opening" => shell[h] = "none"
RunningIsRegistered == \A h \in Shells : shell[h] = "running" => terminals = h
RegisteredIsMade == terminals # NoShell => shell[terminals] # "none"
ExitedHasExited == \A h \in Shells : term[h].exited => shell[h] \in {"exited", "ended"}
NothingBeforeReady ==
  /\ client = "connecting" => \A h \in Shells : shell[h] = "none"
  /\ transport # "ssh" => client = "none"
\* Once its shell is let go of, the session will not open another.
LetGoIsOver ==
  \A h \in Shells :
    \/ shell[h] # "none" /\ terminals = NoShell
    \/ transport # "ssh" /\ term[h].exited
    => SessionOver \/ (transport = "ssh" /\ ~SshHeld)

OneShellParts ==
  /\ OneOpener /\ FirstOpening /\ OnlyShell /\ RunningIsRegistered
  /\ RegisteredIsMade /\ ExitedHasExited /\ NothingBeforeReady /\ LetGoIsOver
  /\ GraceIsRight

OneShellInvariant == "overlap" \notin raced => OneShellParts

\* The session's one shell in the terms of ShellLife.
Life ==
  IF \E h \in Shells : shell[h] = "running" THEN "live"
  ELSE IF \E h \in Shells : shell[h] = "exited" THEN "exited"
  ELSE IF \E h \in Shells : shell[h] # "none" THEN "ended"
  ELSE "unopened"

Attached == terminals # NoShell /\ term[terminals].socket # NoSocket

Promise == INSTANCE ShellLife WITH life <- Life, attached <- Attached

\* The gateway keeps the documented promise, expiry included: "what stops a
\* browser that is never coming back from leaving a login open"
\* (docs/architecture.md:174).
KeepsThePromise == Promise!FairSpec

=============================================================================
