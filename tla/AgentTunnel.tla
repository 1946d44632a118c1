---------------------------- MODULE AgentTunnel ----------------------------
(***************************************************************************)
(* The tunnel between the gateway and one enrolled machine.                *)
(*                                                                         *)
(* apps/gateway/src/agents/registry.ts keeps an AgentDevice per machine,   *)
(* with a Channel per terminal; apps/agent/src/tunnel.ts dials out and     *)
(* apps/agent/src/channels.ts keeps the ptys.  When a connection drops the *)
(* agent holds its ptys for a grace period, the gateway holds its channels *)
(* for its own, and a reconnection re-issues open-shell for each channel:  *)
(* for a channel id the agent holds, open-shell means "resume".            *)
(*                                                                         *)
(* Each end runs its callbacks to completion.  A connection is a pair of   *)
(* FIFO queues; either end may see it close at any moment, whatever was    *)
(* still to be read being lost, and the other end may notice much later:   *)
(* that is a dropped network, a heartbeat timeout, or a closing handshake. *)
(***************************************************************************)
EXTENDS Integers, Sequences, FiniteSets

CONSTANTS
  Shells,     \* calls of AgentDevice.openShell, each with the Channel it makes
  Ptys,       \* processes the agent may have at a time
  NoShell, NoPty,
  MaxConns,   \* bound: connections accepted in the machine's life
  MaxStray,   \* bound: superseded timers of one pty
  Races,      \* which of the races below may happen
  MaxRaces    \* bound: how many different ones in one behaviour

(* The ways in which the two ends may disagree, each a coincidence the code *)
(* does not exclude.                                                        *)
\* "retryFails": a dial fails while ptys are held, so they are detached twice.
\* "spawnAcrossDrop": the agent's connection goes while a pty is being spawned.
\* "closeWhileSpawning": a close or kill arrives while a pty is being spawned.
\* "restart": the gateway restarts.
\* "expiry": the gateway gives up on a machine that still holds a pty, or will.
\* "lostClose": a close or kill frame never reaches the agent.
\* "abandonedOpen": openShell gives up on an answer, or loses its connection.
\* "kill": the device is disconnected by the API.
\* "lateExit": a killed process exits after its channel id went to another.
\* "staleSocket": a frame is read from a connection already replaced, or a
\*   terminal opened over one that has not said hello yet.
\* "sameTick": opened and exit are read in one tick.
AllRaces == {"retryFails", "spawnAcrossDrop", "closeWhileSpawning", "restart",
             "expiry", "lostClose", "abandonedOpen", "kill", "lateExit", "staleSocket", "sameTick"}

ASSUME NoValueAssumption == NoShell \notin Shells /\ NoPty \notin Ptys
ASSUME FiniteAssumption == IsFiniteSet(Shells) /\ IsFiniteSet(Ptys)
ASSUME BoundsAssumption == MaxConns \in Nat /\ MaxStray \in Nat /\ MaxRaces \in Nat
ASSUME RacesAssumption == Races \subseteq AllRaces

VARIABLES
  conn,      \* each connection: its two ends and what travels on it
  tunnel,    \* AgentTunnel.socket: a connection, or 0
  devices,   \* devices.get(deviceId): an AgentDevice, or 0
  device,    \* the AgentDevice objects, each named by the connection it was made for
  shell,     \* each call of openShell, seen from the gateway
  channels,  \* ChannelManager.channels: the pty held under each channel id
  pty,       \* each process of the agent, with its Channel record
  raced      \* history: the races of Races that have happened

vars == <<conn, tunnel, devices, device, shell, channels, pty, raced>>

Conns == 1 .. MaxConns
ChannelIds == 1 .. Cardinality(Shells)

\* A frame names its channel; "for" is the openShell call it is about, which
\* the code does not know: history.
Frames == [t : {"open", "close", "kill", "hello", "opened", "error", "exit"},
           ch : 0 .. Cardinality(Shells), for : Shells \cup {NoShell}]
Frame(t, ch, s) == [t |-> t, ch |-> ch, for |-> s]

Unused == [agent |-> "unused", gateway |-> "none", toAgent |-> <<>>,
           toGateway |-> <<>>, device |-> 0]
FreshDeviceBug(c) == [socket |-> c, hello |-> 0, next |-> 0, grace |-> FALSE]
FreshDevice(c) == [socket |-> c, hello |-> 0, next |-> 1, grace |-> FALSE]
FreePty == [state |-> "free", ch |-> 0, attached |-> FALSE, timer |-> FALSE,
            stray |-> 0, owner |-> NoShell, bound |-> NoShell]
UnopenedShell == [state |-> "idle", device |-> 0, ch |-> 0, listed |-> FALSE]

\* The step is the races of R: they must be allowed, and are noted.
Note(R) ==
  /\ R \subseteq Races /\ Cardinality(raced \cup R) <= MaxRaces
  /\ raced' = raced \cup R
Mark(r, condition) == IF condition THEN {r} ELSE {}

-----------------------------------------------------------------------------
(* Helpers of the gateway.                                                   *)

\* AgentDevice.send: only over an open socket.  What is sent to a peer that is
\* gone is lost.
SendToAgent(net, c, f) ==
  IF c # 0 /\ net[c].gateway = "open" /\ net[c].agent # "closed"
  THEN [net EXCEPT ![c].toAgent = Append(@, f)] ELSE net

\* AgentDevice.channels of device d.
Listed(d) == {s \in Shells : shell[s].listed /\ shell[s].device = d}

\* A device none of whose terminals waits for it is not kept.
DesertedBug(d) == TRUE
Deserted(d) == Listed(d) = {}

\* Connection c is the one its device uses: nothing newer has replaced it.
CurrentBug(c) == TRUE
Current(c) == device[conn[c].device].socket = c

Online(d) == device[d].socket # 0 /\ device[d].hello # 0

\* emitExit on the channels of S, which the device then forgets.  An opening
\* channel has no listener yet: its openShell call still waits for an answer.
EndChannelsBug(S) ==
  [s \in Shells |-> IF s \in S THEN [shell[s] EXCEPT !.listed = FALSE] ELSE shell[s]]
EndChannels(S) ==
  [s \in Shells |->
     IF s \in S THEN [shell[s] EXCEPT !.listed = FALSE,
                                      !.state = IF @ = "open" THEN "over" ELSE @]
                ELSE shell[s]]

\* The close of a socket from the gateway's side.
Closing(net, c) ==
  IF c # 0 /\ net[c].gateway = "open" THEN [net EXCEPT ![c].gateway = "closing"] ELSE net

\* open-shell again for every listed channel of device d, in order of id.
ListedIds(d) == {shell[s].ch : s \in Listed(d)}
InOrder(I) == {q \in [1 .. Cardinality(I) -> I] : \A i, j \in DOMAIN q : i < j => q[i] < q[j]}
ResumeFrames(d, ids) ==
  [i \in DOMAIN ids |-> Frame("open", ids[i], CHOOSE s \in Listed(d) : shell[s].ch = ids[i])]
ResumeChannelsBug(net, d, ids) == net
ResumeChannels(net, d, ids) ==
  LET c == device[d].socket
  IN  IF c # 0 /\ net[c].gateway = "open" /\ net[c].agent # "closed"
      THEN [net EXCEPT ![c].toAgent = @ \o ResumeFrames(d, ids)] ELSE net

-----------------------------------------------------------------------------
(* Helpers of the agent.                                                     *)

\* AgentTunnel.send: over the socket in use, if it is open.
SendToGateway(net, f) ==
  IF tunnel # 0 /\ net[tunnel].agent = "open" /\ net[tunnel].gateway # "closed"
  THEN [net EXCEPT ![tunnel].toGateway = Append(@, f)] ELSE net

Held == {channels[i] : i \in ChannelIds} \ {NoPty}

\* forget(ch): whatever is held under the id, its timer is cleared.
Disarm(ps, ch) ==
  IF channels[ch] = NoPty THEN ps ELSE [ps EXCEPT ![channels[ch]].timer = FALSE]

Kill(ps, P) ==
  [p \in Ptys |-> IF p \in P /\ ps[p].state = "alive"
                  THEN [ps[p] EXCEPT !.state = "killed"] ELSE ps[p]]

\* A process that has exited, once none of its timers is left.
Reaped(ps) ==
  [p \in Ptys |-> IF ps[p].state = "dead" /\ ps[p].stray = 0 /\ ~ps[p].timer
                  THEN FreePty ELSE ps[p]]

\* detachAll: a new timer for every held pty; one that was still running is
\* overwritten, not cleared, so it runs on.
DetachAllBug ==
  [p \in Ptys |-> IF p \in Held THEN [pty[p] EXCEPT !.attached = FALSE] ELSE pty[p]]
DetachAll ==
  [p \in Ptys |->
     IF p \in Held
     THEN [pty[p] EXCEPT !.attached = FALSE, !.timer = TRUE,
                         !.stray = IF pty[p].timer THEN @ + 1 ELSE @]
     ELSE pty[p]]

\* onDisconnected.
Disconnected(R) ==
  /\ \A p \in Held : pty[p].timer => pty[p].stray < MaxStray
  /\ tunnel' = 0
  /\ pty' = DetachAll
  /\ Note(R \cup Mark("retryFails", \E p \in Held : pty[p].timer)
            \cup Mark("spawnAcrossDrop", \E p \in Ptys : pty[p].state = "spawning"))

-----------------------------------------------------------------------------
Init ==
  /\ conn = [c \in Conns |-> Unused]
  /\ tunnel = 0
  /\ devices = 0
  /\ device = [c \in Conns |-> FreshDevice(0)]
  /\ shell = [s \in Shells |-> UnopenedShell]
  /\ channels = [i \in ChannelIds |-> NoPty]
  /\ pty = [p \in Ptys |-> FreePty]
  /\ raced = {}

-----------------------------------------------------------------------------
(* The connection, agent side.                                               *)

\* connect.
Dial(c) ==
  /\ tunnel = 0
  /\ conn[c].agent = "unused"
  /\ \A b \in Conns : b < c => conn[b].agent # "unused"
  /\ conn' = [conn EXCEPT ![c].agent = "dialing"]
  /\ tunnel' = c
  /\ UNCHANGED <<devices, device, shell, channels, pty, raced>>

\* The dial fails before the gateway has accepted it; close follows error.
DialFails ==
  /\ tunnel # 0
  /\ conn[tunnel].agent = "dialing"
  /\ conn[tunnel].gateway = "none"
  /\ conn' = [conn EXCEPT ![tunnel] = Unused]
  /\ Disconnected({})
  /\ UNCHANGED <<devices, device, shell, channels>>

\* The open event: hello.
Connected(c) ==
  /\ conn[c].agent = "dialing"
  /\ conn[c].gateway # "none"
  /\ conn' = [conn EXCEPT ![c].agent = "open",
                          ![c].toGateway =
                            IF conn[c].gateway = "closed" THEN @
                            ELSE Append(@, Frame("hello", 0, NoShell))]
  /\ UNCHANGED <<tunnel, devices, device, shell, channels, pty, raced>>

\* The close event.
AgentSeesClose(c) ==
  /\ conn[c].agent \in {"dialing", "open", "closing"}
  /\ conn[c].gateway # "none"
  /\ conn' = [conn EXCEPT ![c].agent = "closed", ![c].toAgent = <<>>]
  /\ Disconnected(Mark("lostClose", \E i \in DOMAIN conn[c].toAgent :
                                       conn[c].toAgent[i].t \in {"close", "kill"}))
  /\ UNCHANGED <<devices, device, shell, channels>>

\* The agent process stops or dies, and its ptys with it.
AgentRestarts ==
  /\ tunnel # 0 => conn[tunnel].gateway # "none"
  /\ conn' = [c \in Conns |->
                IF c = tunnel THEN [conn[c] EXCEPT !.agent = "closed", !.toAgent = <<>>]
                ELSE conn[c]]
  /\ tunnel' = 0
  /\ channels' = [i \in ChannelIds |-> NoPty]
  /\ pty' = [p \in Ptys |-> FreePty]
  /\ UNCHANGED <<devices, device, shell, raced>>

-----------------------------------------------------------------------------
(* The connection, gateway side.                                             *)

\* /ws/agent: getOrCreateDevice, then attach, which sends a stale socket away.
Accept(c) ==
  /\ conn[c].agent = "dialing"
  /\ conn[c].gateway = "none"
  /\ IF devices = 0
     THEN /\ devices' = c
          /\ device' = [device EXCEPT ![c] = FreshDevice(c)]
          /\ conn' = [conn EXCEPT ![c].gateway = "open", ![c].device = c]
     ELSE /\ device' = [device EXCEPT ![devices].socket = c, ![devices].grace = FALSE]
          /\ conn' = [Closing(conn, device[devices].socket)
                        EXCEPT ![c].gateway = "open", ![c].device = devices]
          /\ UNCHANGED devices
  /\ UNCHANGED <<tunnel, shell, channels, pty, raced>>

\* detach: waiting openShell calls are rejected, listed channels wait for the
\* machine; with none the device is removed, by its id, whoever has it now.
GatewaySeesClose(c) ==
  /\ conn[c].gateway \in {"open", "closing"}
  /\ conn' = [conn EXCEPT ![c].gateway = "closed", ![c].toGateway = <<>>]
  /\ LET d == conn[c].device
         waiting == {s \in Shells : shell[s].state = "opening" /\ shell[s].device = d}
     IN  IF ~Current(c) THEN UNCHANGED <<devices, device, shell, raced>>
         ELSE /\ device' = [device EXCEPT ![d].socket = 0, ![d].hello = 0,
                                          ![d].grace = ~Deserted(d)]
              /\ devices' = IF Deserted(d) THEN 0 ELSE devices
              /\ shell' = [s \in Shells |->
                             IF s \in waiting
                             THEN [shell[s] EXCEPT !.state = "over", !.listed = FALSE]
                             ELSE shell[s]]
              /\ Note(Mark("abandonedOpen", waiting # {}))
  /\ UNCHANGED <<tunnel, channels, pty>>

\* The agent holds a pty, is spawning one, or will be asked to.
Inhabited ==
  \/ \E p \in Ptys : p \in Held \/ pty[p].state = "spawning"
  \/ \E c \in Conns : \E i \in DOMAIN conn[c].toAgent : conn[c].toAgent[i].t = "open"

\* The gateway's grace timer.
GatewayGraceFires(d) ==
  /\ device[d].grace
  /\ device' = [device EXCEPT ![d].grace = FALSE]
  /\ shell' = EndChannels(Listed(d))
  /\ devices' = 0
  /\ Note(Mark("expiry", Inhabited))
  /\ UNCHANGED <<conn, tunnel, channels, pty>>

\* POST /agents/:deviceId/disconnect: kill.  Neither the socket nor a running
\* timer of the device is let go of.
KillDevice ==
  /\ devices # 0
  /\ LET c == device[devices].socket
         sent == SendToAgent(conn, c, Frame("kill", 0, NoShell))
     IN  /\ conn' = Closing(sent, c)
         /\ Note({"kill"} \cup Mark("lostClose", sent = conn))
  /\ shell' = EndChannels(Listed(devices))
  /\ devices' = 0
  /\ UNCHANGED <<tunnel, device, channels, pty>>

GatewayRestarts ==
  /\ devices # 0
  /\ conn' = [c \in Conns |->
                IF conn[c].gateway = "none" THEN conn[c]
                ELSE [conn[c] EXCEPT !.gateway = "closed", !.toGateway = <<>>]]
  /\ devices' = 0
  /\ device' = [c \in Conns |-> FreshDevice(0)]
  /\ shell' = [s \in Shells |->
                 IF shell[s].state \in {"opening", "open"}
                 THEN [shell[s] EXCEPT !.state = "over", !.listed = FALSE] ELSE shell[s]]
  /\ Note({"restart"})
  /\ UNCHANGED <<tunnel, channels, pty>>

-----------------------------------------------------------------------------
(* Terminals, gateway side.                                                  *)

\* openShell, up to its await.
OpenShell(s) ==
  /\ shell[s].state = "idle"
  /\ devices # 0
  /\ Online(devices)
  /\ LET d == devices
         ch == device[d].next
     IN  /\ shell' = [shell EXCEPT ![s] = [state |-> "opening", device |-> d,
                                           ch |-> ch, listed |-> TRUE]]
         /\ device' = [device EXCEPT ![d].next = ch + 1]
         /\ conn' = SendToAgent(conn, device[d].socket, Frame("open", ch, s))
         /\ Note(Mark("staleSocket", device[d].hello # device[d].socket))
  /\ UNCHANGED <<tunnel, devices, channels, pty>>

\* OPEN_TIMEOUT_MS: the channel is dropped, and the agent is not told.
OpenTimesOut(s) ==
  /\ shell[s].state = "opening"
  /\ shell' = [shell EXCEPT ![s].state = "over", ![s].listed = FALSE]
  /\ Note({"abandonedOpen"})
  /\ UNCHANGED <<conn, tunnel, devices, device, channels, pty>>

\* Channel.end, for a terminal that was closed or abandoned.
EndShellBug(s) ==
  /\ shell[s].state = "open"
  /\ shell' = [shell EXCEPT ![s].state = "over", ![s].listed = FALSE]
  /\ UNCHANGED <<conn, tunnel, devices, device, channels, pty, raced>>
EndShell(s) ==
  /\ shell[s].state = "open"
  /\ shell' = [shell EXCEPT ![s].state = "over", ![s].listed = FALSE]
  /\ LET c == device[shell[s].device].socket
     IN  IF ~shell[s].listed THEN UNCHANGED <<conn, raced>>
         ELSE /\ conn' = SendToAgent(conn, c, Frame("close", shell[s].ch, s))
              /\ Note(Mark("lostClose", conn' = conn))
  /\ UNCHANGED <<tunnel, devices, device, channels, pty>>

\* The channel of device d with this id, if there is one.
ChannelOf(d, ch) == {s \in Listed(d) : shell[s].ch = ch}
\* The openShell call of device d that waits for an answer about this id.
PendingOf(d, ch) ==
  {s \in Shells : shell[s].state = "opening" /\ shell[s].device = d /\ shell[s].ch = ch}

Arrives(c, t) ==
  /\ conn[c].gateway \in {"open", "closing"}
  /\ conn[c].toGateway # <<>>
  /\ Head(conn[c].toGateway).t = t

Stale(c) == Mark("staleSocket", device[conn[c].device].socket # c)

Read(c) == [conn EXCEPT ![c].toGateway = Tail(@)]

\* hello: resumeChannels, over the socket in use, whichever it came from.
RecvHello(c) ==
  /\ Arrives(c, "hello")
  /\ LET d == conn[c].device
     IN  /\ device' = [device EXCEPT ![d].hello = c]
         /\ \E ids \in InOrder(ListedIds(d)) : conn' = ResumeChannels(Read(c), d, ids)
         /\ Note(Stale(c))
  /\ UNCHANGED <<tunnel, devices, shell, channels, pty>>

\* opened: the waiting call is answered, and if none waits it was a resume.
RecvOpened(c) ==
  /\ Arrives(c, "opened")
  /\ conn' = Read(c)
  /\ LET f == Head(conn[c].toGateway)
     IN  shell' = [s \in Shells |->
                     IF s \in PendingOf(conn[c].device, f.ch)
                     THEN [shell[s] EXCEPT !.state = "open"] ELSE shell[s]]
  /\ Note(Stale(c))
  /\ UNCHANGED <<tunnel, devices, device, channels, pty>>

\* opened and the exit right behind it, before the opener's await resumes: the
\* exit event finds no listener.
RecvOpenedAndExit(c) ==
  /\ Arrives(c, "opened")
  /\ Len(conn[c].toGateway) > 1
  /\ LET f == Head(conn[c].toGateway)
         g == conn[c].toGateway[2]
     IN  /\ g.t = "exit" /\ g.ch = f.ch
         /\ PendingOf(conn[c].device, f.ch) # {}
         /\ shell' = [s \in Shells |->
                        IF s \in PendingOf(conn[c].device, f.ch)
                        THEN [shell[s] EXCEPT !.state = "open", !.listed = FALSE]
                        ELSE shell[s]]
  /\ conn' = [conn EXCEPT ![c].toGateway = Tail(Tail(@))]
  /\ Note({"sameTick"} \cup Stale(c))
  /\ UNCHANGED <<tunnel, devices, device, channels, pty>>

\* channel-error: the waiting call is rejected, a live terminal ended.
RecvError(c) ==
  /\ Arrives(c, "error")
  /\ conn' = Read(c)
  /\ LET d == conn[c].device
         ch == Head(conn[c].toGateway).ch
     IN  shell' = [s \in Shells |->
                     IF s \in PendingOf(d, ch) \cup ChannelOf(d, ch)
                     THEN [shell[s] EXCEPT !.state = "over", !.listed = FALSE]
                     ELSE shell[s]]
  /\ Note(Stale(c))
  /\ UNCHANGED <<tunnel, devices, device, channels, pty>>

RecvExit(c) ==
  /\ Arrives(c, "exit")
  /\ conn' = Read(c)
  /\ shell' = EndChannels(ChannelOf(conn[c].device, Head(conn[c].toGateway).ch))
  /\ Note(Stale(c))
  /\ UNCHANGED <<tunnel, devices, device, channels, pty>>

-----------------------------------------------------------------------------
(* Terminals, agent side.                                                    *)

Reaches(c, t) ==
  /\ conn[c].agent = "open"
  /\ conn[c].toAgent # <<>>
  /\ Head(conn[c].toAgent).t = t

Spawning(ch) == \E p \in Ptys : pty[p].state = "spawning" /\ pty[p].ch = ch

Taken(c) == [conn EXCEPT ![c].toAgent = Tail(@)]

\* open-shell for an id that is held: a resume, unless it is attached.
ResumeKeepsTimerBug(p, s) == [pty EXCEPT ![p].attached = TRUE, ![p].bound = s]
Resume(p, s) == [pty EXCEPT ![p].attached = TRUE, ![p].timer = FALSE, ![p].bound = s]

RecvOpenHeld(c) ==
  /\ Reaches(c, "open")
  /\ LET f == Head(conn[c].toAgent)
         p == channels[f.ch]
     IN  /\ p # NoPty
         /\ IF pty[p].attached
            THEN /\ conn' = SendToGateway(Taken(c), Frame("error", f.ch, f.for))
                 /\ UNCHANGED pty
            ELSE /\ conn' = SendToGateway(Taken(c), Frame("opened", f.ch, f.for))
                 /\ pty' = Resume(p, f.for)
  /\ UNCHANGED <<tunnel, devices, device, shell, channels, raced>>

\* open-shell for an id that is not: spawnPty, up to its await.
RecvOpenNew(c, p) ==
  /\ Reaches(c, "open")
  /\ pty[p].state = "free"
  /\ LET f == Head(conn[c].toAgent)
     IN  /\ channels[f.ch] = NoPty
         /\ pty' = [pty EXCEPT ![p] = [FreePty EXCEPT !.state = "spawning", !.ch = f.ch,
                                                      !.owner = f.for, !.bound = f.for]]
  /\ conn' = Taken(c)
  /\ UNCHANGED <<tunnel, devices, device, shell, channels, raced>>

\* The shell is not offered, or there are too many channels.
RecvOpenRefused(c) ==
  /\ Reaches(c, "open")
  /\ LET f == Head(conn[c].toAgent)
     IN  /\ channels[f.ch] = NoPty
         /\ conn' = SendToGateway(Taken(c), Frame("error", f.ch, f.for))
  /\ UNCHANGED <<tunnel, devices, device, shell, channels, pty, raced>>

\* After the await: attached, whatever became of the connection meanwhile.
Spawned(p) ==
  /\ pty[p].state = "spawning"
  /\ pty' = [pty EXCEPT ![p].state = "alive", ![p].attached = TRUE]
  /\ channels' = [channels EXCEPT ![pty[p].ch] = p]
  /\ conn' = SendToGateway(conn, Frame("opened", pty[p].ch, pty[p].owner))
  /\ UNCHANGED <<tunnel, devices, device, shell, raced>>

SpawnFails(p) ==
  /\ pty[p].state = "spawning"
  /\ pty' = [pty EXCEPT ![p] = FreePty]
  /\ conn' = SendToGateway(conn, Frame("error", pty[p].ch, pty[p].owner))
  /\ UNCHANGED <<tunnel, devices, device, shell, channels, raced>>

\* close: the pty held under the id is killed.
RecvClose(c) ==
  /\ Reaches(c, "close")
  /\ conn' = Taken(c)
  /\ LET ch == Head(conn[c].toAgent).ch
     IN  /\ pty' = Kill(Disarm(pty, ch), {channels[ch]})
         /\ channels' = [channels EXCEPT ![ch] = NoPty]
         /\ Note(Mark("closeWhileSpawning", Spawning(ch)))
  /\ UNCHANGED <<tunnel, devices, device, shell>>

\* kill: closeAll, and the agent closes its end.
RecvKill(c) ==
  /\ Reaches(c, "kill")
  /\ conn' = [Taken(c) EXCEPT ![c].agent = "closing"]
  /\ pty' = Kill([p \in Ptys |-> IF p \in Held THEN [pty[p] EXCEPT !.timer = FALSE] ELSE pty[p]],
                 Held)
  /\ channels' = [i \in ChannelIds |-> NoPty]
  /\ Note(Mark("closeWhileSpawning", \E i \in ChannelIds : Spawning(i)))
  /\ UNCHANGED <<tunnel, devices, device, shell>>

\* The exit event, of a shell that ended by itself or was killed.  The listener
\* forgets the channel id, whoever holds it by now.
PtyExits(p) ==
  /\ pty[p].state \in {"alive", "killed"}
  /\ LET ch == pty[p].ch
     IN  /\ pty' = Reaped([Disarm(pty, ch) EXCEPT ![p].state = "dead"])
         /\ channels' = [channels EXCEPT ![ch] = NoPty]
         /\ conn' = IF pty[p].attached
                    THEN SendToGateway(conn, Frame("exit", ch, pty[p].bound)) ELSE conn
         /\ Note(Mark("lateExit",
                   /\ pty[p].state = "killed"
                   /\ \/ channels[ch] # NoPty
                      \/ /\ pty[p].attached
                         /\ tunnel # 0
                         /\ conn[tunnel].device # shell[pty[p].bound].device))
  /\ UNCHANGED <<tunnel, devices, device, shell>>

\* A timer of detachAll fires: the one on record, or one it replaced.
AgentGraceFires(p) ==
  /\ \/ pty[p].timer /\ pty' = Reaped(Kill([Disarm(pty, pty[p].ch) EXCEPT ![p].timer = FALSE], {p}))
     \/ pty[p].stray > 0 /\ pty' = Reaped(Kill([Disarm(pty, pty[p].ch) EXCEPT ![p].stray = @ - 1], {p}))
  /\ channels' = [channels EXCEPT ![pty[p].ch] = NoPty]
  /\ UNCHANGED <<conn, tunnel, devices, device, shell, raced>>

-----------------------------------------------------------------------------
Next ==
  \/ DialFails \/ AgentRestarts \/ KillDevice \/ GatewayRestarts
  \/ \E c \in Conns :
       \/ Dial(c) \/ Connected(c) \/ AgentSeesClose(c) \/ Accept(c) \/ GatewaySeesClose(c)
       \/ GatewayGraceFires(c)
       \/ RecvHello(c) \/ RecvOpened(c) \/ RecvOpenedAndExit(c) \/ RecvError(c) \/ RecvExit(c)
       \/ RecvOpenHeld(c) \/ RecvOpenRefused(c) \/ RecvClose(c) \/ RecvKill(c)
       \/ \E p \in Ptys : RecvOpenNew(c, p)
  \/ \E s \in Shells : OpenShell(s) \/ OpenTimesOut(s) \/ EndShell(s)
  \/ \E p \in Ptys : Spawned(p) \/ SpawnFails(p) \/ PtyExits(p) \/ AgentGraceFires(p)

Spec == Init /\ [][Next]_vars

-----------------------------------------------------------------------------
TypeOK ==
  /\ conn \in [Conns -> [agent : {"unused", "dialing", "open", "closing", "closed"},
                         gateway : {"none", "open", "closing", "closed"},
                         toAgent : Seq(Frames), toGateway : Seq(Frames),
                         device : Conns \cup {0}]]
  /\ tunnel \in Conns \cup {0}
  /\ devices \in Conns \cup {0}
  /\ device \in [Conns -> [socket : Conns \cup {0}, hello : Conns \cup {0},
                           next : Nat \ {0}, grace : BOOLEAN]]
  /\ shell \in [Shells -> [state : {"idle", "opening", "open", "over"},
                           device : Conns \cup {0}, ch : 0 .. Cardinality(Shells),
                           listed : BOOLEAN]]
  /\ channels \in [ChannelIds -> Ptys \cup {NoPty}]
  /\ pty \in [Ptys -> [state : {"free", "spawning", "alive", "killed", "dead"},
                       ch : 0 .. Cardinality(Shells), attached : BOOLEAN,
                       timer : BOOLEAN, stray : 0 .. MaxStray,
                       owner : Shells \cup {NoShell}, bound : Shells \cup {NoShell}]]
  /\ raced \in SUBSET Races

(* Each property below comes with the races that break it, alone or together *)
(* with another: as long as none of those has happened, it holds.            *)

Unraced(R) == raced \cap R = {}

Alive == {p \in Ptys : pty[p].state = "alive"}
CountedDown(p) == pty[p].timer \/ pty[p].stray > 0

\* Over connection c, the two ends have heard all the other had to say.
Settled(c) ==
  /\ conn[c].agent = "open" /\ conn[c].gateway = "open"
  /\ conn[c].toAgent = <<>> /\ conn[c].toGateway = <<>>
  /\ \A p \in Ptys : pty[p].state # "spawning"

\* registry.ts:561: "Channel ids must not be reused while a terminal still holds
\* one, since the agent treats a known id as a resume request": a process only
\* ever serves the terminal it was started for.
NoForeignShell == \A p \in Ptys : pty[p].bound = pty[p].owner
NoForeignShellUnlessRaced ==
  Unraced({"restart", "expiry", "lostClose", "abandonedOpen", "closeWhileSpawning", "kill",
           "staleSocket", "spawnAcrossDrop", "retryFails", "lateExit"})
    => NoForeignShell

\* channels.ts:4: a drop must not kill a running build, a reconnect inside the
\* grace window resumes it: while a process is attached only a frame of the
\* gateway has the agent kill it.
KilledOnRequest ==
  \A p \in Alive : pty[p].attached /\ pty'[p].state = "killed" => conn' # conn
ResumedShellSurvivesUnlessRaced == [][Unraced({"retryFails"}) => KilledOnRequest]_vars

\* A machine whose connection the gateway still uses can be found by its id:
\* terminals can be opened on it, and it can be disconnected.
ConnectedIsListed ==
  Unraced({"kill"}) =>
    \A c \in Conns : conn[c].gateway = "open" /\ Current(c) => devices = conn[c].device

\* Without a tunnel no process is kept but on a countdown.
HeldOnCountdown ==
  Unraced({"retryFails", "spawnAcrossDrop", "lateExit", "staleSocket"}) /\ tunnel = 0 =>
    \A p \in Alive : CountedDown(p)

\* A terminal the gateway shows is, once all is said, the live process the agent
\* holds under its id: nobody types into nothing.
NoDeadPrompt ==
  Unraced({"retryFails", "lateExit", "spawnAcrossDrop", "staleSocket"}) =>
    \A c \in Conns : Settled(c) =>
      \A s \in Listed(conn[c].device) :
        LET p == channels[shell[s].ch]
        IN  p # NoPty /\ p \in Alive
              /\ pty[p].attached

\* A process of the agent is, once all is said, a terminal of the gateway's, or
\* will be killed: none runs on unseen.
NoOrphan ==
  HeldOnCountdown /\
  (Unraced({"retryFails", "closeWhileSpawning", "spawnAcrossDrop", "abandonedOpen",
            "lateExit", "staleSocket"}) =>
    \A c \in Conns : Settled(c) =>
      \A p \in Alive :
        \/ CountedDown(p)
        \/ channels[pty[p].ch] = p
           /\ \E s \in Listed(conn[c].device) : shell[s].ch = pty[p].ch)

\* A terminal whose channel has ended was told: no browser stays in front of a
\* terminal that no device knows any more.
ExitIsHeard ==
  Unraced({"spawnAcrossDrop", "kill", "lateExit", "sameTick", "staleSocket", "retryFails"}) =>
    \A s \in Shells : shell[s].state = "open" => shell[s].listed

\* What the gateway has on its list of machines and terminals is there, and
\* what is there is on the list.
RegistryIsTrue == ConnectedIsListed /\ ExitIsHeard

=============================================================================
