-------------------------- MODULE AgentTunnelProofs --------------------------
(***************************************************************************)
(* Theorems about AgentTunnel, for any number of terminals, processes and  *)
(* connections, and any number of the races.                               *)
(***************************************************************************)
EXTENDS AgentTunnel, SequenceTheorems, FiniteSetTheorems, TLAPS

-----------------------------------------------------------------------------
(* What the helpers return.                                                  *)

Connection == [agent : {"unused", "dialing", "open", "closing", "closed"},
               gateway : {"none", "open", "closing", "closed"},
               toAgent : Seq(Frames), toGateway : Seq(Frames), device : Conns \cup {0}]
ConnTable == [Conns -> Connection]
Device == [socket : Conns \cup {0}, hello : Conns \cup {0}, next : Nat \ {0}, grace : BOOLEAN]
Terminal == [state : {"idle", "opening", "open", "over"}, device : Conns \cup {0},
             ch : 0 .. Cardinality(Shells), listed : BOOLEAN]
Process == [state : {"free", "spawning", "alive", "killed", "dead"},
            ch : 0 .. Cardinality(Shells), attached : BOOLEAN,
            timer : BOOLEAN, stray : 0 .. MaxStray,
            owner : Shells \cup {NoShell}, bound : Shells \cup {NoShell}]

LEMMA CardType == Cardinality(Shells) \in Nat
BY FiniteAssumption, FS_CardinalityType

LEMMA FrameType ==
  ASSUME NEW t \in {"open", "close", "kill", "hello", "opened", "error", "exit"},
         NEW ch \in 0 .. Cardinality(Shells), NEW s \in Shells \cup {NoShell}
  PROVE  /\ Frame(t, ch, s) \in Frames
         /\ Frame(t, ch, s).t = t /\ Frame(t, ch, s).ch = ch /\ Frame(t, ch, s).for = s
BY DEF Frame, Frames

LEMMA ConnNotZero == 0 \notin Conns
BY DEF Conns

LEMMA SendToAgentEffect ==
  ASSUME NEW net \in ConnTable, NEW c \in Conns \cup {0}, NEW f \in Frames
  PROVE  /\ SendToAgent(net, c, f) \in ConnTable
         /\ \A x \in Conns :
              SendToAgent(net, c, f)[x] =
                IF x = c /\ net[x].gateway = "open" /\ net[x].agent # "closed"
                THEN [net[x] EXCEPT !.toAgent = Append(@, f)] ELSE net[x]
<1>1. CASE c # 0 /\ net[c].gateway = "open" /\ net[c].agent # "closed"
  <2>1. SendToAgent(net, c, f) = [net EXCEPT ![c].toAgent = Append(@, f)]
    BY <1>1 DEF SendToAgent
  <2>2. Append(net[c].toAgent, f) \in Seq(Frames)
    BY <1>1 DEF ConnTable, Connection
  <2> QED BY <1>1, <2>1, <2>2, ZenonT(60) DEF ConnTable, Connection
<1>2. CASE ~(c # 0 /\ net[c].gateway = "open" /\ net[c].agent # "closed")
  BY <1>2, ConnNotZero DEF SendToAgent
<1> QED BY <1>1, <1>2

LEMMA SendToGatewayEffect ==
  ASSUME NEW net \in ConnTable, tunnel \in Conns \cup {0}, NEW f \in Frames
  PROVE  /\ SendToGateway(net, f) \in ConnTable
         /\ \A x \in Conns :
              SendToGateway(net, f)[x] =
                IF x = tunnel /\ net[x].agent = "open" /\ net[x].gateway # "closed"
                THEN [net[x] EXCEPT !.toGateway = Append(@, f)] ELSE net[x]
<1>1. CASE tunnel # 0 /\ net[tunnel].agent = "open" /\ net[tunnel].gateway # "closed"
  <2>1. SendToGateway(net, f) = [net EXCEPT ![tunnel].toGateway = Append(@, f)]
    BY <1>1 DEF SendToGateway
  <2>2. Append(net[tunnel].toGateway, f) \in Seq(Frames)
    BY <1>1 DEF ConnTable, Connection
  <2> QED BY <1>1, <2>1, <2>2, ZenonT(60) DEF ConnTable, Connection
<1>2. CASE ~(tunnel # 0 /\ net[tunnel].agent = "open" /\ net[tunnel].gateway # "closed")
  BY <1>2, ConnNotZero DEF SendToGateway
<1> QED BY <1>1, <1>2

LEMMA ClosingEffect ==
  ASSUME NEW net \in ConnTable, NEW c \in Conns \cup {0}
  PROVE  /\ Closing(net, c) \in ConnTable
         /\ \A x \in Conns :
              Closing(net, c)[x] =
                IF x = c /\ net[x].gateway = "open" THEN [net[x] EXCEPT !.gateway = "closing"]
                ELSE net[x]
BY ConnNotZero DEF Closing, ConnTable, Connection

LEMMA ReadEffect ==
  ASSUME conn \in ConnTable, NEW c \in Conns, conn[c].toGateway # <<>>
  PROVE  /\ Read(c) \in ConnTable
         /\ \A x \in Conns :
              Read(c)[x] = IF x = c THEN [conn[x] EXCEPT !.toGateway = Tail(@)] ELSE conn[x]
<1>1. Tail(conn[c].toGateway) \in Seq(Frames)
  BY HeadTailProperties DEF ConnTable, Connection
<1> QED BY <1>1 DEF Read, ConnTable, Connection

LEMMA TakenEffect ==
  ASSUME conn \in ConnTable, NEW c \in Conns, conn[c].toAgent # <<>>
  PROVE  /\ Taken(c) \in ConnTable
         /\ \A x \in Conns :
              Taken(c)[x] = IF x = c THEN [conn[x] EXCEPT !.toAgent = Tail(@)] ELSE conn[x]
<1>1. Tail(conn[c].toAgent) \in Seq(Frames)
  BY HeadTailProperties DEF ConnTable, Connection
<1> QED BY <1>1 DEF Taken, ConnTable, Connection

LEMMA HeadToGateway ==
  ASSUME conn \in ConnTable, NEW c \in Conns, conn[c].toGateway # <<>>
  PROVE  Head(conn[c].toGateway) \in Frames
BY HeadTailProperties DEF ConnTable, Connection

LEMMA HeadToAgent ==
  ASSUME conn \in ConnTable, NEW c \in Conns, conn[c].toAgent # <<>>
  PROVE  Head(conn[c].toAgent) \in Frames
BY HeadTailProperties DEF ConnTable, Connection

LEMMA ResumeFramesEffect ==
  ASSUME shell \in [Shells -> Terminal], NEW d, NEW ids \in InOrder(ListedIds(d))
  PROVE  LET q == ResumeFrames(d, ids)
         IN  /\ q \in Seq(Frames)
             /\ \A i \in 1 .. Len(q) :
                  q[i].t = "open" /\ q[i].for \in Listed(d) /\ q[i].ch = shell[q[i].for].ch
             /\ \A i, j \in 1 .. Len(q) : i < j => q[i].ch < q[j].ch
             /\ \A s \in Listed(d) : \E i \in 1 .. Len(q) : q[i].ch = shell[s].ch
<1> DEFINE I == ListedIds(d)
           q == ResumeFrames(d, ids)
           n == Cardinality(I)
<1>1. I \subseteq 0 .. Cardinality(Shells)
  BY DEF ListedIds, Listed, Terminal
<1>2. IsFiniteSet(I) /\ n \in Nat
  <2>1. IsFiniteSet(0 .. Cardinality(Shells))
    BY CardType, FS_Interval
  <2>2. IsFiniteSet(I)
    BY <1>1, <2>1, FS_Subset
  <2> QED BY <2>2, FS_CardinalityType
<1>3. /\ ids \in [1 .. n -> I] /\ DOMAIN ids = 1 .. n
      /\ \A i, j \in 1 .. n : i < j => ids[i] < ids[j]
  BY DEF InOrder
<1>4. \A i \in 1 .. n :
        /\ (CHOOSE s \in Listed(d) : shell[s].ch = ids[i]) \in Listed(d)
        /\ shell[CHOOSE s \in Listed(d) : shell[s].ch = ids[i]].ch = ids[i]
  BY <1>3 DEF ListedIds
<1>5. \A i \in 1 .. n :
        /\ q[i] \in Frames /\ q[i].t = "open" /\ q[i].ch = ids[i] /\ q[i].for \in Listed(d)
        /\ shell[q[i].for].ch = ids[i]
  <2> TAKE i \in 1 .. n
  <2>1. q[i] = Frame("open", ids[i], CHOOSE s \in Listed(d) : shell[s].ch = ids[i])
    BY <1>3 DEF ResumeFrames
  <2>2. ids[i] \in 0 .. Cardinality(Shells)
    BY <1>1, <1>3
  <2> QED BY <2>1, <2>2, <1>4, FrameType DEF Listed
<1>6. q \in [1 .. n -> Frames] /\ DOMAIN q = 1 .. n
  BY <1>3, <1>5 DEF ResumeFrames
<1>7. q \in Seq(Frames) /\ Len(q) = n
  BY <1>2, <1>6
<1>8. \A i, j \in 1 .. n : ids[i] = ids[j] => i = j
  <2> TAKE i \in 1 .. n, j \in 1 .. n
  <2>1. ids[i] \in Int /\ ids[j] \in Int
    BY <1>1, <1>3, CardType
  <2> QED BY <2>1, <1>3, <1>2
<1>9. ids \in Injection(1 .. n, I)
  BY <1>3, <1>8 DEF Injection, IsInjective
<1>10. Cardinality(1 .. n) = n
  BY <1>2, FS_Interval
<1>11. ids \in Surjection(1 .. n, I)
  BY <1>9, <1>10, <1>2, FS_Injection
<1>12. \A s \in Listed(d) : \E i \in 1 .. n : ids[i] = shell[s].ch
  BY <1>11 DEF Surjection, ListedIds
<1>13. \A i, j \in 1 .. n : i < j => q[i].ch < q[j].ch
  BY <1>3, <1>5
<1> HIDE DEF q, n, I
<1>14. /\ \A i \in 1 .. Len(q) :
            q[i].t = "open" /\ q[i].for \in Listed(d) /\ q[i].ch = shell[q[i].for].ch
       /\ \A s \in Listed(d) : \E i \in 1 .. Len(q) : q[i].ch = shell[s].ch
  BY <1>5, <1>7, <1>12
<1> QED BY <1>7, <1>13, <1>14 DEF q

LEMMA ResumeChannelsEffect ==
  ASSUME shell \in [Shells -> Terminal], device \in [Conns -> Device],
         NEW net \in ConnTable, NEW d \in Conns, NEW ids \in InOrder(ListedIds(d))
  PROVE  /\ ResumeChannels(net, d, ids) \in ConnTable
         /\ \A x \in Conns :
              ResumeChannels(net, d, ids)[x] =
                IF x = device[d].socket /\ net[x].gateway = "open" /\ net[x].agent # "closed"
                THEN [net[x] EXCEPT !.toAgent = @ \o ResumeFrames(d, ids)] ELSE net[x]
<1> DEFINE c == device[d].socket
<1>0. ResumeFrames(d, ids) \in Seq(Frames) /\ c \in Conns \cup {0}
  BY ResumeFramesEffect DEF Device
<1>1. CASE c # 0 /\ net[c].gateway = "open" /\ net[c].agent # "closed"
  <2>1. ResumeChannels(net, d, ids) = [net EXCEPT ![c].toAgent = @ \o ResumeFrames(d, ids)]
    BY <1>1 DEF ResumeChannels
  <2>2. net[c].toAgent \o ResumeFrames(d, ids) \in Seq(Frames)
    BY <1>0, <1>1, ConcatProperties DEF ConnTable, Connection
  <2> DEFINE kept == net[c].toAgent \o ResumeFrames(d, ids)
  <2>3. ResumeChannels(net, d, ids) = [net EXCEPT ![c].toAgent = kept]
    BY <2>1
  <2>4. \A x \in Conns : ResumeChannels(net, d, ids)[x] =
          IF x = c THEN [net[x] EXCEPT !.toAgent = kept] ELSE net[x]
    <3> HIDE DEF kept
    <3> QED BY <1>0, <1>1, <2>3 DEF ConnTable
  <2>5. ResumeChannels(net, d, ids) \in ConnTable
    <3>1. kept \in Seq(Frames)
      BY <2>2
    <3> HIDE DEF kept, c
    <3> QED BY <2>3, <3>1, ZenonT(60) DEF ConnTable, Connection
  <2> QED BY <1>1, <2>4, <2>5
<1>2. CASE ~(c # 0 /\ net[c].gateway = "open" /\ net[c].agent # "closed")
  BY <1>2, ConnNotZero DEF ResumeChannels
<1> QED BY <1>1, <1>2

LEMMA DisarmEffect ==
  ASSUME NEW ps \in [Ptys -> Process], NEW ch \in 0 .. Cardinality(Shells)
  PROVE  /\ Disarm(ps, ch) \in [Ptys -> Process]
         /\ \A p \in Ptys : Disarm(ps, ch)[p] =
              IF p = channels[ch] THEN [ps[p] EXCEPT !.timer = FALSE] ELSE ps[p]
BY NoValueAssumption, ZenonT(40) DEF Disarm, Process

LEMMA KillEffect ==
  ASSUME NEW ps \in [Ptys -> Process], NEW P
  PROVE  /\ Kill(ps, P) \in [Ptys -> Process]
         /\ \A p \in Ptys : Kill(ps, P)[p] =
              IF p \in P /\ ps[p].state = "alive" THEN [ps[p] EXCEPT !.state = "killed"] ELSE ps[p]
BY DEF Kill, Process

LEMMA FreePtyType == FreePty \in Process
BY CardType, BoundsAssumption DEF FreePty, Process

LEMMA ReapedEffect ==
  ASSUME NEW ps \in [Ptys -> Process]
  PROVE  /\ Reaped(ps) \in [Ptys -> Process]
         /\ \A p \in Ptys : Reaped(ps)[p] =
              IF ps[p].state = "dead" /\ ps[p].stray = 0 /\ ~ps[p].timer THEN FreePty ELSE ps[p]
BY FreePtyType DEF Reaped

LEMMA NoteType ==
  ASSUME raced \in SUBSET Races, NEW R, Note(R)
  PROVE  raced' \in SUBSET Races /\ raced' = raced \cup R
BY DEF Note

LEMMA DisconnectedType ==
  ASSUME pty \in [Ptys -> Process], raced \in SUBSET Races, NEW R, Disconnected(R)
  PROVE  tunnel' = 0 /\ pty' \in [Ptys -> Process] /\ raced' \in SUBSET Races
<1>1. \A p \in Held : pty[p].timer => pty[p].stray < MaxStray
  BY DEF Disconnected
<1>2. \A p \in Ptys : DetachAll[p] \in Process
  <2> TAKE p \in Ptys
  <2>1. CASE p \notin Held
    BY <2>1 DEF DetachAll
  <2>2. CASE p \in Held /\ pty[p].timer
    <3>1. pty[p].stray + 1 \in 0 .. MaxStray
      BY <1>1, <2>2, BoundsAssumption DEF Process
    <3> QED BY <2>2, <3>1, ZenonT(60) DEF DetachAll, Process
  <2>3. CASE p \in Held /\ ~pty[p].timer
    BY <2>3 DEF DetachAll, Process
  <2> QED BY <2>1, <2>2, <2>3
<1>3. DetachAll \in [Ptys -> Process]
  BY <1>2, Zenon DEF DetachAll
<1> QED BY <1>3, NoteType DEF Disconnected

-----------------------------------------------------------------------------
(* What each step does, to each connection, terminal and process.            *)

\* A device has given out at most one channel id for each terminal ever opened:
\* what keeps its counter, which restarts with it, within the channel ids.
Opened == {s \in Shells : shell[s].state # "idle"}
IdsAreFew == \A d \in Conns : device[d].next <= Cardinality(Opened) + 1

\* What was accepted, or opened, belongs to a device.
Placed ==
  /\ \A c \in Conns : conn[c].gateway # "none" => conn[c].device \in Conns
  /\ \A s \in Shells : shell[s].state # "idle" => shell[s].device \in Conns
  /\ \A s \in Shells : shell[s].listed => shell[s].state # "idle"

Typed == TypeOK /\ IdsAreFew /\ Placed

LEMMA TypesOf ==
  TypeOK <=> /\ conn \in ConnTable /\ tunnel \in Conns \cup {0} /\ devices \in Conns \cup {0}
             /\ device \in [Conns -> Device] /\ shell \in [Shells -> Terminal]
             /\ channels \in [ChannelIds -> Ptys \cup {NoPty}] /\ pty \in [Ptys -> Process]
             /\ raced \in SUBSET Races
BY DEF TypeOK, ConnTable, Connection, Device, Terminal, Process

LEMMA TypesOfNext ==
  TypeOK' <=> /\ conn' \in ConnTable /\ tunnel' \in Conns \cup {0} /\ devices' \in Conns \cup {0}
              /\ device' \in [Conns -> Device] /\ shell' \in [Shells -> Terminal]
              /\ channels' \in [ChannelIds -> Ptys \cup {NoPty}] /\ pty' \in [Ptys -> Process]
              /\ raced' \in SUBSET Races
BY DEF TypeOK, ConnTable, Connection, Device, Terminal, Process

LEMMA Blank == <<>> \in Seq(Frames) /\ Unused \in Connection
<1>1. <<>> \in Seq(Frames)
  BY EmptySeq
<1> QED BY <1>1 DEF Unused, Connection

LEMMA DialEffect ==
  ASSUME Typed, NEW c \in Conns, Dial(c)
  PROVE  /\ TypeOK'
         /\ \A x \in Conns : conn'[x] = IF x = c THEN [conn[x] EXCEPT !.agent = "dialing"] ELSE conn[x]
<1>0. /\ conn \in ConnTable /\ tunnel \in Conns \cup {0} /\ devices \in Conns \cup {0}
      /\ device \in [Conns -> Device] /\ shell \in [Shells -> Terminal]
      /\ channels \in [ChannelIds -> Ptys \cup {NoPty}] /\ pty \in [Ptys -> Process]
      /\ raced \in SUBSET Races
  BY TypesOf DEF Typed
<1>1. conn' \in ConnTable
  BY <1>0, ZenonT(40) DEF Dial, ConnTable, Connection
<1>2. \A x \in Conns : conn'[x] = IF x = c THEN [conn[x] EXCEPT !.agent = "dialing"] ELSE conn[x]
  BY <1>0 DEF Dial, ConnTable
<1> QED BY <1>0, <1>1, <1>2, TypesOfNext DEF Dial

LEMMA DialFailsEffect ==
  ASSUME Typed, DialFails
  PROVE  /\ TypeOK' /\ tunnel \in Conns /\ tunnel' = 0
         /\ \A x \in Conns : conn'[x] = IF x = tunnel THEN Unused ELSE conn[x]
<1>0. /\ conn \in ConnTable /\ tunnel \in Conns \cup {0} /\ devices \in Conns \cup {0}
      /\ device \in [Conns -> Device] /\ shell \in [Shells -> Terminal]
      /\ channels \in [ChannelIds -> Ptys \cup {NoPty}] /\ pty \in [Ptys -> Process]
      /\ raced \in SUBSET Races
  BY TypesOf DEF Typed
<1>1. /\ conn' \in ConnTable
      /\ \A x \in Conns : conn'[x] = IF x = tunnel THEN Unused ELSE conn[x]
  BY <1>0, Blank DEF DialFails, ConnTable
<1>2. tunnel' = 0 /\ pty' \in [Ptys -> Process] /\ raced' \in SUBSET Races
  BY <1>0, DisconnectedType DEF DialFails
<1> QED BY <1>0, <1>1, <1>2, TypesOfNext DEF DialFails

LEMMA ConnectedEffect ==
  ASSUME Typed, NEW c \in Conns, Connected(c)
  PROVE  /\ TypeOK'
         /\ \A x \in Conns : conn'[x] =
              IF x # c THEN conn[x]
              ELSE [conn[x] EXCEPT
                      !.agent = "open",
                      !.toGateway = IF conn[c].gateway = "closed" THEN @
                                    ELSE Append(@, Frame("hello", 0, NoShell))]
         /\ Frame("hello", 0, NoShell) \in Frames
<1>0. /\ conn \in ConnTable /\ tunnel \in Conns \cup {0} /\ devices \in Conns \cup {0}
      /\ device \in [Conns -> Device] /\ shell \in [Shells -> Terminal]
      /\ channels \in [ChannelIds -> Ptys \cup {NoPty}] /\ pty \in [Ptys -> Process]
      /\ raced \in SUBSET Races
  BY TypesOf DEF Typed
<1>1. Frame("hello", 0, NoShell) \in Frames
  BY FrameType, CardType
<1>2. Append(conn[c].toGateway, Frame("hello", 0, NoShell)) \in Seq(Frames)
  BY <1>0, <1>1 DEF ConnTable, Connection
<1>3. /\ conn' \in ConnTable
      /\ \A x \in Conns : conn'[x] =
           IF x # c THEN conn[x]
           ELSE [conn[x] EXCEPT
                   !.agent = "open",
                   !.toGateway = IF conn[c].gateway = "closed" THEN @
                                 ELSE Append(@, Frame("hello", 0, NoShell))]
  <2> DEFINE q == IF conn[c].gateway = "closed" THEN conn[c].toGateway
                  ELSE Append(conn[c].toGateway, Frame("hello", 0, NoShell))
  <2>1. q \in Seq(Frames)
    BY <1>0, <1>2 DEF ConnTable, Connection
  <2>2. conn' = [conn EXCEPT ![c].agent = "open", ![c].toGateway = q]
    BY DEF Connected
  <2>3. /\ conn' \in ConnTable
        /\ \A x \in Conns : conn'[x] =
             IF x # c THEN conn[x] ELSE [conn[x] EXCEPT !.agent = "open", !.toGateway = q]
    <3> HIDE DEF q
    <3> DEFINE kept == [conn[c] EXCEPT !.agent = "open", !.toGateway = q]
    <3>1. kept \in Connection
      BY <1>0, <2>1 DEF ConnTable, Connection
    <3>2. conn' = [conn EXCEPT ![c] = kept]
      BY <1>0, <2>2 DEF ConnTable
    <3>3. \A x \in Conns : conn'[x] = IF x = c THEN kept ELSE conn[x]
      BY <1>0, <3>2 DEF ConnTable
    <3>4. conn' \in ConnTable
      <4> HIDE DEF kept
      <4> QED BY <1>0, <3>1, <3>2 DEF ConnTable
    <3> QED BY <3>3, <3>4, Zenon
  <2> QED BY <2>3, Zenon
<1> QED BY <1>0, <1>1, <1>3, TypesOfNext, Zenon DEF Connected

LEMMA AgentSeesCloseEffect ==
  ASSUME Typed, NEW c \in Conns, AgentSeesClose(c)
  PROVE  /\ TypeOK' /\ tunnel' = 0
         /\ \A x \in Conns : conn'[x] =
              IF x = c THEN [conn[x] EXCEPT !.agent = "closed", !.toAgent = <<>>] ELSE conn[x]
<1>0. /\ conn \in ConnTable /\ tunnel \in Conns \cup {0} /\ devices \in Conns \cup {0}
      /\ device \in [Conns -> Device] /\ shell \in [Shells -> Terminal]
      /\ channels \in [ChannelIds -> Ptys \cup {NoPty}] /\ pty \in [Ptys -> Process]
      /\ raced \in SUBSET Races
  BY TypesOf DEF Typed
<1>1. /\ conn' \in ConnTable
      /\ \A x \in Conns : conn'[x] =
           IF x = c THEN [conn[x] EXCEPT !.agent = "closed", !.toAgent = <<>>] ELSE conn[x]
  BY <1>0, Blank, Zenon DEF AgentSeesClose, ConnTable, Connection
<1>2. tunnel' = 0 /\ pty' \in [Ptys -> Process] /\ raced' \in SUBSET Races
  BY <1>0, DisconnectedType DEF AgentSeesClose
<1> QED BY <1>0, <1>1, <1>2, TypesOfNext, Zenon DEF AgentSeesClose

LEMMA AgentRestartsEffect ==
  ASSUME Typed, AgentRestarts
  PROVE  /\ TypeOK'
         /\ \A x \in Conns : conn'[x] =
              IF x = tunnel THEN [conn[x] EXCEPT !.agent = "closed", !.toAgent = <<>>] ELSE conn[x]
<1>0. /\ conn \in ConnTable /\ tunnel \in Conns \cup {0} /\ devices \in Conns \cup {0}
      /\ device \in [Conns -> Device] /\ shell \in [Shells -> Terminal]
      /\ channels \in [ChannelIds -> Ptys \cup {NoPty}] /\ pty \in [Ptys -> Process]
      /\ raced \in SUBSET Races
  BY TypesOf DEF Typed
<1>1. /\ conn' \in ConnTable
      /\ \A x \in Conns : conn'[x] =
           IF x = tunnel THEN [conn[x] EXCEPT !.agent = "closed", !.toAgent = <<>>] ELSE conn[x]
  BY <1>0, Blank DEF AgentRestarts, ConnTable, Connection
<1>2. pty' \in [Ptys -> Process]
  BY FreePtyType, Zenon DEF AgentRestarts
<1> QED BY <1>0, <1>1, <1>2, TypesOfNext DEF AgentRestarts

LEMMA AcceptEffect ==
  ASSUME Typed, NEW c \in Conns, Accept(c)
  PROVE  /\ TypeOK'
         /\ \A x \in Conns : conn'[x] =
              IF x = c
              THEN [conn[x] EXCEPT !.gateway = "open", !.device = IF devices = 0 THEN c ELSE devices]
              ELSE IF devices # 0 /\ x = device[devices].socket /\ conn[x].gateway = "open"
              THEN [conn[x] EXCEPT !.gateway = "closing"] ELSE conn[x]
         /\ devices' = IF devices = 0 THEN c ELSE devices
         /\ \A d \in Conns : device'[d] =
              IF d # devices' THEN device[d]
              ELSE IF devices = 0 THEN FreshDevice(c)
              ELSE [device[d] EXCEPT !.socket = c, !.grace = FALSE]
         /\ UNCHANGED <<tunnel, shell, channels, pty, raced>>
<1>0. /\ conn \in ConnTable /\ tunnel \in Conns \cup {0} /\ devices \in Conns \cup {0}
      /\ device \in [Conns -> Device] /\ shell \in [Shells -> Terminal]
      /\ channels \in [ChannelIds -> Ptys \cup {NoPty}] /\ pty \in [Ptys -> Process]
      /\ raced \in SUBSET Races
  BY TypesOf DEF Typed
<1>1. CASE devices = 0
  <2>1. FreshDevice(c) \in Device
    BY DEF FreshDevice, Device
  <2>2. /\ device' \in [Conns -> Device] /\ devices' = c
        /\ \A d \in Conns : device'[d] = IF d = c THEN FreshDevice(c) ELSE device[d]
    <3>1. devices' = c /\ device' = [device EXCEPT ![c] = FreshDevice(c)]
      BY <1>1 DEF Accept
    <3> QED BY <1>0, <2>1, <3>1
  <2>3. /\ conn' \in ConnTable
        /\ \A x \in Conns : conn'[x] =
             IF x = c THEN [conn[x] EXCEPT !.gateway = "open", !.device = c] ELSE conn[x]
    <3> DEFINE kept == [conn[c] EXCEPT !.gateway = "open", !.device = c]
    <3>1. kept \in Connection
      BY <1>0, ZenonT(60) DEF ConnTable, Connection
    <3>2. conn' = [conn EXCEPT ![c].gateway = "open", ![c].device = c]
      BY <1>1 DEF Accept
    <3>3. conn' = [conn EXCEPT ![c] = kept]
      BY <1>0, <3>2 DEF ConnTable
    <3>4. \A x \in Conns : conn'[x] = IF x = c THEN kept ELSE conn[x]
      BY <1>0, <3>3 DEF ConnTable
    <3>5. conn' \in ConnTable
      <4> HIDE DEF kept
      <4> QED BY <1>0, <3>1, <3>3 DEF ConnTable
    <3> QED BY <3>4, <3>5, Zenon
  <2>4. UNCHANGED <<tunnel, shell, channels, pty, raced>>
    BY DEF Accept
  <2>5. TypeOK'
    BY <1>0, <2>2, <2>3, <2>4, TypesOfNext, Zenon
  <2> QED BY <1>1, <2>2, <2>3, <2>4, <2>5, Zenon
<1>2. CASE devices # 0
  <2> DEFINE closed == Closing(conn, device[devices].socket)
  <2>0. devices \in Conns /\ device[devices].socket \in Conns \cup {0}
    BY <1>0, <1>2 DEF Device
  <2>1. /\ closed \in ConnTable
        /\ \A x \in Conns : closed[x] =
             IF x = device[devices].socket /\ conn[x].gateway = "open"
             THEN [conn[x] EXCEPT !.gateway = "closing"] ELSE conn[x]
    BY <1>0, <2>0, ClosingEffect
  <2>2. conn[c].gateway = "none" /\ conn' = [closed EXCEPT ![c].gateway = "open", ![c].device = devices]
    BY <1>2 DEF Accept
  <2>3. /\ conn' \in ConnTable
        /\ \A x \in Conns : conn'[x] =
             IF x = c THEN [closed[x] EXCEPT !.gateway = "open", !.device = devices] ELSE closed[x]
    <3> DEFINE kept == [closed[c] EXCEPT !.gateway = "open", !.device = devices]
    <3>1. closed \in ConnTable
      BY <2>1
    <3> HIDE DEF closed
    <3>2. kept \in Connection
      BY <2>0, <3>1 DEF ConnTable, Connection
    <3>3. conn' = [closed EXCEPT ![c] = kept]
      BY <2>2, <3>1 DEF ConnTable
    <3>4. conn' \in ConnTable
      <4> HIDE DEF kept
      <4> QED BY <3>1, <3>2, <3>3 DEF ConnTable
    <3>5. \A x \in Conns : conn'[x] = IF x = c THEN kept ELSE closed[x]
      BY <3>1, <3>3 DEF ConnTable
    <3> QED BY <3>4, <3>5, Zenon
  <2>4. closed[c] = conn[c]
    BY <2>1, <2>2
  <2>5. device' = [device EXCEPT ![devices].socket = c, ![devices].grace = FALSE] /\ devices' = devices
    BY <1>2 DEF Accept
  <2>6. /\ device' \in [Conns -> Device]
        /\ \A d \in Conns : device'[d] =
             IF d # devices THEN device[d] ELSE [device[d] EXCEPT !.socket = c, !.grace = FALSE]
    BY <1>0, <2>0, <2>5, ZenonT(60) DEF Device
  <2>7. UNCHANGED <<tunnel, shell, channels, pty, raced>>
    BY DEF Accept
  <2>8. TypeOK'
    BY <1>0, <2>3, <2>5, <2>6, <2>7, TypesOfNext
  <2>9. \A x \in Conns : conn'[x] =
          IF x = c
          THEN [conn[x] EXCEPT !.gateway = "open", !.device = devices]
          ELSE IF x = device[devices].socket /\ conn[x].gateway = "open"
          THEN [conn[x] EXCEPT !.gateway = "closing"] ELSE conn[x]
    <3> HIDE DEF closed
    <3> QED BY <2>1, <2>3, <2>4, Zenon
  <2> HIDE DEF closed
  <2> QED BY <1>2, <2>5, <2>6, <2>7, <2>8, <2>9, Zenon
<1> QED BY <1>1, <1>2, Zenon

LEMMA GatewaySeesCloseEffect ==
  ASSUME Typed, NEW c \in Conns, GatewaySeesClose(c)
  PROVE  LET d == conn[c].device
             waiting == {s \in Shells : shell[s].state = "opening" /\ shell[s].device = d}
         IN  /\ TypeOK' /\ d \in Conns
             /\ \A x \in Conns : conn'[x] =
                  IF x = c THEN [conn[x] EXCEPT !.gateway = "closed", !.toGateway = <<>>] ELSE conn[x]
             /\ UNCHANGED <<tunnel, channels, pty>>
             /\ ~Current(c) => UNCHANGED <<devices, device, shell, raced>>
             /\ Current(c) =>
                  /\ \A e \in Conns : device'[e] =
                       IF e = d THEN [device[e] EXCEPT !.socket = 0, !.hello = 0, !.grace = ~Deserted(d)]
                       ELSE device[e]
                  /\ devices' = IF Deserted(d) THEN 0 ELSE devices
                  /\ \A s \in Shells : shell'[s] =
                       IF s \in waiting THEN [shell[s] EXCEPT !.state = "over", !.listed = FALSE]
                       ELSE shell[s]
                  /\ raced' = raced \cup Mark("abandonedOpen", waiting # {})
<1> DEFINE d == conn[c].device
           waiting == {s \in Shells : shell[s].state = "opening" /\ shell[s].device = d}
<1>0. /\ conn \in ConnTable /\ tunnel \in Conns \cup {0} /\ devices \in Conns \cup {0}
      /\ device \in [Conns -> Device] /\ shell \in [Shells -> Terminal]
      /\ channels \in [ChannelIds -> Ptys \cup {NoPty}] /\ pty \in [Ptys -> Process]
      /\ raced \in SUBSET Races
  BY TypesOf DEF Typed
<1>1. /\ conn' \in ConnTable
      /\ \A x \in Conns : conn'[x] =
           IF x = c THEN [conn[x] EXCEPT !.gateway = "closed", !.toGateway = <<>>] ELSE conn[x]
  BY <1>0, Blank, Zenon DEF GatewaySeesClose, ConnTable, Connection
<1>2. d \in Conns
  BY Zenon DEF GatewaySeesClose, Typed, Placed
<1>3. UNCHANGED <<tunnel, channels, pty>>
  BY Zenon DEF GatewaySeesClose
<1>4. CASE ~Current(c)
  <2>1. UNCHANGED <<devices, device, shell, raced>>
    BY <1>4 DEF GatewaySeesClose
  <2> QED BY <1>0, <1>1, <1>2, <1>3, <1>4, <2>1, TypesOfNext, Zenon
<1>5. CASE Current(c)
  <2>1. /\ device' = [device EXCEPT ![d].socket = 0, ![d].hello = 0, ![d].grace = ~Deserted(d)]
        /\ devices' = IF Deserted(d) THEN 0 ELSE devices
        /\ shell' = [s \in Shells |->
                       IF s \in waiting THEN [shell[s] EXCEPT !.state = "over", !.listed = FALSE]
                       ELSE shell[s]]
        /\ Note(Mark("abandonedOpen", waiting # {}))
    BY <1>5, Zenon DEF GatewaySeesClose
  <2>2. Deserted(d) \in BOOLEAN
    BY DEF Deserted
  <2>3. /\ device' \in [Conns -> Device]
        /\ \A e \in Conns : device'[e] =
             IF e = d THEN [device[e] EXCEPT !.socket = 0, !.hello = 0, !.grace = ~Deserted(d)]
             ELSE device[e]
    <3> DEFINE kept == [device[d] EXCEPT !.socket = 0, !.hello = 0, !.grace = ~Deserted(d)]
    <3>1. kept \in Device
      BY <1>0, <1>2, <2>2, ZenonT(60) DEF Device
    <3>2. device' = [device EXCEPT ![d] = kept]
      BY <1>0, <1>2, <2>1, Zenon
    <3>3. \A e \in Conns : device'[e] = IF e = d THEN kept ELSE device[e]
      BY <1>0, <1>2, <3>2
    <3>4. device' \in [Conns -> Device]
      <4> HIDE DEF kept
      <4> QED BY <1>0, <3>1, <3>2
    <3> QED BY <3>3, <3>4, Zenon
  <2>4. /\ shell' \in [Shells -> Terminal]
        /\ \A s \in Shells : shell'[s] =
             IF s \in waiting THEN [shell[s] EXCEPT !.state = "over", !.listed = FALSE] ELSE shell[s]
    BY <1>0, <2>1, Zenon DEF Terminal
  <2>5. raced' \in SUBSET Races /\ raced' = raced \cup Mark("abandonedOpen", waiting # {})
    BY <1>0, <2>1, NoteType, Zenon
  <2>6. devices' \in Conns \cup {0}
    BY <1>0, <2>1, Zenon
  <2>7. TypeOK'
    BY <1>0, <1>1, <1>3, <2>3, <2>4, <2>5, <2>6, TypesOfNext, Zenon
  <2> QED BY <1>1, <1>2, <1>3, <1>5, <2>1, <2>3, <2>4, <2>5, <2>7, Zenon
<1> QED BY <1>4, <1>5, Zenon

LEMMA EndChannelsEffect ==
  ASSUME shell \in [Shells -> Terminal], NEW S
  PROVE  /\ EndChannels(S) \in [Shells -> Terminal]
         /\ \A s \in Shells : EndChannels(S)[s] =
              IF s \in S
              THEN [shell[s] EXCEPT !.listed = FALSE, !.state = IF @ = "open" THEN "over" ELSE @]
              ELSE shell[s]
BY Zenon DEF EndChannels, Terminal

LEMMA GatewayGraceFiresEffect ==
  ASSUME Typed, NEW d \in Conns, GatewayGraceFires(d)
  PROVE  /\ TypeOK'
         /\ \A e \in Conns : device'[e] = IF e = d THEN [device[e] EXCEPT !.grace = FALSE] ELSE device[e]
         /\ \A s \in Shells : shell'[s] =
              IF s \in Listed(d)
              THEN [shell[s] EXCEPT !.listed = FALSE, !.state = IF @ = "open" THEN "over" ELSE @]
              ELSE shell[s]
         /\ raced' = raced \cup Mark("expiry", Inhabited)
<1>0. /\ conn \in ConnTable /\ tunnel \in Conns \cup {0} /\ devices \in Conns \cup {0}
      /\ device \in [Conns -> Device] /\ shell \in [Shells -> Terminal]
      /\ channels \in [ChannelIds -> Ptys \cup {NoPty}] /\ pty \in [Ptys -> Process]
      /\ raced \in SUBSET Races
  BY TypesOf DEF Typed
<1>1. /\ device' \in [Conns -> Device]
      /\ \A e \in Conns : device'[e] = IF e = d THEN [device[e] EXCEPT !.grace = FALSE] ELSE device[e]
  BY <1>0 DEF GatewayGraceFires, Device
<1>2. raced' \in SUBSET Races /\ raced' = raced \cup Mark("expiry", Inhabited)
  BY <1>0, NoteType DEF GatewayGraceFires
<1>3. shell' = EndChannels(Listed(d))
  BY DEF GatewayGraceFires
<1>4. /\ shell' \in [Shells -> Terminal]
      /\ \A s \in Shells : shell'[s] =
           IF s \in Listed(d)
           THEN [shell[s] EXCEPT !.listed = FALSE, !.state = IF @ = "open" THEN "over" ELSE @]
           ELSE shell[s]
  BY <1>0, <1>3, EndChannelsEffect, Zenon
<1>5. UNCHANGED <<conn, tunnel, channels, pty>> /\ devices' = 0
  BY DEF GatewayGraceFires
<1>6. TypeOK'
  BY <1>0, <1>1, <1>2, <1>4, <1>5, TypesOfNext, Zenon
<1> QED BY <1>1, <1>2, <1>4, <1>6, Zenon

LEMMA KillDeviceEffect ==
  ASSUME Typed, KillDevice
  PROVE  /\ TypeOK' /\ devices \in Conns /\ devices' = 0
         /\ \A x \in Conns :
              /\ conn'[x].agent = conn[x].agent /\ conn'[x].device = conn[x].device
              /\ conn'[x].toGateway = conn[x].toGateway
              /\ \/ conn'[x].toAgent = conn[x].toAgent /\ conn'[x].gateway = conn[x].gateway
                 \/ /\ x = device[devices].socket /\ conn[x].gateway = "open"
                    /\ conn'[x].gateway = "closing"
                    /\ conn'[x].toAgent =
                         IF conn[x].agent = "closed" THEN conn[x].toAgent
                         ELSE Append(conn[x].toAgent, Frame("kill", 0, NoShell))
         /\ \A s \in Shells : shell'[s] =
              IF s \in Listed(devices)
              THEN [shell[s] EXCEPT !.listed = FALSE, !.state = IF @ = "open" THEN "over" ELSE @]
              ELSE shell[s]
         /\ "kill" \in raced' /\ raced \subseteq raced'
         /\ device[devices].socket # 0 => conn'[device[devices].socket].gateway # "open"
<1>0. /\ conn \in ConnTable /\ tunnel \in Conns \cup {0} /\ devices \in Conns \cup {0}
      /\ device \in [Conns -> Device] /\ shell \in [Shells -> Terminal]
      /\ channels \in [ChannelIds -> Ptys \cup {NoPty}] /\ pty \in [Ptys -> Process]
      /\ raced \in SUBSET Races
  BY TypesOf DEF Typed
<1> DEFINE c == device[devices].socket
           sent == SendToAgent(conn, c, Frame("kill", 0, NoShell))
<1>1. devices \in Conns /\ c \in Conns \cup {0}
  BY <1>0 DEF KillDevice, Device
<1>2. Frame("kill", 0, NoShell) \in Frames
  BY CardType, FrameType
<1>3. /\ sent \in ConnTable
      /\ \A x \in Conns : sent[x] =
           IF x = c /\ conn[x].gateway = "open" /\ conn[x].agent # "closed"
           THEN [conn[x] EXCEPT !.toAgent = Append(@, Frame("kill", 0, NoShell))] ELSE conn[x]
  BY <1>0, <1>1, <1>2, SendToAgentEffect
<1>4. conn' = Closing(sent, c) /\ "kill" \in raced' /\ raced' \in SUBSET Races /\ raced \subseteq raced'
  BY <1>0, NoteType DEF KillDevice
<1>5. /\ conn' \in ConnTable
      /\ \A x \in Conns : conn'[x] =
           IF x = c /\ sent[x].gateway = "open" THEN [sent[x] EXCEPT !.gateway = "closing"] ELSE sent[x]
  <2> HIDE DEF sent, c
  <2> QED BY <1>1, <1>3, <1>4, ClosingEffect
<1>6. \A x \in Conns :
        /\ conn'[x].agent = conn[x].agent /\ conn'[x].device = conn[x].device
        /\ conn'[x].toGateway = conn[x].toGateway
        /\ \/ conn'[x].toAgent = conn[x].toAgent /\ conn'[x].gateway = conn[x].gateway
           \/ /\ x = c /\ conn[x].gateway = "open" /\ conn'[x].gateway = "closing"
              /\ conn'[x].toAgent =
                   IF conn[x].agent = "closed" THEN conn[x].toAgent
                   ELSE Append(conn[x].toAgent, Frame("kill", 0, NoShell))
  <2> HIDE DEF sent, c
  <2> TAKE x \in Conns
  <2>1. conn[x] \in Connection
    BY <1>0 DEF ConnTable
  <2>2. CASE x # c \/ conn[x].gateway # "open"
    <3>1. sent[x] = conn[x] /\ conn'[x] = conn[x]
      BY <1>3, <1>5, <2>2
    <3> QED BY <3>1
  <2>3. CASE x = c /\ conn[x].gateway = "open" /\ conn[x].agent = "closed"
    <3>1. conn'[x] = [conn[x] EXCEPT !.gateway = "closing"]
      BY <1>3, <1>5, <2>3
    <3> QED BY <2>1, <2>3, <3>1 DEF Connection
  <2>4. CASE x = c /\ conn[x].gateway = "open" /\ conn[x].agent # "closed"
    <3> DEFINE q == Append(conn[x].toAgent, Frame("kill", 0, NoShell))
    <3>1. sent[x] = [conn[x] EXCEPT !.toAgent = q]
      BY <1>3, <2>4
    <3> HIDE DEF q
    <3>2. conn'[x] = [sent[x] EXCEPT !.gateway = "closing"]
      BY <1>5, <2>1, <2>4, <3>1 DEF Connection
    <3>3. /\ conn'[x].agent = conn[x].agent /\ conn'[x].device = conn[x].device
          /\ conn'[x].toGateway = conn[x].toGateway /\ conn'[x].toAgent = q
          /\ conn'[x].gateway = "closing"
      BY <2>1, <3>1, <3>2 DEF Connection
    <3> QED BY <2>4, <3>3 DEF q
  <2> QED BY <2>2, <2>3, <2>4
<1>7. /\ shell' \in [Shells -> Terminal]
      /\ \A s \in Shells : shell'[s] =
           IF s \in Listed(devices)
           THEN [shell[s] EXCEPT !.listed = FALSE, !.state = IF @ = "open" THEN "over" ELSE @]
           ELSE shell[s]
  BY <1>0, EndChannelsEffect, Zenon DEF KillDevice
<1>8. UNCHANGED <<tunnel, device, channels, pty>> /\ devices' = 0
  BY DEF KillDevice
<1>9. TypeOK'
  BY <1>0, <1>4, <1>5, <1>7, <1>8, TypesOfNext, Zenon
<1>10. c # 0 => conn'[c].gateway # "open"
  <2> HIDE DEF sent, c
  <2> QED BY <1>0, <1>1, <1>3, <1>5 DEF ConnTable, Connection
<1> QED BY <1>1, <1>4, <1>6, <1>7, <1>8, <1>9, <1>10, Zenon

LEMMA GatewayRestartsEffect ==
  ASSUME Typed, GatewayRestarts
  PROVE  /\ TypeOK' /\ devices' = 0
         /\ \A x \in Conns : conn'[x] =
              IF conn[x].gateway = "none" THEN conn[x]
              ELSE [conn[x] EXCEPT !.gateway = "closed", !.toGateway = <<>>]
         /\ \A d \in Conns : device'[d] = FreshDevice(0)
         /\ \A s \in Shells : shell'[s] =
              IF shell[s].state \in {"opening", "open"}
              THEN [shell[s] EXCEPT !.state = "over", !.listed = FALSE] ELSE shell[s]
         /\ "restart" \in raced' /\ raced \subseteq raced'
<1>0. /\ conn \in ConnTable /\ tunnel \in Conns \cup {0} /\ devices \in Conns \cup {0}
      /\ device \in [Conns -> Device] /\ shell \in [Shells -> Terminal]
      /\ channels \in [ChannelIds -> Ptys \cup {NoPty}] /\ pty \in [Ptys -> Process]
      /\ raced \in SUBSET Races
  BY TypesOf DEF Typed
<1>1. /\ conn' \in ConnTable
      /\ \A x \in Conns : conn'[x] =
           IF conn[x].gateway = "none" THEN conn[x]
           ELSE [conn[x] EXCEPT !.gateway = "closed", !.toGateway = <<>>]
  <2>1. \A x \in Conns : [conn[x] EXCEPT !.gateway = "closed", !.toGateway = <<>>] \in Connection
    BY <1>0, Blank DEF ConnTable, Connection
  <2> DEFINE after(x) == [conn[x] EXCEPT !.gateway = "closed", !.toGateway = <<>>]
  <2>2. conn' = [x \in Conns |-> IF conn[x].gateway = "none" THEN conn[x] ELSE after(x)]
    BY Zenon DEF GatewayRestarts
  <2>3. \A x \in Conns : after(x) \in Connection /\ conn[x] \in Connection
    BY <1>0, <2>1, Zenon DEF ConnTable
  <2> HIDE DEF after
  <2>4. conn' \in ConnTable /\ \A x \in Conns : conn'[x] = IF conn[x].gateway = "none" THEN conn[x] ELSE after(x)
    BY <2>2, <2>3 DEF ConnTable
  <2> QED BY <2>4, Zenon DEF after
<1>2. device' \in [Conns -> Device] /\ \A d \in Conns : device'[d] = FreshDevice(0)
  <2>1. device' = [c \in Conns |-> FreshDevice(0)]
    BY Zenon DEF GatewayRestarts
  <2> QED BY <2>1 DEF FreshDevice, Device
<1>3. /\ shell' \in [Shells -> Terminal]
      /\ \A s \in Shells : shell'[s] =
           IF shell[s].state \in {"opening", "open"}
           THEN [shell[s] EXCEPT !.state = "over", !.listed = FALSE] ELSE shell[s]
  <2>1. \A s \in Shells : [shell[s] EXCEPT !.state = "over", !.listed = FALSE] \in Terminal
    BY <1>0 DEF Terminal
  <2> DEFINE after(s) == [shell[s] EXCEPT !.state = "over", !.listed = FALSE]
  <2>2. shell' = [s \in Shells |-> IF shell[s].state \in {"opening", "open"} THEN after(s) ELSE shell[s]]
    BY Zenon DEF GatewayRestarts
  <2>3. \A s \in Shells : after(s) \in Terminal /\ shell[s] \in Terminal
    BY <1>0, <2>1, Zenon
  <2> HIDE DEF after
  <2>4. /\ shell' \in [Shells -> Terminal]
        /\ \A s \in Shells : shell'[s] =
             IF shell[s].state \in {"opening", "open"} THEN after(s) ELSE shell[s]
    BY <2>2, <2>3
  <2> QED BY <2>4, Zenon DEF after
<1>4. raced' \in SUBSET Races /\ "restart" \in raced' /\ raced \subseteq raced'
  <2>1. Note({"restart"})
    BY Zenon DEF GatewayRestarts
  <2> QED BY <1>0, <2>1, NoteType
<1>5. UNCHANGED <<tunnel, channels, pty>> /\ devices' = 0
  BY Zenon DEF GatewayRestarts
<1>6. TypeOK'
  BY <1>0, <1>1, <1>2, <1>3, <1>4, <1>5, TypesOfNext, Zenon
<1> QED BY <1>1, <1>2, <1>3, <1>4, <1>5, <1>6, Zenon

LEMMA OpenShellEffect ==
  ASSUME Typed, NEW s \in Shells, OpenShell(s)
  PROVE  LET d == devices
             ch == device[d].next
             f == Frame("open", ch, s)
         IN  /\ TypeOK' /\ d \in Conns /\ Online(d) /\ shell[s].state = "idle"
             /\ ch \in ChannelIds /\ ch + 1 <= Cardinality(Opened') + 1
             /\ f \in Frames /\ f.t = "open" /\ f.ch = ch /\ f.for = s
             /\ \A x \in Shells : shell'[x] =
                  IF x = s THEN [state |-> "opening", device |-> d, ch |-> ch, listed |-> TRUE] ELSE shell[x]
             /\ \A e \in Conns : device'[e] = IF e = d THEN [device[e] EXCEPT !.next = @ + 1] ELSE device[e]
             /\ \A x \in Conns : conn'[x] =
                  IF x = device[d].socket /\ conn[x].gateway = "open" /\ conn[x].agent # "closed"
                  THEN [conn[x] EXCEPT !.toAgent = Append(@, f)] ELSE conn[x]
             /\ raced' = raced \cup Mark("staleSocket", device[d].hello # device[d].socket)
<1>0. /\ conn \in ConnTable /\ tunnel \in Conns \cup {0} /\ devices \in Conns \cup {0}
      /\ device \in [Conns -> Device] /\ shell \in [Shells -> Terminal]
      /\ channels \in [ChannelIds -> Ptys \cup {NoPty}] /\ pty \in [Ptys -> Process]
      /\ raced \in SUBSET Races
  BY TypesOf DEF Typed
<1> DEFINE d == devices
           ch == device[d].next
           f == Frame("open", ch, s)
<1>1. d \in Conns /\ Online(d) /\ shell[s].state = "idle" /\ device[d].socket \in Conns \cup {0}
  BY <1>0 DEF OpenShell, Device
<1>2. shell' = [shell EXCEPT ![s] = [state |-> "opening", device |-> d, ch |-> ch, listed |-> TRUE]]
  BY DEF OpenShell
<1>3. Opened' = Opened \cup {s} /\ s \notin Opened
  BY <1>0, <1>1, <1>2 DEF Opened
<1>4. IsFiniteSet(Opened) /\ Cardinality(Opened) \in Nat
  BY FiniteAssumption, FS_Subset, FS_CardinalityType DEF Opened
<1>5. Cardinality(Opened') = Cardinality(Opened) + 1
  BY <1>3, <1>4, FS_AddElement
<1>6. Cardinality(Opened') <= Cardinality(Shells)
  BY FiniteAssumption, FS_Subset DEF Opened
<1>7. ch \in Nat \ {0} /\ ch <= Cardinality(Opened) + 1
  BY <1>0, <1>1 DEF Typed, IdsAreFew, Device
<1>8. ch \in ChannelIds /\ ch + 1 <= Cardinality(Opened') + 1
  <2> HIDE DEF ch
  <2> QED BY <1>4, <1>5, <1>6, <1>7, CardType DEF ChannelIds
<1>9. f \in Frames /\ f.t = "open" /\ f.ch = ch /\ f.for = s
  <2> HIDE DEF ch
  <2>1. ch \in 0 .. Cardinality(Shells)
    BY <1>8, CardType DEF ChannelIds
  <2> QED BY <2>1, FrameType
<1>10. /\ shell' \in [Shells -> Terminal]
       /\ \A x \in Shells : shell'[x] =
            IF x = s THEN [state |-> "opening", device |-> d, ch |-> ch, listed |-> TRUE] ELSE shell[x]
  <2>1. ch \in 0 .. Cardinality(Shells)
    BY <1>8, CardType DEF ChannelIds
  <2> DEFINE fresh == [state |-> "opening", device |-> d, ch |-> ch, listed |-> TRUE]
  <2>2. fresh \in Terminal
    <3> HIDE DEF ch
    <3> QED BY <2>1, <1>1 DEF Terminal
  <2>3. shell' = [shell EXCEPT ![s] = fresh]
    BY <1>2
  <2> HIDE DEF fresh
  <2>4. shell' \in [Shells -> Terminal] /\ \A x \in Shells : shell'[x] = IF x = s THEN fresh ELSE shell[x]
    BY <1>0, <2>2, <2>3
  <2> QED BY <2>4 DEF fresh
<1>11. /\ device' \in [Conns -> Device]
       /\ \A e \in Conns : device'[e] = IF e = d THEN [device[e] EXCEPT !.next = @ + 1] ELSE device[e]
  <2>1. device' = [device EXCEPT ![d].next = ch + 1]
    BY DEF OpenShell
  <2>2. ch + 1 \in Nat \ {0}
    BY <1>7
  <2> QED BY <1>0, <1>1, <2>1, <2>2 DEF Device
<1>12. /\ conn' \in ConnTable
       /\ \A x \in Conns : conn'[x] =
            IF x = device[d].socket /\ conn[x].gateway = "open" /\ conn[x].agent # "closed"
            THEN [conn[x] EXCEPT !.toAgent = Append(@, f)] ELSE conn[x]
  <2>1. conn' = SendToAgent(conn, device[d].socket, f)
    BY DEF OpenShell
  <2> QED BY <1>0, <1>1, <1>9, <2>1, SendToAgentEffect
<1>13. raced' \in SUBSET Races /\ raced' = raced \cup Mark("staleSocket", device[d].hello # device[d].socket)
  BY <1>0, NoteType DEF OpenShell
<1>14. UNCHANGED <<tunnel, devices, channels, pty>>
  BY DEF OpenShell
<1>15. TypeOK'
  BY <1>0, <1>10, <1>11, <1>12, <1>13, <1>14, TypesOfNext
<1> QED BY <1>1, <1>8, <1>9, <1>10, <1>11, <1>12, <1>13, <1>15

LEMMA OpenTimesOutEffect ==
  ASSUME Typed, NEW s \in Shells, OpenTimesOut(s)
  PROVE  /\ TypeOK'
         /\ \A x \in Shells : shell'[x] =
              IF x = s THEN [shell[x] EXCEPT !.state = "over", !.listed = FALSE] ELSE shell[x]
         /\ "abandonedOpen" \in raced' /\ raced \subseteq raced'
<1>0. /\ conn \in ConnTable /\ tunnel \in Conns \cup {0} /\ devices \in Conns \cup {0}
      /\ device \in [Conns -> Device] /\ shell \in [Shells -> Terminal]
      /\ channels \in [ChannelIds -> Ptys \cup {NoPty}] /\ pty \in [Ptys -> Process]
      /\ raced \in SUBSET Races
  BY TypesOf DEF Typed
<1>1. /\ shell' \in [Shells -> Terminal]
      /\ \A x \in Shells : shell'[x] =
           IF x = s THEN [shell[x] EXCEPT !.state = "over", !.listed = FALSE] ELSE shell[x]
  <2>1. shell' = [shell EXCEPT ![s] = [shell[s] EXCEPT !.state = "over", !.listed = FALSE]]
    BY <1>0 DEF OpenTimesOut, Terminal
  <2>2. [shell[s] EXCEPT !.state = "over", !.listed = FALSE] \in Terminal
    BY <1>0 DEF Terminal
  <2> QED BY <1>0, <2>1, <2>2
<1>2. raced' \in SUBSET Races /\ "abandonedOpen" \in raced' /\ raced \subseteq raced'
  BY <1>0, NoteType DEF OpenTimesOut
<1>3. UNCHANGED <<conn, tunnel, devices, device, channels, pty>>
  BY DEF OpenTimesOut
<1> QED BY <1>0, <1>1, <1>2, <1>3, TypesOfNext, Zenon

LEMMA EndShellEffect ==
  ASSUME Typed, NEW s \in Shells, EndShell(s)
  PROVE  LET c == device[shell[s].device].socket
             f == Frame("close", shell[s].ch, s)
         IN  /\ TypeOK' /\ shell[s].device \in Conns /\ shell[s].state = "open"
             /\ f \in Frames /\ f.t = "close" /\ f.ch = shell[s].ch /\ f.for = s
             /\ \A x \in Shells : shell'[x] =
                  IF x = s THEN [shell[x] EXCEPT !.state = "over", !.listed = FALSE] ELSE shell[x]
             /\ ~shell[s].listed => UNCHANGED <<conn, raced>>
             /\ shell[s].listed =>
                  /\ \A x \in Conns : conn'[x] =
                       IF x = c /\ conn[x].gateway = "open" /\ conn[x].agent # "closed"
                       THEN [conn[x] EXCEPT !.toAgent = Append(@, f)] ELSE conn[x]
                  /\ raced' = raced \cup Mark("lostClose", conn' = conn)
<1>0. /\ conn \in ConnTable /\ tunnel \in Conns \cup {0} /\ devices \in Conns \cup {0}
      /\ device \in [Conns -> Device] /\ shell \in [Shells -> Terminal]
      /\ channels \in [ChannelIds -> Ptys \cup {NoPty}] /\ pty \in [Ptys -> Process]
      /\ raced \in SUBSET Races
  BY TypesOf DEF Typed
<1> DEFINE c == device[shell[s].device].socket
           f == Frame("close", shell[s].ch, s)
<1>1. shell[s].device \in Conns /\ shell[s].state = "open" /\ c \in Conns \cup {0}
  BY <1>0 DEF Typed, Placed, EndShell, Device
<1>2. f \in Frames /\ f.t = "close" /\ f.ch = shell[s].ch /\ f.for = s
  <2>1. shell[s].ch \in 0 .. Cardinality(Shells)
    BY <1>0 DEF Terminal
  <2> QED BY <2>1, FrameType
<1>3. /\ shell' \in [Shells -> Terminal]
      /\ \A x \in Shells : shell'[x] =
           IF x = s THEN [shell[x] EXCEPT !.state = "over", !.listed = FALSE] ELSE shell[x]
  <2>1. shell' = [shell EXCEPT ![s] = [shell[s] EXCEPT !.state = "over", !.listed = FALSE]]
    BY <1>0 DEF EndShell, Terminal
  <2>2. [shell[s] EXCEPT !.state = "over", !.listed = FALSE] \in Terminal
    BY <1>0 DEF Terminal
  <2> QED BY <1>0, <2>1, <2>2
<1>4. UNCHANGED <<tunnel, devices, device, channels, pty>>
  BY DEF EndShell
<1>5. CASE ~shell[s].listed
  <2>1. UNCHANGED <<conn, raced>>
    BY <1>5 DEF EndShell
  <2>2. TypeOK'
    BY <1>0, <1>3, <1>4, <2>1, TypesOfNext, Zenon
  <2> QED BY <1>1, <1>2, <1>3, <1>5, <2>1, <2>2, Zenon
<1>6. CASE shell[s].listed
  <2>1. conn' = SendToAgent(conn, c, f) /\ Note(Mark("lostClose", conn' = conn))
    BY <1>6 DEF EndShell
  <2>2. /\ conn' \in ConnTable
        /\ \A x \in Conns : conn'[x] =
             IF x = c /\ conn[x].gateway = "open" /\ conn[x].agent # "closed"
             THEN [conn[x] EXCEPT !.toAgent = Append(@, f)] ELSE conn[x]
    BY <1>0, <1>1, <1>2, <2>1, SendToAgentEffect
  <2>3. raced' \in SUBSET Races /\ raced' = raced \cup Mark("lostClose", conn' = conn)
    BY <1>0, <2>1, NoteType
  <2>4. TypeOK'
    BY <1>0, <1>3, <1>4, <2>2, <2>3, TypesOfNext, Zenon
  <2> QED BY <1>1, <1>2, <1>3, <1>6, <2>2, <2>3, <2>4, Zenon
<1> QED BY <1>5, <1>6, Zenon

LEMMA RecvOpenedEffect ==
  ASSUME Typed, NEW c \in Conns, RecvOpened(c)
  PROVE  LET d == conn[c].device
             f == Head(conn[c].toGateway)
         IN  /\ TypeOK' /\ d \in Conns /\ conn[c].toGateway # <<>>
             /\ conn[c].gateway \in {"open", "closing"}
             /\ f \in Frames /\ f.t = "opened"
             /\ \A x \in Conns : conn'[x] =
                  IF x = c THEN [conn[x] EXCEPT !.toGateway = Tail(@)] ELSE conn[x]
             /\ \A s \in Shells : shell'[s] =
                  IF s \in PendingOf(d, f.ch) THEN [shell[s] EXCEPT !.state = "open"] ELSE shell[s]
             /\ raced' = raced \cup Stale(c)
<1>0. /\ conn \in ConnTable /\ tunnel \in Conns \cup {0} /\ devices \in Conns \cup {0}
      /\ device \in [Conns -> Device] /\ shell \in [Shells -> Terminal]
      /\ channels \in [ChannelIds -> Ptys \cup {NoPty}] /\ pty \in [Ptys -> Process]
      /\ raced \in SUBSET Races
  BY TypesOf DEF Typed
<1> DEFINE d == conn[c].device
           f == Head(conn[c].toGateway)
<1>1. conn[c].toGateway # <<>> /\ d \in Conns /\ f.t = "opened" /\ conn[c].gateway \in {"open", "closing"}
  BY DEF RecvOpened, Arrives, Typed, Placed
<1>2. f \in Frames
  BY <1>0, <1>1, HeadToGateway
<1>3. /\ conn' \in ConnTable
      /\ \A x \in Conns : conn'[x] =
           IF x = c THEN [conn[x] EXCEPT !.toGateway = Tail(@)] ELSE conn[x]
  BY <1>0, <1>1, ReadEffect DEF RecvOpened
<1>4. /\ shell' \in [Shells -> Terminal]
      /\ \A s \in Shells : shell'[s] =
           IF s \in PendingOf(d, f.ch) THEN [shell[s] EXCEPT !.state = "open"] ELSE shell[s]
  <2>1. shell' = [s \in Shells |->
                   IF s \in PendingOf(d, f.ch) THEN [shell[s] EXCEPT !.state = "open"] ELSE shell[s]]
    BY DEF RecvOpened
  <2>2. \A s \in Shells : [shell[s] EXCEPT !.state = "open"] \in Terminal
    BY <1>0 DEF Terminal
  <2> QED BY <1>0, <2>1, <2>2
<1>5. raced' \in SUBSET Races /\ raced' = raced \cup Stale(c)
  <2>1. Note(Stale(c))
    BY DEF RecvOpened
  <2> QED BY <1>0, <2>1, NoteType
<1>6. UNCHANGED <<tunnel, devices, device, channels, pty>>
  BY DEF RecvOpened
<1>7. TypeOK'
  BY <1>0, <1>3, <1>4, <1>5, <1>6, TypesOfNext
<1> QED BY <1>1, <1>2, <1>3, <1>4, <1>5, <1>7

LEMMA RecvErrorEffect ==
  ASSUME Typed, NEW c \in Conns, RecvError(c)
  PROVE  LET d == conn[c].device
             f == Head(conn[c].toGateway)
         IN  /\ TypeOK' /\ d \in Conns /\ conn[c].toGateway # <<>>
             /\ conn[c].gateway \in {"open", "closing"}
             /\ f \in Frames /\ f.t = "error"
             /\ \A x \in Conns : conn'[x] =
                  IF x = c THEN [conn[x] EXCEPT !.toGateway = Tail(@)] ELSE conn[x]
             /\ \A s \in Shells : shell'[s] =
                  IF s \in PendingOf(d, f.ch) \cup ChannelOf(d, f.ch)
                  THEN [shell[s] EXCEPT !.state = "over", !.listed = FALSE] ELSE shell[s]
             /\ raced' = raced \cup Stale(c)
<1>0. /\ conn \in ConnTable /\ tunnel \in Conns \cup {0} /\ devices \in Conns \cup {0}
      /\ device \in [Conns -> Device] /\ shell \in [Shells -> Terminal]
      /\ channels \in [ChannelIds -> Ptys \cup {NoPty}] /\ pty \in [Ptys -> Process]
      /\ raced \in SUBSET Races
  BY TypesOf DEF Typed
<1> DEFINE d == conn[c].device
           f == Head(conn[c].toGateway)
<1>1. conn[c].toGateway # <<>> /\ d \in Conns /\ f.t = "error" /\ conn[c].gateway \in {"open", "closing"}
  BY Zenon DEF RecvError, Arrives, Typed, Placed
<1>2. f \in Frames
  BY <1>0, <1>1, HeadToGateway
<1>3. /\ conn' \in ConnTable
      /\ \A x \in Conns : conn'[x] =
           IF x = c THEN [conn[x] EXCEPT !.toGateway = Tail(@)] ELSE conn[x]
  BY <1>0, <1>1, ReadEffect, Zenon DEF RecvError
<1>4. /\ shell' \in [Shells -> Terminal]
      /\ \A s \in Shells : shell'[s] =
           IF s \in PendingOf(d, f.ch) \cup ChannelOf(d, f.ch)
           THEN [shell[s] EXCEPT !.state = "over", !.listed = FALSE] ELSE shell[s]
  <2>1. shell' = [s \in Shells |->
                   IF s \in PendingOf(d, f.ch) \cup ChannelOf(d, f.ch)
                   THEN [shell[s] EXCEPT !.state = "over", !.listed = FALSE] ELSE shell[s]]
    BY Zenon DEF RecvError
  <2>2. \A s \in Shells : [shell[s] EXCEPT !.state = "over", !.listed = FALSE] \in Terminal
    BY <1>0 DEF Terminal
  <2> QED BY <1>0, <2>1, <2>2, Zenon
<1>5. raced' \in SUBSET Races /\ raced' = raced \cup Stale(c)
  <2>1. Note(Stale(c))
    BY Zenon DEF RecvError
  <2> QED BY <1>0, <2>1, NoteType
<1>6. UNCHANGED <<tunnel, devices, device, channels, pty>>
  BY Zenon DEF RecvError
<1>7. TypeOK'
  BY <1>0, <1>3, <1>4, <1>5, <1>6, TypesOfNext, Zenon
<1> QED BY <1>1, <1>2, <1>3, <1>4, <1>5, <1>7, Zenon

LEMMA RecvExitEffect ==
  ASSUME Typed, NEW c \in Conns, RecvExit(c)
  PROVE  LET d == conn[c].device
             f == Head(conn[c].toGateway)
         IN  /\ TypeOK' /\ d \in Conns /\ conn[c].toGateway # <<>>
             /\ conn[c].gateway \in {"open", "closing"}
             /\ f \in Frames /\ f.t = "exit"
             /\ \A x \in Conns : conn'[x] =
                  IF x = c THEN [conn[x] EXCEPT !.toGateway = Tail(@)] ELSE conn[x]
             /\ \A s \in Shells : shell'[s] =
                  IF s \in ChannelOf(d, f.ch)
                  THEN [shell[s] EXCEPT !.listed = FALSE, !.state = IF @ = "open" THEN "over" ELSE @]
                  ELSE shell[s]
             /\ raced' = raced \cup Stale(c)
<1>0. /\ conn \in ConnTable /\ tunnel \in Conns \cup {0} /\ devices \in Conns \cup {0}
      /\ device \in [Conns -> Device] /\ shell \in [Shells -> Terminal]
      /\ channels \in [ChannelIds -> Ptys \cup {NoPty}] /\ pty \in [Ptys -> Process]
      /\ raced \in SUBSET Races
  BY TypesOf DEF Typed
<1> DEFINE d == conn[c].device
           f == Head(conn[c].toGateway)
<1>1. conn[c].toGateway # <<>> /\ d \in Conns /\ f.t = "exit" /\ conn[c].gateway \in {"open", "closing"}
  BY DEF RecvExit, Arrives, Typed, Placed
<1>2. f \in Frames
  BY <1>0, <1>1, HeadToGateway
<1>3. /\ conn' \in ConnTable
      /\ \A x \in Conns : conn'[x] =
           IF x = c THEN [conn[x] EXCEPT !.toGateway = Tail(@)] ELSE conn[x]
  BY <1>0, <1>1, ReadEffect DEF RecvExit
<1>4. /\ shell' \in [Shells -> Terminal]
      /\ \A s \in Shells : shell'[s] =
           IF s \in ChannelOf(d, f.ch)
           THEN [shell[s] EXCEPT !.listed = FALSE, !.state = IF @ = "open" THEN "over" ELSE @]
           ELSE shell[s]
  <2>1. shell' = EndChannels(ChannelOf(d, f.ch))
    BY DEF RecvExit
  <2> DEFINE S == ChannelOf(d, f.ch)
  <2>2. shell' = EndChannels(S)
    BY <2>1
  <2> HIDE DEF S
  <2>3. /\ shell' \in [Shells -> Terminal]
        /\ \A s \in Shells : shell'[s] =
             IF s \in S
             THEN [shell[s] EXCEPT !.listed = FALSE, !.state = IF @ = "open" THEN "over" ELSE @]
             ELSE shell[s]
    BY <1>0, <2>2, EndChannelsEffect, Zenon
  <2> QED BY <2>3, Zenon DEF S
<1>5. raced' \in SUBSET Races /\ raced' = raced \cup Stale(c)
  <2>1. Note(Stale(c))
    BY DEF RecvExit
  <2> QED BY <1>0, <2>1, NoteType
<1>6. UNCHANGED <<tunnel, devices, device, channels, pty>>
  BY DEF RecvExit
<1>7. TypeOK'
  BY <1>0, <1>3, <1>4, <1>5, <1>6, TypesOfNext, Zenon
<1> QED BY <1>1, <1>2, <1>3, <1>4, <1>5, <1>7, Zenon

LEMMA RecvOpenedAndExitEffect ==
  ASSUME Typed, NEW c \in Conns, RecvOpenedAndExit(c)
  PROVE  LET d == conn[c].device
             q == conn[c].toGateway
         IN  /\ TypeOK' /\ d \in Conns /\ q # <<>> /\ Tail(q) # <<>>
             /\ Head(q).t = "opened" /\ Head(Tail(q)).t = "exit" /\ Head(Tail(q)).ch = Head(q).ch
             /\ Head(q) \in Frames
             /\ \A x \in Conns : conn'[x] =
                  IF x = c THEN [conn[x] EXCEPT !.toGateway = Tail(Tail(q))] ELSE conn[x]
             /\ \A s \in Shells : shell'[s] =
                  IF s \in PendingOf(d, Head(q).ch)
                  THEN [shell[s] EXCEPT !.state = "open", !.listed = FALSE] ELSE shell[s]
             /\ raced' = raced \cup {"sameTick"} \cup Stale(c)
<1>0. /\ conn \in ConnTable /\ tunnel \in Conns \cup {0} /\ devices \in Conns \cup {0}
      /\ device \in [Conns -> Device] /\ shell \in [Shells -> Terminal]
      /\ channels \in [ChannelIds -> Ptys \cup {NoPty}] /\ pty \in [Ptys -> Process]
      /\ raced \in SUBSET Races
  BY TypesOf DEF Typed
<1> DEFINE d == conn[c].device
           q == conn[c].toGateway
<1>1. q # <<>> /\ d \in Conns /\ Head(q).t = "opened"
  BY Zenon DEF RecvOpenedAndExit, Arrives, Typed, Placed
<1>2. q \in Seq(Frames) /\ Len(q) > 1
  BY <1>0, Zenon DEF RecvOpenedAndExit, ConnTable, Connection
<1>3. Tail(q) \in Seq(Frames) /\ Tail(q) # <<>> /\ Head(Tail(q)) = q[2] /\ Head(q) \in Frames
  <2>1. Tail(q) \in Seq(Frames) /\ Len(Tail(q)) = Len(q) - 1 /\ Tail(q)[1] = q[2] /\ Head(q) \in Frames
    BY <1>1, <1>2, HeadTailProperties
  <2>2. Tail(q) # <<>>
    <3>1. Len(Tail(q)) > 0
      BY <1>2, <2>1, LenProperties
    <3> QED BY <3>1
  <2> QED BY <2>1, <2>2
<1>4. q[2].t = "exit" /\ q[2].ch = Head(q).ch
  <2>1. LET h == Head(conn[c].toGateway)
            g == conn[c].toGateway[2]
        IN  g.t = "exit" /\ g.ch = h.ch
    BY Zenon DEF RecvOpenedAndExit
  <2> QED BY <2>1
<1>5. Tail(Tail(q)) \in Seq(Frames)
  BY <1>3, HeadTailProperties
<1>6. /\ conn' \in ConnTable
      /\ \A x \in Conns : conn'[x] =
           IF x = c THEN [conn[x] EXCEPT !.toGateway = Tail(Tail(q))] ELSE conn[x]
  <2>1. conn' = [conn EXCEPT ![c].toGateway = Tail(Tail(q))]
    BY Zenon DEF RecvOpenedAndExit
  <2> DEFINE rest == Tail(Tail(q))
  <2>2. conn' = [conn EXCEPT ![c].toGateway = rest] /\ rest \in Seq(Frames)
    BY <1>5, <2>1
  <2> HIDE DEF rest
  <2>3. conn' \in ConnTable /\ \A x \in Conns : conn'[x] =
          IF x = c THEN [conn[x] EXCEPT !.toGateway = rest] ELSE conn[x]
    BY <1>0, <2>2, ZenonT(40) DEF ConnTable, Connection
  <2> QED BY <2>3 DEF rest
<1>7. /\ shell' \in [Shells -> Terminal]
      /\ \A s \in Shells : shell'[s] =
           IF s \in PendingOf(d, Head(q).ch)
           THEN [shell[s] EXCEPT !.state = "open", !.listed = FALSE] ELSE shell[s]
  <2>1. shell' = [s \in Shells |->
                   IF s \in PendingOf(d, Head(q).ch)
                   THEN [shell[s] EXCEPT !.state = "open", !.listed = FALSE] ELSE shell[s]]
    BY Zenon DEF RecvOpenedAndExit
  <2>2. \A s \in Shells : [shell[s] EXCEPT !.state = "open", !.listed = FALSE] \in Terminal
    BY <1>0 DEF Terminal
  <2> QED BY <1>0, <2>1, <2>2, Zenon
<1>8. raced' \in SUBSET Races /\ raced' = raced \cup {"sameTick"} \cup Stale(c)
  <2>1. Note({"sameTick"} \cup Stale(c))
    BY Zenon DEF RecvOpenedAndExit
  <2> QED BY <1>0, <2>1, NoteType
<1>9. UNCHANGED <<tunnel, devices, device, channels, pty>>
  BY Zenon DEF RecvOpenedAndExit
<1>10. TypeOK'
  BY <1>0, <1>6, <1>7, <1>8, <1>9, TypesOfNext, Zenon
<1> QED BY <1>1, <1>3, <1>4, <1>6, <1>7, <1>8, <1>10, Zenon

LEMMA RecvHelloEffect ==
  ASSUME Typed, NEW c \in Conns, RecvHello(c)
  PROVE  LET d == conn[c].device
         IN  /\ TypeOK' /\ d \in Conns /\ conn[c].toGateway # <<>>
             /\ Head(conn[c].toGateway).t = "hello"
             /\ \E ids \in InOrder(ListedIds(d)) :
                  \A x \in Conns :
                    /\ conn'[x].agent = conn[x].agent /\ conn'[x].gateway = conn[x].gateway
                    /\ conn'[x].device = conn[x].device
                    /\ conn'[x].toGateway = IF x = c THEN Tail(conn[x].toGateway) ELSE conn[x].toGateway
                    /\ conn'[x].toAgent =
                         IF x = device[d].socket /\ conn[x].gateway = "open" /\ conn[x].agent # "closed"
                         THEN conn[x].toAgent \o ResumeFrames(d, ids) ELSE conn[x].toAgent
             /\ \A e \in Conns : device'[e] = IF e = d THEN [device[e] EXCEPT !.hello = c] ELSE device[e]
             /\ raced' = raced \cup Stale(c)
<1>0. /\ conn \in ConnTable /\ tunnel \in Conns \cup {0} /\ devices \in Conns \cup {0}
      /\ device \in [Conns -> Device] /\ shell \in [Shells -> Terminal]
      /\ channels \in [ChannelIds -> Ptys \cup {NoPty}] /\ pty \in [Ptys -> Process]
      /\ raced \in SUBSET Races
  BY TypesOf DEF Typed
<1> DEFINE d == conn[c].device
<1>1. conn[c].toGateway # <<>> /\ d \in Conns /\ Head(conn[c].toGateway).t = "hello"
  BY DEF RecvHello, Arrives, Typed, Placed
<1>2. PICK ids \in InOrder(ListedIds(d)) : conn' = ResumeChannels(Read(c), d, ids)
  BY DEF RecvHello
<1>3. /\ Read(c) \in ConnTable
      /\ \A x \in Conns :
           Read(c)[x] = IF x = c THEN [conn[x] EXCEPT !.toGateway = Tail(@)] ELSE conn[x]
  BY <1>0, <1>1, ReadEffect
<1>4. /\ conn' \in ConnTable
      /\ \A x \in Conns : conn'[x] =
           IF x = device[d].socket /\ Read(c)[x].gateway = "open" /\ Read(c)[x].agent # "closed"
           THEN [Read(c)[x] EXCEPT !.toAgent = @ \o ResumeFrames(d, ids)] ELSE Read(c)[x]
  BY <1>0, <1>1, <1>2, <1>3, ResumeChannelsEffect, ZenonT(40)
<1>5. \A x \in Conns :
        /\ conn'[x].agent = conn[x].agent /\ conn'[x].gateway = conn[x].gateway
        /\ conn'[x].device = conn[x].device
        /\ conn'[x].toGateway = IF x = c THEN Tail(conn[x].toGateway) ELSE conn[x].toGateway
        /\ conn'[x].toAgent =
             IF x = device[d].socket /\ conn[x].gateway = "open" /\ conn[x].agent # "closed"
             THEN conn[x].toAgent \o ResumeFrames(d, ids) ELSE conn[x].toAgent
  <2> TAKE x \in Conns
  <2>1. /\ Read(c)[x].agent = conn[x].agent /\ Read(c)[x].gateway = conn[x].gateway
        /\ Read(c)[x].device = conn[x].device /\ Read(c)[x].toAgent = conn[x].toAgent
        /\ Read(c)[x].toGateway = IF x = c THEN Tail(conn[x].toGateway) ELSE conn[x].toGateway
    BY <1>0, <1>3 DEF ConnTable, Connection
  <2> DEFINE more == Read(c)[x].toAgent \o ResumeFrames(d, ids)
             sent == x = device[d].socket /\ Read(c)[x].gateway = "open" /\ Read(c)[x].agent # "closed"
  <2>2. CASE sent
    <3>1. conn'[x] = [Read(c)[x] EXCEPT !.toAgent = more]
      BY <1>4, <2>2, Zenon
    <3>2. /\ conn'[x].agent = Read(c)[x].agent /\ conn'[x].gateway = Read(c)[x].gateway
          /\ conn'[x].device = Read(c)[x].device /\ conn'[x].toAgent = more
          /\ conn'[x].toGateway = Read(c)[x].toGateway
      <4> HIDE DEF more
      <4> QED BY <1>3, <3>1 DEF ConnTable, Connection
    <3> QED BY <2>1, <2>2, <3>2, Zenon
  <2>3. CASE ~sent
    BY <1>4, <2>1, <2>3
  <2> QED BY <2>2, <2>3
<1>6. /\ device' \in [Conns -> Device]
      /\ \A e \in Conns : device'[e] = IF e = d THEN [device[e] EXCEPT !.hello = c] ELSE device[e]
  <2>1. device' = [device EXCEPT ![d].hello = c]
    BY DEF RecvHello
  <2> QED BY <1>0, <1>1, <2>1 DEF Device
<1>7. raced' \in SUBSET Races /\ raced' = raced \cup Stale(c)
  <2>1. Note(Stale(c))
    BY DEF RecvHello
  <2> QED BY <1>0, <2>1, NoteType
<1>8. UNCHANGED <<tunnel, devices, shell, channels, pty>>
  BY DEF RecvHello
<1>9. TypeOK'
  BY <1>0, <1>4, <1>6, <1>7, <1>8, TypesOfNext
<1> QED BY <1>1, <1>5, <1>6, <1>7, <1>9

\* A frame is taken from connection c and answered over the tunnel in use.
LEMMA AnswerEffect ==
  ASSUME TypeOK, NEW c \in Conns, conn[c].toAgent # <<>>, NEW f \in Frames,
         conn' = SendToGateway(Taken(c), f)
  PROVE  /\ conn' \in ConnTable
         /\ \A x \in Conns :
              /\ conn'[x].agent = conn[x].agent /\ conn'[x].gateway = conn[x].gateway
              /\ conn'[x].device = conn[x].device
              /\ conn'[x].toAgent = IF x = c THEN Tail(conn[x].toAgent) ELSE conn[x].toAgent
              /\ conn'[x].toGateway =
                   IF x = tunnel /\ conn[x].agent = "open" /\ conn[x].gateway # "closed"
                   THEN Append(conn[x].toGateway, f) ELSE conn[x].toGateway
<1>0. conn \in ConnTable /\ tunnel \in Conns \cup {0}
  BY TypesOf
<1>1. /\ Taken(c) \in ConnTable
      /\ \A x \in Conns :
           Taken(c)[x] = IF x = c THEN [conn[x] EXCEPT !.toAgent = Tail(@)] ELSE conn[x]
  BY <1>0, TakenEffect
<1>2. /\ conn' \in ConnTable
      /\ \A x \in Conns : conn'[x] =
           IF x = tunnel /\ Taken(c)[x].agent = "open" /\ Taken(c)[x].gateway # "closed"
           THEN [Taken(c)[x] EXCEPT !.toGateway = Append(@, f)] ELSE Taken(c)[x]
  BY <1>0, <1>1, SendToGatewayEffect
<1> SUFFICES ASSUME NEW x \in Conns
             PROVE  /\ conn'[x].agent = conn[x].agent /\ conn'[x].gateway = conn[x].gateway
                    /\ conn'[x].device = conn[x].device
                    /\ conn'[x].toAgent = IF x = c THEN Tail(conn[x].toAgent) ELSE conn[x].toAgent
                    /\ conn'[x].toGateway =
                         IF x = tunnel /\ conn[x].agent = "open" /\ conn[x].gateway # "closed"
                         THEN Append(conn[x].toGateway, f) ELSE conn[x].toGateway
  BY <1>2
<1>3. /\ Taken(c)[x].agent = conn[x].agent /\ Taken(c)[x].gateway = conn[x].gateway
      /\ Taken(c)[x].device = conn[x].device /\ Taken(c)[x].toGateway = conn[x].toGateway
      /\ Taken(c)[x].toAgent = IF x = c THEN Tail(conn[x].toAgent) ELSE conn[x].toAgent
  BY <1>0, <1>1 DEF ConnTable, Connection
<1>4. CASE x = tunnel /\ Taken(c)[x].agent = "open" /\ Taken(c)[x].gateway # "closed"
  <2> DEFINE more == Append(Taken(c)[x].toGateway, f)
  <2>1. conn'[x] = [Taken(c)[x] EXCEPT !.toGateway = more]
    BY <1>2, <1>4
  <2>2. /\ conn'[x].agent = Taken(c)[x].agent /\ conn'[x].gateway = Taken(c)[x].gateway
        /\ conn'[x].device = Taken(c)[x].device /\ conn'[x].toGateway = more
        /\ conn'[x].toAgent = Taken(c)[x].toAgent
    <3> HIDE DEF more
    <3> QED BY <1>1, <2>1 DEF ConnTable, Connection
  <2> QED BY <1>3, <1>4, <2>2
<1>5. CASE ~(x = tunnel /\ Taken(c)[x].agent = "open" /\ Taken(c)[x].gateway # "closed")
  BY <1>2, <1>3, <1>5
<1> QED BY <1>4, <1>5

LEMMA RecvOpenHeldEffect ==
  ASSUME Typed, NEW c \in Conns, RecvOpenHeld(c)
  PROVE  LET f == Head(conn[c].toAgent)
             p == channels[f.ch]
             g == Frame(IF pty[p].attached THEN "error" ELSE "opened", f.ch, f.for)
         IN  /\ TypeOK' /\ conn[c].agent = "open" /\ conn[c].toAgent # <<>>
             /\ f \in Frames /\ f.t = "open" /\ p # NoPty
             /\ g \in Frames /\ g.t = (IF pty[p].attached THEN "error" ELSE "opened")
             /\ g.ch = f.ch /\ g.for = f.for
             /\ \A x \in Conns :
                  /\ conn'[x].agent = conn[x].agent /\ conn'[x].gateway = conn[x].gateway
                  /\ conn'[x].device = conn[x].device
                  /\ conn'[x].toAgent = IF x = c THEN Tail(conn[x].toAgent) ELSE conn[x].toAgent
                  /\ conn'[x].toGateway =
                       IF x = tunnel /\ conn[x].agent = "open" /\ conn[x].gateway # "closed"
                       THEN Append(conn[x].toGateway, g) ELSE conn[x].toGateway
             /\ \A x \in Ptys : pty'[x] =
                  IF x = p /\ ~pty[p].attached
                  THEN [pty[x] EXCEPT !.attached = TRUE, !.timer = FALSE, !.bound = f.for] ELSE pty[x]
<1>0. /\ conn \in ConnTable /\ tunnel \in Conns \cup {0} /\ devices \in Conns \cup {0}
      /\ device \in [Conns -> Device] /\ shell \in [Shells -> Terminal]
      /\ channels \in [ChannelIds -> Ptys \cup {NoPty}] /\ pty \in [Ptys -> Process]
      /\ raced \in SUBSET Races
  BY TypesOf DEF Typed
<1> DEFINE f == Head(conn[c].toAgent)
           p == channels[f.ch]
           g == Frame(IF pty[p].attached THEN "error" ELSE "opened", f.ch, f.for)
<1>1. conn[c].agent = "open" /\ conn[c].toAgent # <<>> /\ f.t = "open" /\ p # NoPty
  BY DEF RecvOpenHeld, Reaches
<1>2. f \in Frames
  BY <1>0, <1>1, HeadToAgent
<1>3. f.ch \in 0 .. Cardinality(Shells) /\ f.for \in Shells \cup {NoShell}
  BY <1>2 DEF Frames
<1>4. /\ g \in Frames /\ g.t = (IF pty[p].attached THEN "error" ELSE "opened")
      /\ g.ch = f.ch /\ g.for = f.for
  <2> DEFINE t == IF pty[p].attached THEN "error" ELSE "opened"
  <2>1. t \in {"open", "close", "kill", "hello", "opened", "error", "exit"}
    OBVIOUS
  <2>2. g = Frame(t, f.ch, f.for)
    OBVIOUS
  <2>3. t = (IF pty[p].attached THEN "error" ELSE "opened")
    OBVIOUS
  <2> HIDE DEF t, g, f, p
  <2>4. g \in Frames /\ g.t = t /\ g.ch = f.ch /\ g.for = f.for
    BY <1>3, <2>1, <2>2, FrameType
  <2> QED BY <2>3, <2>4
<1>5. conn' = SendToGateway(Taken(c), g)
  <2>1. CASE pty[p].attached
    BY <2>1 DEF RecvOpenHeld
  <2>2. CASE ~pty[p].attached
    BY <2>2 DEF RecvOpenHeld
  <2> QED BY <2>1, <2>2
<1>6. /\ conn' \in ConnTable
      /\ \A x \in Conns :
           /\ conn'[x].agent = conn[x].agent /\ conn'[x].gateway = conn[x].gateway
           /\ conn'[x].device = conn[x].device
           /\ conn'[x].toAgent = IF x = c THEN Tail(conn[x].toAgent) ELSE conn[x].toAgent
           /\ conn'[x].toGateway =
                IF x = tunnel /\ conn[x].agent = "open" /\ conn[x].gateway # "closed"
                THEN Append(conn[x].toGateway, g) ELSE conn[x].toGateway
  <2> HIDE DEF g, f
  <2> QED BY <1>1, <1>4, <1>5, AnswerEffect DEF Typed, f
<1>7. pty' = IF pty[p].attached THEN pty
             ELSE [pty EXCEPT ![p].attached = TRUE, ![p].timer = FALSE, ![p].bound = f.for]
  <2>1. CASE pty[p].attached
    BY <2>1 DEF RecvOpenHeld
  <2>2. CASE ~pty[p].attached
    <3>1. pty' = Resume(p, f.for)
      BY <2>2 DEF RecvOpenHeld
    <3> QED BY <2>2, <3>1, ZenonT(40) DEF Resume
  <2> QED BY <2>1, <2>2, Zenon
<1>8. /\ pty' \in [Ptys -> Process]
      /\ \A x \in Ptys : pty'[x] =
           IF x = p /\ ~pty[p].attached
           THEN [pty[x] EXCEPT !.attached = TRUE, !.timer = FALSE, !.bound = f.for] ELSE pty[x]
  <2> HIDE DEF f, p
  <2>1. CASE pty[p].attached
    BY <1>0, <1>7, <2>1
  <2>2. CASE ~pty[p].attached /\ p \notin Ptys
    <3>1. pty' = pty
      BY <1>0, <1>7, <2>2
    <3> QED BY <1>0, <2>2, <3>1, Zenon
  <2>3. CASE ~pty[p].attached /\ p \in Ptys
    <3> DEFINE kept == [pty[p] EXCEPT !.attached = TRUE, !.timer = FALSE, !.bound = f.for]
    <3>1. kept \in Process
      BY <1>0, <1>3, <2>3, ZenonT(60) DEF Process
    <3>2. pty' = [pty EXCEPT ![p] = kept]
      BY <1>0, <1>7, <2>3
    <3>3. \A x \in Ptys : pty'[x] = IF x = p THEN kept ELSE pty[x]
      BY <1>0, <2>3, <3>2
    <3>4. pty' \in [Ptys -> Process]
      <4> HIDE DEF kept
      <4> QED BY <1>0, <3>1, <3>2
    <3> QED BY <2>3, <3>3, <3>4, Zenon
  <2> QED BY <2>1, <2>2, <2>3, Zenon
<1>9. UNCHANGED <<tunnel, devices, device, shell, channels, raced>>
  BY DEF RecvOpenHeld
<1>10. TypeOK'
  BY <1>0, <1>6, <1>8, <1>9, TypesOfNext, Zenon
<1> QED BY <1>1, <1>2, <1>4, <1>6, <1>8, <1>10, Zenon

LEMMA RecvOpenNewEffect ==
  ASSUME Typed, NEW c \in Conns, NEW p \in Ptys, RecvOpenNew(c, p)
  PROVE  LET f == Head(conn[c].toAgent)
         IN  /\ TypeOK' /\ conn[c].agent = "open" /\ conn[c].toAgent # <<>>
             /\ f \in Frames /\ f.t = "open" /\ channels[f.ch] = NoPty /\ pty[p].state = "free"
             /\ \A x \in Conns : conn'[x] =
                  IF x = c THEN [conn[x] EXCEPT !.toAgent = Tail(@)] ELSE conn[x]
             /\ \A x \in Ptys : pty'[x] =
                  IF x = p THEN [FreePty EXCEPT !.state = "spawning", !.ch = f.ch,
                                                !.owner = f.for, !.bound = f.for] ELSE pty[x]
<1>0. /\ conn \in ConnTable /\ tunnel \in Conns \cup {0} /\ devices \in Conns \cup {0}
      /\ device \in [Conns -> Device] /\ shell \in [Shells -> Terminal]
      /\ channels \in [ChannelIds -> Ptys \cup {NoPty}] /\ pty \in [Ptys -> Process]
      /\ raced \in SUBSET Races
  BY TypesOf DEF Typed
<1> DEFINE f == Head(conn[c].toAgent)
           fresh == [FreePty EXCEPT !.state = "spawning", !.ch = f.ch, !.owner = f.for, !.bound = f.for]
<1>1. /\ conn[c].agent = "open" /\ conn[c].toAgent # <<>> /\ f.t = "open" /\ channels[f.ch] = NoPty
      /\ pty[p].state = "free"
  BY DEF RecvOpenNew, Reaches
<1>2. f \in Frames
  BY <1>0, <1>1, HeadToAgent
<1>3. f.ch \in 0 .. Cardinality(Shells) /\ f.for \in Shells \cup {NoShell}
  BY <1>2 DEF Frames
<1>4. fresh \in Process
  <2> HIDE DEF f
  <2> QED BY <1>3, FreePtyType DEF Process, FreePty
<1>5. pty' = [pty EXCEPT ![p] = fresh] /\ conn' = Taken(c)
  BY DEF RecvOpenNew
<1>6. pty' \in [Ptys -> Process] /\ \A x \in Ptys : pty'[x] = IF x = p THEN fresh ELSE pty[x]
  <2> HIDE DEF fresh
  <2> QED BY <1>0, <1>4, <1>5
<1>7. /\ conn' \in ConnTable
      /\ \A x \in Conns : conn'[x] =
           IF x = c THEN [conn[x] EXCEPT !.toAgent = Tail(@)] ELSE conn[x]
  BY <1>0, <1>1, <1>5, TakenEffect
<1>8. UNCHANGED <<tunnel, devices, device, shell, channels, raced>>
  BY DEF RecvOpenNew
<1>9. TypeOK'
  BY <1>0, <1>6, <1>7, <1>8, TypesOfNext
<1> QED BY <1>1, <1>2, <1>6, <1>7, <1>9

LEMMA RecvOpenRefusedEffect ==
  ASSUME Typed, NEW c \in Conns, RecvOpenRefused(c)
  PROVE  LET f == Head(conn[c].toAgent)
             g == Frame("error", f.ch, f.for)
         IN  /\ TypeOK' /\ conn[c].agent = "open" /\ conn[c].toAgent # <<>>
             /\ f \in Frames /\ f.t = "open" /\ channels[f.ch] = NoPty
             /\ g \in Frames /\ g.t = "error" /\ g.ch = f.ch /\ g.for = f.for
             /\ \A x \in Conns :
                  /\ conn'[x].agent = conn[x].agent /\ conn'[x].gateway = conn[x].gateway
                  /\ conn'[x].device = conn[x].device
                  /\ conn'[x].toAgent = IF x = c THEN Tail(conn[x].toAgent) ELSE conn[x].toAgent
                  /\ conn'[x].toGateway =
                       IF x = tunnel /\ conn[x].agent = "open" /\ conn[x].gateway # "closed"
                       THEN Append(conn[x].toGateway, g) ELSE conn[x].toGateway
<1>0. /\ conn \in ConnTable /\ tunnel \in Conns \cup {0} /\ devices \in Conns \cup {0}
      /\ device \in [Conns -> Device] /\ shell \in [Shells -> Terminal]
      /\ channels \in [ChannelIds -> Ptys \cup {NoPty}] /\ pty \in [Ptys -> Process]
      /\ raced \in SUBSET Races
  BY TypesOf DEF Typed
<1> DEFINE f == Head(conn[c].toAgent)
           g == Frame("error", f.ch, f.for)
<1>1. conn[c].agent = "open" /\ conn[c].toAgent # <<>> /\ f.t = "open" /\ channels[f.ch] = NoPty
  BY DEF RecvOpenRefused, Reaches
<1>2. f \in Frames
  BY <1>0, <1>1, HeadToAgent
<1>3. f.ch \in 0 .. Cardinality(Shells) /\ f.for \in Shells \cup {NoShell}
  BY <1>2 DEF Frames
<1>4. g \in Frames /\ g.t = "error" /\ g.ch = f.ch /\ g.for = f.for
  BY <1>3, FrameType
<1>5. conn' = SendToGateway(Taken(c), g)
  BY DEF RecvOpenRefused
<1>6. /\ conn' \in ConnTable
      /\ \A x \in Conns :
           /\ conn'[x].agent = conn[x].agent /\ conn'[x].gateway = conn[x].gateway
           /\ conn'[x].device = conn[x].device
           /\ conn'[x].toAgent = IF x = c THEN Tail(conn[x].toAgent) ELSE conn[x].toAgent
           /\ conn'[x].toGateway =
                IF x = tunnel /\ conn[x].agent = "open" /\ conn[x].gateway # "closed"
                THEN Append(conn[x].toGateway, g) ELSE conn[x].toGateway
  <2> HIDE DEF g, f
  <2> QED BY <1>1, <1>4, <1>5, AnswerEffect DEF Typed, f
<1>7. UNCHANGED <<tunnel, devices, device, shell, channels, pty, raced>>
  BY DEF RecvOpenRefused
<1>8. TypeOK'
  BY <1>0, <1>6, <1>7, TypesOfNext
<1> QED BY <1>1, <1>2, <1>4, <1>6, <1>8

LEMMA SpawnedEffect ==
  ASSUME Typed, NEW p \in Ptys, Spawned(p)
  PROVE  LET g == Frame("opened", pty[p].ch, pty[p].owner)
         IN  /\ TypeOK' /\ pty[p].state = "spawning"
             /\ g \in Frames /\ g.t = "opened" /\ g.ch = pty[p].ch /\ g.for = pty[p].owner
             /\ \A x \in Conns : conn'[x] =
                  IF x = tunnel /\ conn[x].agent = "open" /\ conn[x].gateway # "closed"
                  THEN [conn[x] EXCEPT !.toGateway = Append(@, g)] ELSE conn[x]
             /\ \A x \in Ptys : pty'[x] =
                  IF x = p THEN [pty[x] EXCEPT !.state = "alive", !.attached = TRUE] ELSE pty[x]
             /\ \A i \in ChannelIds : channels'[i] = IF i = pty[p].ch THEN p ELSE channels[i]
<1>0. /\ conn \in ConnTable /\ tunnel \in Conns \cup {0} /\ devices \in Conns \cup {0}
      /\ device \in [Conns -> Device] /\ shell \in [Shells -> Terminal]
      /\ channels \in [ChannelIds -> Ptys \cup {NoPty}] /\ pty \in [Ptys -> Process]
      /\ raced \in SUBSET Races
  BY TypesOf DEF Typed
<1> DEFINE g == Frame("opened", pty[p].ch, pty[p].owner)
           kept == [pty[p] EXCEPT !.state = "alive", !.attached = TRUE]
<1>1. g \in Frames /\ g.t = "opened" /\ g.ch = pty[p].ch /\ g.for = pty[p].owner
  BY <1>0, FrameType DEF Process
<1>2. conn' = SendToGateway(conn, g) /\ pty[p].state = "spawning"
  BY DEF Spawned
<1>3. /\ conn' \in ConnTable
      /\ \A x \in Conns : conn'[x] =
           IF x = tunnel /\ conn[x].agent = "open" /\ conn[x].gateway # "closed"
           THEN [conn[x] EXCEPT !.toGateway = Append(@, g)] ELSE conn[x]
  <2> HIDE DEF g
  <2> QED BY <1>0, <1>1, <1>2, SendToGatewayEffect
<1>4. kept \in Process
  BY <1>0 DEF Process
<1>5. pty' = [pty EXCEPT ![p].state = "alive", ![p].attached = TRUE]
  BY DEF Spawned
<1>6. pty' = [pty EXCEPT ![p] = kept]
  BY <1>0, <1>5
<1>7. pty' \in [Ptys -> Process] /\ \A x \in Ptys : pty'[x] = IF x = p THEN kept ELSE pty[x]
  <2> HIDE DEF kept
  <2> QED BY <1>0, <1>4, <1>6
<1>8. /\ channels' \in [ChannelIds -> Ptys \cup {NoPty}]
      /\ \A i \in ChannelIds : channels'[i] = IF i = pty[p].ch THEN p ELSE channels[i]
  <2>1. channels' = [channels EXCEPT ![pty[p].ch] = p]
    BY DEF Spawned
  <2> QED BY <1>0, <2>1
<1>9. UNCHANGED <<tunnel, devices, device, shell, raced>>
  BY DEF Spawned
<1>10. TypeOK'
  BY <1>0, <1>3, <1>7, <1>8, <1>9, TypesOfNext
<1> QED BY <1>1, <1>2, <1>3, <1>7, <1>8, <1>10, Zenon

LEMMA SpawnFailsEffect ==
  ASSUME Typed, NEW p \in Ptys, SpawnFails(p)
  PROVE  LET g == Frame("error", pty[p].ch, pty[p].owner)
         IN  /\ TypeOK' /\ pty[p].state = "spawning"
             /\ g \in Frames /\ g.t = "error" /\ g.ch = pty[p].ch /\ g.for = pty[p].owner
             /\ \A x \in Conns : conn'[x] =
                  IF x = tunnel /\ conn[x].agent = "open" /\ conn[x].gateway # "closed"
                  THEN [conn[x] EXCEPT !.toGateway = Append(@, g)] ELSE conn[x]
             /\ \A x \in Ptys : pty'[x] = IF x = p THEN FreePty ELSE pty[x]
<1>0. /\ conn \in ConnTable /\ tunnel \in Conns \cup {0} /\ devices \in Conns \cup {0}
      /\ device \in [Conns -> Device] /\ shell \in [Shells -> Terminal]
      /\ channels \in [ChannelIds -> Ptys \cup {NoPty}] /\ pty \in [Ptys -> Process]
      /\ raced \in SUBSET Races
  BY TypesOf DEF Typed
<1> DEFINE g == Frame("error", pty[p].ch, pty[p].owner)
<1>1. g \in Frames /\ g.t = "error" /\ g.ch = pty[p].ch /\ g.for = pty[p].owner
  BY <1>0, FrameType DEF Process
<1>2. conn' = SendToGateway(conn, g) /\ pty[p].state = "spawning" /\ pty' = [pty EXCEPT ![p] = FreePty]
  BY DEF SpawnFails
<1>3. /\ conn' \in ConnTable
      /\ \A x \in Conns : conn'[x] =
           IF x = tunnel /\ conn[x].agent = "open" /\ conn[x].gateway # "closed"
           THEN [conn[x] EXCEPT !.toGateway = Append(@, g)] ELSE conn[x]
  <2> HIDE DEF g
  <2> QED BY <1>0, <1>1, <1>2, SendToGatewayEffect
<1>4. pty' \in [Ptys -> Process] /\ \A x \in Ptys : pty'[x] = IF x = p THEN FreePty ELSE pty[x]
  BY <1>0, <1>2, FreePtyType
<1>5. UNCHANGED <<tunnel, devices, device, shell, channels, raced>>
  BY DEF SpawnFails
<1>6. TypeOK'
  BY <1>0, <1>3, <1>4, <1>5, TypesOfNext
<1> QED BY <1>1, <1>2, <1>3, <1>4, <1>6

LEMMA RecvCloseEffect ==
  ASSUME Typed, NEW c \in Conns, RecvClose(c)
  PROVE  LET f == Head(conn[c].toAgent)
         IN  /\ TypeOK' /\ conn[c].agent = "open" /\ conn[c].toAgent # <<>>
             /\ f \in Frames /\ f.t = "close"
             /\ \A x \in Conns : conn'[x] =
                  IF x = c THEN [conn[x] EXCEPT !.toAgent = Tail(@)] ELSE conn[x]
             /\ \A x \in Ptys :
                  /\ x # channels[f.ch] => pty'[x] = pty[x]
                  /\ x = channels[f.ch] =>
                       /\ pty'[x].state = (IF pty[x].state = "alive" THEN "killed" ELSE pty[x].state)
                       /\ pty'[x].ch = pty[x].ch /\ pty'[x].attached = pty[x].attached
                       /\ pty'[x].timer = FALSE /\ pty'[x].stray = pty[x].stray
                       /\ pty'[x].owner = pty[x].owner /\ pty'[x].bound = pty[x].bound
             /\ \A i \in ChannelIds : channels'[i] = IF i = f.ch THEN NoPty ELSE channels[i]
             /\ raced' = raced \cup Mark("closeWhileSpawning", Spawning(f.ch))
<1>0. /\ conn \in ConnTable /\ tunnel \in Conns \cup {0} /\ devices \in Conns \cup {0}
      /\ device \in [Conns -> Device] /\ shell \in [Shells -> Terminal]
      /\ channels \in [ChannelIds -> Ptys \cup {NoPty}] /\ pty \in [Ptys -> Process]
      /\ raced \in SUBSET Races
  BY TypesOf DEF Typed
<1> DEFINE f == Head(conn[c].toAgent)
<1>1. conn[c].agent = "open" /\ conn[c].toAgent # <<>> /\ f.t = "close" /\ conn' = Taken(c)
  BY DEF RecvClose, Reaches
<1>2. f \in Frames
  BY <1>0, <1>1, HeadToAgent
<1>3. /\ conn' \in ConnTable
      /\ \A x \in Conns : conn'[x] = IF x = c THEN [conn[x] EXCEPT !.toAgent = Tail(@)] ELSE conn[x]
  BY <1>0, <1>1, TakenEffect
<1> DEFINE cleared == Disarm(pty, f.ch)
<1>4. /\ cleared \in [Ptys -> Process]
      /\ \A x \in Ptys : cleared[x] =
           IF x = channels[f.ch] THEN [pty[x] EXCEPT !.timer = FALSE] ELSE pty[x]
  <2> DEFINE k == f.ch
  <2>0. k \in 0 .. Cardinality(Shells)
    BY <1>2 DEF Frames
  <2> HIDE DEF k
  <2>1. /\ Disarm(pty, k) \in [Ptys -> Process]
        /\ \A x \in Ptys : Disarm(pty, k)[x] =
             IF x = channels[k] THEN [pty[x] EXCEPT !.timer = FALSE] ELSE pty[x]
    BY <1>0, <2>0, DisarmEffect
  <2> QED BY <2>1 DEF k
<1>5. pty' = Kill(cleared, {channels[f.ch]})
  BY DEF RecvClose
<1>6. /\ pty' \in [Ptys -> Process]
      /\ \A x \in Ptys : pty'[x] =
           IF x \in {channels[f.ch]} /\ cleared[x].state = "alive"
           THEN [cleared[x] EXCEPT !.state = "killed"] ELSE cleared[x]
  <2> HIDE DEF cleared
  <2> QED BY <1>4, <1>5, KillEffect
<1>7. \A x \in Ptys :
        /\ x # channels[f.ch] => pty'[x] = pty[x]
        /\ x = channels[f.ch] =>
             /\ pty'[x].state = (IF pty[x].state = "alive" THEN "killed" ELSE pty[x].state)
             /\ pty'[x].ch = pty[x].ch /\ pty'[x].attached = pty[x].attached
             /\ pty'[x].timer = FALSE /\ pty'[x].stray = pty[x].stray
             /\ pty'[x].owner = pty[x].owner /\ pty'[x].bound = pty[x].bound
  <2> HIDE DEF cleared, f
  <2> QED BY <1>0, <1>4, <1>6 DEF Process
<1>8. /\ channels' \in [ChannelIds -> Ptys \cup {NoPty}]
      /\ \A i \in ChannelIds : channels'[i] = IF i = f.ch THEN NoPty ELSE channels[i]
  <2>1. channels' = [channels EXCEPT ![f.ch] = NoPty]
    BY DEF RecvClose
  <2> QED BY <1>0, <2>1
<1>9. raced' \in SUBSET Races /\ raced' = raced \cup Mark("closeWhileSpawning", Spawning(f.ch))
  <2>1. Note(Mark("closeWhileSpawning", Spawning(f.ch)))
    BY DEF RecvClose
  <2> QED BY <1>0, <2>1, NoteType
<1>10. UNCHANGED <<tunnel, devices, device, shell>>
  BY DEF RecvClose
<1>11. TypeOK'
  BY <1>0, <1>3, <1>6, <1>8, <1>9, <1>10, TypesOfNext
<1> QED BY <1>1, <1>2, <1>3, <1>7, <1>8, <1>9, <1>11

LEMMA RecvKillEffect ==
  ASSUME Typed, NEW c \in Conns, RecvKill(c)
  PROVE  /\ TypeOK' /\ conn[c].agent = "open" /\ conn[c].toAgent # <<>>
         /\ Head(conn[c].toAgent) \in Frames /\ Head(conn[c].toAgent).t = "kill"
         /\ \A x \in Conns : conn'[x] =
              IF x = c THEN [conn[x] EXCEPT !.agent = "closing", !.toAgent = Tail(@)] ELSE conn[x]
         /\ \A x \in Ptys :
              /\ x \notin Held => pty'[x] = pty[x]
              /\ x \in Held =>
                   /\ pty'[x].state = (IF pty[x].state = "alive" THEN "killed" ELSE pty[x].state)
                   /\ pty'[x].ch = pty[x].ch /\ pty'[x].attached = pty[x].attached
                   /\ pty'[x].timer = FALSE /\ pty'[x].stray = pty[x].stray
                   /\ pty'[x].owner = pty[x].owner /\ pty'[x].bound = pty[x].bound
         /\ \A i \in ChannelIds : channels'[i] = NoPty
         /\ raced' = raced \cup Mark("closeWhileSpawning", \E i \in ChannelIds : Spawning(i))
<1>0. /\ conn \in ConnTable /\ tunnel \in Conns \cup {0} /\ devices \in Conns \cup {0}
      /\ device \in [Conns -> Device] /\ shell \in [Shells -> Terminal]
      /\ channels \in [ChannelIds -> Ptys \cup {NoPty}] /\ pty \in [Ptys -> Process]
      /\ raced \in SUBSET Races
  BY TypesOf DEF Typed
<1>1. conn[c].agent = "open" /\ conn[c].toAgent # <<>> /\ Head(conn[c].toAgent).t = "kill"
  BY DEF RecvKill, Reaches
<1>2. Head(conn[c].toAgent) \in Frames
  BY <1>0, <1>1, HeadToAgent
<1>3. /\ conn' \in ConnTable
      /\ \A x \in Conns : conn'[x] =
           IF x = c THEN [conn[x] EXCEPT !.agent = "closing", !.toAgent = Tail(@)] ELSE conn[x]
  <2>1. conn' = [Taken(c) EXCEPT ![c].agent = "closing"]
    BY DEF RecvKill
  <2>2. /\ Taken(c) \in ConnTable
        /\ \A x \in Conns : Taken(c)[x] = IF x = c THEN [conn[x] EXCEPT !.toAgent = Tail(@)] ELSE conn[x]
    BY <1>0, <1>1, TakenEffect
  <2>3. conn' \in ConnTable
    BY <2>1, <2>2 DEF ConnTable, Connection
  <2>4. \A x \in Conns : conn'[x] =
          IF x = c THEN [Taken(c)[x] EXCEPT !.agent = "closing"] ELSE Taken(c)[x]
    BY <2>1, <2>2 DEF ConnTable
  <2> QED BY <1>0, <2>2, <2>3, <2>4, Zenon DEF ConnTable, Connection
<1> DEFINE cleared == [p \in Ptys |-> IF p \in Held THEN [pty[p] EXCEPT !.timer = FALSE] ELSE pty[p]]
<1>4. /\ cleared \in [Ptys -> Process]
      /\ \A x \in Ptys : cleared[x] = IF x \in Held THEN [pty[x] EXCEPT !.timer = FALSE] ELSE pty[x]
  BY <1>0, ZenonT(60) DEF Process
<1>5. pty' = Kill(cleared, Held)
  BY DEF RecvKill
<1>6. /\ pty' \in [Ptys -> Process]
      /\ \A x \in Ptys : pty'[x] =
           IF x \in Held /\ cleared[x].state = "alive"
           THEN [cleared[x] EXCEPT !.state = "killed"] ELSE cleared[x]
  <2> HIDE DEF cleared
  <2> QED BY <1>4, <1>5, KillEffect
<1>7. \A x \in Ptys :
        /\ x \notin Held => pty'[x] = pty[x]
        /\ x \in Held =>
             /\ pty'[x].state = (IF pty[x].state = "alive" THEN "killed" ELSE pty[x].state)
             /\ pty'[x].ch = pty[x].ch /\ pty'[x].attached = pty[x].attached
             /\ pty'[x].timer = FALSE /\ pty'[x].stray = pty[x].stray
             /\ pty'[x].owner = pty[x].owner /\ pty'[x].bound = pty[x].bound
  <2> HIDE DEF cleared
  <2> TAKE x \in Ptys
  <2>1. CASE x \notin Held
    BY <1>0, <1>4, <1>6, <2>1
  <2>2. CASE x \in Held
    <3>1. cleared[x] = [pty[x] EXCEPT !.timer = FALSE] /\ pty[x] \in Process
      BY <1>0, <1>4, <2>2
    <3>2. pty'[x] = IF cleared[x].state = "alive" THEN [cleared[x] EXCEPT !.state = "killed"]
                    ELSE cleared[x]
      BY <1>6, <2>2
    <3> QED BY <2>2, <3>1, <3>2 DEF Process
  <2> QED BY <2>1, <2>2
<1>8. /\ channels' \in [ChannelIds -> Ptys \cup {NoPty}] /\ \A i \in ChannelIds : channels'[i] = NoPty
  BY DEF RecvKill
<1>9. /\ raced' \in SUBSET Races
      /\ raced' = raced \cup Mark("closeWhileSpawning", \E i \in ChannelIds : Spawning(i))
  <2>1. Note(Mark("closeWhileSpawning", \E i \in ChannelIds : Spawning(i)))
    BY DEF RecvKill
  <2> QED BY <1>0, <2>1, NoteType
<1>10. UNCHANGED <<tunnel, devices, device, shell>>
  BY DEF RecvKill
<1>11. TypeOK'
  BY <1>0, <1>3, <1>6, <1>8, <1>9, <1>10, TypesOfNext, Zenon
<1> QED BY <1>1, <1>2, <1>3, <1>7, <1>8, <1>9, <1>11, Zenon

LEMMA PtyExitsEffect ==
  ASSUME Typed, NEW p \in Ptys, PtyExits(p)
  PROVE  LET ch == pty[p].ch
             g == Frame("exit", ch, pty[p].bound)
         IN  /\ TypeOK' /\ pty[p].state \in {"alive", "killed"}
             /\ g \in Frames /\ g.t = "exit" /\ g.ch = ch /\ g.for = pty[p].bound
             /\ \A x \in Conns : conn'[x] =
                  IF pty[p].attached /\ x = tunnel /\ conn[x].agent = "open" /\ conn[x].gateway # "closed"
                  THEN [conn[x] EXCEPT !.toGateway = Append(@, g)] ELSE conn[x]
             /\ \A x \in Ptys :
                  \/ pty'[x] = FreePty /\ (x = p \/ pty[x].state = "dead")
                  \/ /\ pty'[x].state = (IF x = p THEN "dead" ELSE pty[x].state)
                     /\ pty'[x].ch = pty[x].ch /\ pty'[x].attached = pty[x].attached
                     /\ pty'[x].timer = (pty[x].timer /\ x # channels[ch])
                     /\ pty'[x].stray = pty[x].stray
                     /\ pty'[x].owner = pty[x].owner /\ pty'[x].bound = pty[x].bound
             /\ \A i \in ChannelIds : channels'[i] = IF i = ch THEN NoPty ELSE channels[i]
             /\ raced' = raced \cup Mark("lateExit",
                   /\ pty[p].state = "killed"
                   /\ \/ channels[ch] # NoPty
                      \/ /\ pty[p].attached
                         /\ tunnel # 0
                         /\ conn[tunnel].device # shell[pty[p].bound].device)
<1>0. /\ conn \in ConnTable /\ tunnel \in Conns \cup {0} /\ devices \in Conns \cup {0}
      /\ device \in [Conns -> Device] /\ shell \in [Shells -> Terminal]
      /\ channels \in [ChannelIds -> Ptys \cup {NoPty}] /\ pty \in [Ptys -> Process]
      /\ raced \in SUBSET Races
  BY TypesOf DEF Typed
<1> DEFINE ch == pty[p].ch
           g == Frame("exit", ch, pty[p].bound)
<1>1. g \in Frames /\ g.t = "exit" /\ g.ch = ch /\ g.for = pty[p].bound
  BY <1>0, FrameType DEF Process
<1>2. pty[p].state \in {"alive", "killed"}
  BY DEF PtyExits
<1>3. conn' = IF pty[p].attached THEN SendToGateway(conn, g) ELSE conn
  BY DEF PtyExits
<1>4. /\ conn' \in ConnTable
      /\ \A x \in Conns : conn'[x] =
           IF pty[p].attached /\ x = tunnel /\ conn[x].agent = "open" /\ conn[x].gateway # "closed"
           THEN [conn[x] EXCEPT !.toGateway = Append(@, g)] ELSE conn[x]
  <2> HIDE DEF g
  <2>1. CASE pty[p].attached
    BY <1>0, <1>1, <1>3, <2>1, SendToGatewayEffect
  <2>2. CASE ~pty[p].attached
    BY <1>0, <1>3, <2>2
  <2> QED BY <2>1, <2>2
<1> DEFINE cleared == Disarm(pty, ch)
           over == [cleared EXCEPT ![p].state = "dead"]
<1>5. /\ cleared \in [Ptys -> Process]
      /\ \A x \in Ptys : cleared[x] =
           IF x = channels[ch] THEN [pty[x] EXCEPT !.timer = FALSE] ELSE pty[x]
  <2> DEFINE k == ch
  <2>0. k \in 0 .. Cardinality(Shells)
    BY <1>0 DEF Process
  <2> HIDE DEF k
  <2>1. /\ Disarm(pty, k) \in [Ptys -> Process]
        /\ \A x \in Ptys : Disarm(pty, k)[x] =
             IF x = channels[k] THEN [pty[x] EXCEPT !.timer = FALSE] ELSE pty[x]
    BY <1>0, <2>0, DisarmEffect
  <2> QED BY <2>1 DEF k
<1>6. /\ over \in [Ptys -> Process]
      /\ \A x \in Ptys : over[x] = IF x = p THEN [cleared[x] EXCEPT !.state = "dead"] ELSE cleared[x]
  <2> HIDE DEF cleared
  <2> QED BY <1>5 DEF Process
<1>7. pty' = Reaped(over)
  BY DEF PtyExits
<1>8. /\ pty' \in [Ptys -> Process]
      /\ \A x \in Ptys : pty'[x] =
           IF over[x].state = "dead" /\ over[x].stray = 0 /\ ~over[x].timer THEN FreePty ELSE over[x]
  <2> HIDE DEF over
  <2> QED BY <1>6, <1>7, ReapedEffect
<1>9. \A x \in Ptys :
        /\ over[x].state = (IF x = p THEN "dead" ELSE pty[x].state)
        /\ over[x].ch = pty[x].ch /\ over[x].attached = pty[x].attached
        /\ over[x].timer = (pty[x].timer /\ x # channels[ch])
        /\ over[x].stray = pty[x].stray
        /\ over[x].owner = pty[x].owner /\ over[x].bound = pty[x].bound
  <2> TAKE x \in Ptys
  <2> HIDE DEF over, cleared, ch
  <2>1. /\ cleared[x].state = pty[x].state
        /\ cleared[x].ch = pty[x].ch /\ cleared[x].attached = pty[x].attached
        /\ cleared[x].timer = (pty[x].timer /\ x # channels[ch])
        /\ cleared[x].stray = pty[x].stray
        /\ cleared[x].owner = pty[x].owner /\ cleared[x].bound = pty[x].bound
    <3>1. CASE x = channels[ch]
      BY <1>0, <1>5, <3>1 DEF Process
    <3>2. CASE x # channels[ch]
      <4>1. cleared[x] = pty[x] /\ pty[x].timer \in BOOLEAN
        BY <1>0, <1>5, <3>2 DEF Process
      <4> QED BY <3>2, <4>1
    <3> QED BY <3>1, <3>2
  <2>2. CASE x = p
    BY <1>5, <1>6, <2>1, <2>2 DEF Process
  <2>3. CASE x # p
    BY <1>5, <1>6, <2>1, <2>3
  <2> QED BY <2>2, <2>3
<1>10. \A x \in Ptys :
         \/ pty'[x] = FreePty /\ (x = p \/ pty[x].state = "dead")
         \/ /\ pty'[x].state = (IF x = p THEN "dead" ELSE pty[x].state)
            /\ pty'[x].ch = pty[x].ch /\ pty'[x].attached = pty[x].attached
            /\ pty'[x].timer = (pty[x].timer /\ x # channels[ch])
            /\ pty'[x].stray = pty[x].stray
            /\ pty'[x].owner = pty[x].owner /\ pty'[x].bound = pty[x].bound
  <2> HIDE DEF over, cleared, ch
  <2> TAKE x \in Ptys
  <2>1. CASE over[x].state = "dead" /\ over[x].stray = 0 /\ ~over[x].timer
    <3>1. pty'[x] = FreePty
      BY <1>8, <2>1
    <3> QED BY <1>9, <2>1, <3>1
  <2>2. CASE ~(over[x].state = "dead" /\ over[x].stray = 0 /\ ~over[x].timer)
    <3>1. pty'[x] = over[x]
      BY <1>8, <2>2
    <3> QED BY <1>9, <3>1
  <2> QED BY <2>1, <2>2
<1>11. /\ channels' \in [ChannelIds -> Ptys \cup {NoPty}]
       /\ \A i \in ChannelIds : channels'[i] = IF i = ch THEN NoPty ELSE channels[i]
  <2>1. channels' = [channels EXCEPT ![ch] = NoPty]
    BY DEF PtyExits
  <2> QED BY <1>0, <2>1
<1> DEFINE R == Mark("lateExit",
                   /\ pty[p].state = "killed"
                   /\ \/ channels[ch] # NoPty
                      \/ /\ pty[p].attached
                         /\ tunnel # 0
                         /\ conn[tunnel].device # shell[pty[p].bound].device)
<1>12. raced' \in SUBSET Races /\ raced' = raced \cup R
  <2>1. Note(R)
    BY DEF PtyExits
  <2> HIDE DEF R
  <2> QED BY <1>0, <2>1, NoteType
<1>13. UNCHANGED <<tunnel, devices, device, shell>>
  BY DEF PtyExits
<1>14. TypeOK'
  BY <1>0, <1>4, <1>8, <1>11, <1>12, <1>13, TypesOfNext
<1> QED BY <1>1, <1>2, <1>4, <1>10, <1>11, <1>12, <1>14

LEMMA AgentGraceFiresEffect ==
  ASSUME Typed, NEW p \in Ptys, AgentGraceFires(p)
  PROVE  /\ TypeOK' /\ (pty[p].timer \/ pty[p].stray > 0)
         /\ \A x \in Ptys :
              \/ pty'[x] = FreePty /\ pty[x].state = "dead"
              \/ /\ pty'[x].state = (IF x = p /\ pty[x].state = "alive" THEN "killed" ELSE pty[x].state)
                 /\ pty'[x].ch = pty[x].ch /\ pty'[x].attached = pty[x].attached
                 /\ x # p => pty'[x].timer = (pty[x].timer /\ x # channels[pty[p].ch])
                 /\ x # p => pty'[x].stray = pty[x].stray
                 /\ pty'[x].owner = pty[x].owner /\ pty'[x].bound = pty[x].bound
                 /\ pty'[x].stray <= pty[x].stray
                 /\ pty'[x].timer => pty[x].timer
                 /\ x = p /\ pty[p].stray = 0 => ~pty'[x].timer
         /\ \A i \in ChannelIds : channels'[i] = IF i = pty[p].ch THEN NoPty ELSE channels[i]
<1>0. /\ conn \in ConnTable /\ tunnel \in Conns \cup {0} /\ devices \in Conns \cup {0}
      /\ device \in [Conns -> Device] /\ shell \in [Shells -> Terminal]
      /\ channels \in [ChannelIds -> Ptys \cup {NoPty}] /\ pty \in [Ptys -> Process]
      /\ raced \in SUBSET Races
  BY TypesOf DEF Typed
<1> DEFINE ch == pty[p].ch
           cleared == Disarm(pty, ch)
<1>1. /\ cleared \in [Ptys -> Process]
      /\ \A x \in Ptys : cleared[x] =
           IF x = channels[ch] THEN [pty[x] EXCEPT !.timer = FALSE] ELSE pty[x]
  <2> DEFINE k == ch
  <2>0. k \in 0 .. Cardinality(Shells)
    BY <1>0 DEF Process
  <2> HIDE DEF k
  <2>1. /\ Disarm(pty, k) \in [Ptys -> Process]
        /\ \A x \in Ptys : Disarm(pty, k)[x] =
             IF x = channels[k] THEN [pty[x] EXCEPT !.timer = FALSE] ELSE pty[x]
    BY <1>0, <2>0, DisarmEffect
  <2> QED BY <2>1 DEF k
<1>2. \A x \in Ptys :
        /\ cleared[x].state = pty[x].state
        /\ cleared[x].ch = pty[x].ch /\ cleared[x].attached = pty[x].attached
        /\ cleared[x].timer = (pty[x].timer /\ x # channels[ch])
        /\ cleared[x].stray = pty[x].stray
        /\ cleared[x].owner = pty[x].owner /\ cleared[x].bound = pty[x].bound
  <2> HIDE DEF cleared, ch
  <2> TAKE x \in Ptys
  <2>1. CASE x = channels[ch]
    BY <1>0, <1>1, <2>1 DEF Process
  <2>2. CASE x # channels[ch]
    <3>1. cleared[x] = pty[x] /\ pty[x].timer \in BOOLEAN
      BY <1>0, <1>1, <2>2 DEF Process
    <3> QED BY <2>2, <3>1
  <2> QED BY <2>1, <2>2
<1>3. PICK fired : /\ fired \in [Ptys -> Process]
                   /\ pty' = Reaped(Kill(fired, {p}))
                   /\ \A x \in Ptys \ {p} : fired[x] = cleared[x]
                   /\ fired[p].state = cleared[p].state /\ fired[p].ch = cleared[p].ch
                   /\ fired[p].attached = cleared[p].attached
                   /\ fired[p].owner = cleared[p].owner /\ fired[p].bound = cleared[p].bound
                   /\ fired[p].stray <= cleared[p].stray
                   /\ fired[p].timer => cleared[p].timer
                   /\ pty[p].stray = 0 => ~fired[p].timer
  <2>1. CASE pty[p].timer /\ pty' = Reaped(Kill([cleared EXCEPT ![p].timer = FALSE], {p}))
    <3> DEFINE fired == [cleared EXCEPT ![p].timer = FALSE]
    <3>1. cleared[p].stray <= cleared[p].stray
      <4> HIDE DEF cleared
      <4> QED BY <1>1, BoundsAssumption DEF Process
    <3>2. /\ fired \in [Ptys -> Process]
          /\ \A x \in Ptys \ {p} : fired[x] = cleared[x]
          /\ fired[p].state = cleared[p].state /\ fired[p].ch = cleared[p].ch
          /\ fired[p].attached = cleared[p].attached
          /\ fired[p].owner = cleared[p].owner /\ fired[p].bound = cleared[p].bound
          /\ fired[p].stray <= cleared[p].stray
          /\ fired[p].timer => cleared[p].timer
          /\ pty[p].stray = 0 => ~fired[p].timer
      <4> HIDE DEF cleared
      <4> QED BY <1>1, <3>1, ZenonT(60) DEF Process
    <3>3. pty' = Reaped(Kill(fired, {p}))
      BY <2>1
    <3> HIDE DEF fired, cleared
    <3> QED BY <3>2, <3>3
  <2>2. CASE pty[p].stray > 0 /\ pty' = Reaped(Kill([cleared EXCEPT ![p].stray = @ - 1], {p}))
    <3> DEFINE fired == [cleared EXCEPT ![p].stray = @ - 1]
    <3>1. cleared[p].stray - 1 <= cleared[p].stray /\ cleared[p].stray - 1 \in 0 .. MaxStray
      <4> HIDE DEF cleared
      <4> QED BY <1>1, <1>2, <2>2, BoundsAssumption DEF Process
    <3>2. /\ fired \in [Ptys -> Process]
          /\ \A x \in Ptys \ {p} : fired[x] = cleared[x]
          /\ fired[p].state = cleared[p].state /\ fired[p].ch = cleared[p].ch
          /\ fired[p].attached = cleared[p].attached
          /\ fired[p].owner = cleared[p].owner /\ fired[p].bound = cleared[p].bound
          /\ fired[p].stray <= cleared[p].stray
          /\ fired[p].timer => cleared[p].timer
          /\ pty[p].stray = 0 => ~fired[p].timer
      <4> HIDE DEF cleared
      <4> QED BY <1>1, <2>2, <3>1 DEF Process
    <3>3. pty' = Reaped(Kill(fired, {p}))
      BY <2>2
    <3> HIDE DEF fired, cleared
    <3> QED BY <3>2, <3>3
  <2> QED BY <2>1, <2>2 DEF AgentGraceFires
<1> DEFINE over == Kill(fired, {p})
<1>4. /\ over \in [Ptys -> Process]
      /\ \A x \in Ptys : over[x] =
           IF x \in {p} /\ fired[x].state = "alive" THEN [fired[x] EXCEPT !.state = "killed"] ELSE fired[x]
  BY <1>3, KillEffect
<1>5. /\ pty' \in [Ptys -> Process]
      /\ \A x \in Ptys : pty'[x] =
           IF over[x].state = "dead" /\ over[x].stray = 0 /\ ~over[x].timer THEN FreePty ELSE over[x]
  <2>1. pty' = Reaped(over)
    BY <1>3
  <2> HIDE DEF over
  <2> QED BY <1>4, <2>1, ReapedEffect
<1>6. \A x \in Ptys :
        /\ over[x].state = (IF x = p /\ pty[x].state = "alive" THEN "killed" ELSE pty[x].state)
        /\ over[x].ch = pty[x].ch /\ over[x].attached = pty[x].attached
        /\ x # p => over[x].timer = (pty[x].timer /\ x # channels[ch])
        /\ x # p => over[x].stray = pty[x].stray
        /\ over[x].owner = pty[x].owner /\ over[x].bound = pty[x].bound
        /\ over[x].stray <= pty[x].stray
        /\ over[x].timer => pty[x].timer
        /\ x = p /\ pty[p].stray = 0 => ~over[x].timer
  <2> HIDE DEF over, cleared, ch
  <2> TAKE x \in Ptys
  <2>1. CASE x = p
    <3>1. CASE fired[p].state = "alive"
      <4>1. over[p] = [fired[p] EXCEPT !.state = "killed"] /\ fired[p] \in Process
        BY <1>3, <1>4, <3>1
      <4>2. /\ over[p].state = "killed" /\ over[p].ch = fired[p].ch
            /\ over[p].attached = fired[p].attached /\ over[p].owner = fired[p].owner
            /\ over[p].bound = fired[p].bound /\ over[p].stray = fired[p].stray
            /\ over[p].timer = fired[p].timer
        BY <4>1 DEF Process
      <4> QED BY <1>2, <1>3, <2>1, <3>1, <4>2
    <3>2. CASE fired[p].state # "alive"
      <4>1. over[p] = fired[p]
        BY <1>4, <3>2
      <4> QED BY <1>2, <1>3, <2>1, <3>2, <4>1, ZenonT(60)
    <3> QED BY <3>1, <3>2
  <2>2. CASE x # p
    <3>1. over[x] = cleared[x] /\ pty[x].stray <= pty[x].stray
      BY <1>0, <1>3, <1>4, <2>2, BoundsAssumption DEF Process
    <3> QED BY <1>2, <2>2, <3>1
  <2> QED BY <2>1, <2>2
<1>7. \A x \in Ptys :
        \/ pty'[x] = FreePty /\ pty[x].state = "dead"
        \/ /\ pty'[x].state = (IF x = p /\ pty[x].state = "alive" THEN "killed" ELSE pty[x].state)
           /\ pty'[x].ch = pty[x].ch /\ pty'[x].attached = pty[x].attached
           /\ x # p => pty'[x].timer = (pty[x].timer /\ x # channels[ch])
           /\ x # p => pty'[x].stray = pty[x].stray
           /\ pty'[x].owner = pty[x].owner /\ pty'[x].bound = pty[x].bound
           /\ pty'[x].stray <= pty[x].stray
           /\ pty'[x].timer => pty[x].timer
           /\ x = p /\ pty[p].stray = 0 => ~pty'[x].timer
  <2> HIDE DEF over, cleared, ch
  <2> TAKE x \in Ptys
  <2>1. CASE over[x].state = "dead" /\ over[x].stray = 0 /\ ~over[x].timer
    <3>1. pty'[x] = FreePty
      BY <1>5, <2>1
    <3>2. pty[x].state = "dead"
      BY <1>6, <2>1
    <3> QED BY <3>1, <3>2
  <2>2. CASE ~(over[x].state = "dead" /\ over[x].stray = 0 /\ ~over[x].timer)
    <3>1. pty'[x] = over[x]
      BY <1>5, <2>2
    <3> QED BY <1>6, <3>1
  <2> QED BY <2>1, <2>2
<1>8. /\ channels' \in [ChannelIds -> Ptys \cup {NoPty}]
      /\ \A i \in ChannelIds : channels'[i] = IF i = ch THEN NoPty ELSE channels[i]
  <2>1. channels' = [channels EXCEPT ![ch] = NoPty]
    BY DEF AgentGraceFires
  <2> QED BY <1>0, <2>1
<1>9. UNCHANGED <<conn, tunnel, devices, device, shell, raced>> /\ (pty[p].timer \/ pty[p].stray > 0)
  BY DEF AgentGraceFires
<1>10. TypeOK'
  BY <1>0, <1>5, <1>8, <1>9, TypesOfNext
<1> HIDE DEF over, cleared
<1> QED BY <1>7, <1>8, <1>9, <1>10

-----------------------------------------------------------------------------
(* What is on its way over a connection.                                     *)

In(q) == {q[i] : i \in DOMAIN q}

LEMMA InEmpty == In(<<>>) = {}
BY DEF In

LEMMA InTail ==
  ASSUME NEW q \in Seq(Frames), q # <<>>
  PROVE  /\ Head(q) \in In(q) /\ In(q) = In(Tail(q)) \cup {Head(q)} /\ Tail(q) \in Seq(Frames)
         /\ \A i \in DOMAIN Tail(q) : i + 1 \in DOMAIN q /\ Tail(q)[i] = q[i + 1]
         /\ \A i \in DOMAIN q : i # 1 => i - 1 \in DOMAIN Tail(q) /\ Tail(q)[i - 1] = q[i]
<1>1. Len(q) \in Nat /\ Len(q) # 0 /\ DOMAIN q = 1 .. Len(q) /\ Head(q) = q[1]
  BY EmptySeq
<1>2. /\ Tail(q) \in Seq(Frames) /\ Len(Tail(q)) = Len(q) - 1
      /\ \A i \in 1 .. Len(Tail(q)) : Tail(q)[i] = q[i + 1]
  BY <1>1, HeadTailProperties
<1>3. DOMAIN Tail(q) = 1 .. (Len(q) - 1)
  BY <1>2
<1>4. \A i \in DOMAIN Tail(q) : i + 1 \in DOMAIN q /\ Tail(q)[i] = q[i + 1]
  BY <1>1, <1>2, <1>3
<1>5. \A i \in DOMAIN q : i # 1 => i - 1 \in DOMAIN Tail(q) /\ Tail(q)[i - 1] = q[i]
  BY <1>1, <1>2, <1>3
<1>6. Head(q) \in In(q)
  BY <1>1 DEF In
<1>7. In(Tail(q)) \subseteq In(q)
  BY <1>4 DEF In
<1>8. \A f \in In(q) : f \in In(Tail(q)) \cup {Head(q)}
  BY <1>1, <1>5 DEF In
<1> QED BY <1>2, <1>4, <1>5, <1>6, <1>7, <1>8

LEMMA InAppend ==
  ASSUME NEW q \in Seq(Frames), NEW f \in Frames
  PROVE  /\ In(Append(q, f)) = In(q) \cup {f}
         /\ DOMAIN Append(q, f) = 1 .. (Len(q) + 1) /\ Len(q) \in Nat /\ DOMAIN q = 1 .. Len(q)
         /\ \A i \in DOMAIN q : Append(q, f)[i] = q[i]
         /\ Append(q, f)[Len(q) + 1] = f
<1>1. /\ Append(q, f) \in Seq(Frames) /\ Len(Append(q, f)) = Len(q) + 1
      /\ \A i \in 1 .. Len(q) : Append(q, f)[i] = q[i]
      /\ Append(q, f)[Len(q) + 1] = f
  BY AppendProperties
<1>2. /\ DOMAIN Append(q, f) = 1 .. (Len(q) + 1) /\ Len(q) \in Nat /\ DOMAIN q = 1 .. Len(q)
  BY <1>1
<1>3. In(q) \cup {f} \subseteq In(Append(q, f))
  BY <1>1, <1>2 DEF In
<1>4. In(Append(q, f)) \subseteq In(q) \cup {f}
  BY <1>1, <1>2 DEF In
<1> QED BY <1>1, <1>2, <1>3, <1>4

LEMMA InConcat ==
  ASSUME NEW q \in Seq(Frames), NEW r \in Seq(Frames)
  PROVE  /\ In(q \o r) = In(q) \cup In(r)
         /\ Len(q) \in Nat /\ Len(r) \in Nat /\ DOMAIN q = 1 .. Len(q) /\ DOMAIN r = 1 .. Len(r)
         /\ DOMAIN (q \o r) = 1 .. (Len(q) + Len(r))
         /\ \A i \in 1 .. (Len(q) + Len(r)) :
              (q \o r)[i] = IF i <= Len(q) THEN q[i] ELSE r[i - Len(q)]
<1>1. /\ q \o r \in Seq(Frames) /\ Len(q \o r) = Len(q) + Len(r)
      /\ \A i \in 1 .. (Len(q) + Len(r)) :
           (q \o r)[i] = IF i <= Len(q) THEN q[i] ELSE r[i - Len(q)]
  BY ConcatProperties
<1>2. /\ Len(q) \in Nat /\ Len(r) \in Nat /\ DOMAIN q = 1 .. Len(q) /\ DOMAIN r = 1 .. Len(r)
      /\ DOMAIN (q \o r) = 1 .. (Len(q) + Len(r))
  BY <1>1
<1>3. In(q \o r) \subseteq In(q) \cup In(r)
  <2> SUFFICES ASSUME NEW i \in 1 .. (Len(q) + Len(r))
               PROVE  (q \o r)[i] \in In(q) \cup In(r)
    BY <1>2 DEF In
  <2>1. CASE i <= Len(q)
    BY <1>1, <1>2, <2>1 DEF In
  <2>2. CASE ~(i <= Len(q))
    <3>1. i - Len(q) \in 1 .. Len(r)
      BY <1>2, <2>2
    <3> QED BY <1>1, <1>2, <2>2, <3>1 DEF In
  <2> QED BY <2>1, <2>2
<1>4. In(q) \subseteq In(q \o r)
  <2> SUFFICES ASSUME NEW i \in 1 .. Len(q)
               PROVE  q[i] \in In(q \o r)
    BY <1>2 DEF In
  <2>1. i \in 1 .. (Len(q) + Len(r)) /\ (q \o r)[i] = q[i]
    BY <1>1, <1>2
  <2> QED BY <1>2, <2>1 DEF In
<1>5. In(r) \subseteq In(q \o r)
  <2> SUFFICES ASSUME NEW i \in 1 .. Len(r)
               PROVE  r[i] \in In(q \o r)
    BY <1>2 DEF In
  <2>1. i + Len(q) \in 1 .. (Len(q) + Len(r)) /\ (i + Len(q)) - Len(q) = i /\ ~(i + Len(q) <= Len(q))
    BY <1>2
  <2>2. (q \o r)[i + Len(q)] = r[i]
    BY <1>1, <2>1
  <2> QED BY <1>2, <2>1, <2>2 DEF In
<1> QED BY <1>1, <1>2, <1>3, <1>4, <1>5

-----------------------------------------------------------------------------
(* The same, field by field.                                                 *)

LEMMA DialFields ==
  ASSUME Typed, NEW c \in Conns, Dial(c)
  PROVE  /\ \A x \in Conns :
              /\ conn'[x].agent = (IF x = c THEN "dialing" ELSE conn[x].agent)
              /\ conn'[x].gateway = conn[x].gateway
              /\ conn'[x].device = conn[x].device
              /\ conn'[x].toAgent = conn[x].toAgent
              /\ conn'[x].toGateway = conn[x].toGateway
         /\ UNCHANGED <<devices, device, shell, channels, pty, raced>>
<1>0. conn \in ConnTable
  BY TypesOf DEF Typed
<1>1. \A x \in Conns :
        /\ conn'[x].agent = (IF x = c THEN "dialing" ELSE conn[x].agent)
        /\ conn'[x].gateway = conn[x].gateway
        /\ conn'[x].device = conn[x].device
        /\ conn'[x].toAgent = conn[x].toAgent
        /\ conn'[x].toGateway = conn[x].toGateway
  <2> TAKE x \in Conns
  <2>0. conn[x] \in Connection
    BY <1>0 DEF ConnTable
  <2>1. CASE x = c
    <3>1. conn'[x] = [conn[x] EXCEPT !.agent = "dialing"]
      BY <2>1, DialEffect
    <3> QED BY <2>0, <2>1, <3>1 DEF Connection
  <2>2. CASE ~(x = c)
    <3>1. conn'[x] = conn[x]
      BY <2>2, DialEffect
    <3> QED BY <2>2, <3>1
  <2> QED BY <2>1, <2>2
<1>2. UNCHANGED <<devices, device, shell, channels, pty, raced>>
  BY DEF Dial
<1> QED BY <1>1, <1>2

LEMMA ConnectedFields ==
  ASSUME Typed, NEW c \in Conns, Connected(c)
  PROVE  LET hello == Frame("hello", 0, NoShell)
         IN  /\ hello \in Frames
             /\ \A x \in Conns :
                  /\ conn'[x].agent = (IF x = c THEN "open" ELSE conn[x].agent)
                  /\ conn'[x].gateway = conn[x].gateway
                  /\ conn'[x].device = conn[x].device
                  /\ conn'[x].toAgent = conn[x].toAgent
                  /\ conn'[x].toGateway = (IF x = c THEN IF conn[x].gateway = "closed" THEN conn[x].toGateway ELSE Append(conn[x].toGateway, hello) ELSE conn[x].toGateway)
             /\ UNCHANGED <<tunnel, devices, device, shell, channels, pty, raced>>
<1>0. conn \in ConnTable
  BY TypesOf DEF Typed
<1> DEFINE hello == Frame("hello", 0, NoShell)
<1>1. \A x \in Conns :
        /\ conn'[x].agent = (IF x = c THEN "open" ELSE conn[x].agent)
        /\ conn'[x].gateway = conn[x].gateway
        /\ conn'[x].device = conn[x].device
        /\ conn'[x].toAgent = conn[x].toAgent
        /\ conn'[x].toGateway = (IF x = c THEN IF conn[x].gateway = "closed" THEN conn[x].toGateway ELSE Append(conn[x].toGateway, hello) ELSE conn[x].toGateway)
  <2> TAKE x \in Conns
  <2>0. conn[x] \in Connection
    BY <1>0 DEF ConnTable
  <2>1. CASE x = c
    <3>1. conn'[x] = [conn[x] EXCEPT !.agent = "open",
                             !.toGateway = IF conn[x].gateway = "closed" THEN conn[x].toGateway
                                           ELSE Append(conn[x].toGateway, hello)]
      BY <2>1, ConnectedEffect, Zenon
    <3> HIDE DEF hello
    <3> QED BY <2>0, <2>1, <3>1 DEF Connection
  <2>2. CASE ~(x = c)
    <3>1. conn'[x] = conn[x]
      BY <2>2, ConnectedEffect, Zenon
    <3> QED BY <2>2, <3>1
  <2> QED BY <2>1, <2>2
<1>2. /\ hello \in Frames
  BY ConnectedEffect, Zenon
<1>3. UNCHANGED <<tunnel, devices, device, shell, channels, pty, raced>>
  BY DEF Connected
<1> QED BY <1>1, <1>2, <1>3

LEMMA AgentSeesCloseFields ==
  ASSUME Typed, NEW c \in Conns, AgentSeesClose(c)
  PROVE  /\ tunnel' = 0
         /\ \A x \in Conns :
              /\ conn'[x].agent = (IF x = c THEN "closed" ELSE conn[x].agent)
              /\ conn'[x].gateway = conn[x].gateway
              /\ conn'[x].device = conn[x].device
              /\ conn'[x].toAgent = (IF x = c THEN <<>> ELSE conn[x].toAgent)
              /\ conn'[x].toGateway = conn[x].toGateway
         /\ UNCHANGED <<devices, device, shell, channels>>
<1>0. conn \in ConnTable
  BY TypesOf DEF Typed
<1>1. \A x \in Conns :
        /\ conn'[x].agent = (IF x = c THEN "closed" ELSE conn[x].agent)
        /\ conn'[x].gateway = conn[x].gateway
        /\ conn'[x].device = conn[x].device
        /\ conn'[x].toAgent = (IF x = c THEN <<>> ELSE conn[x].toAgent)
        /\ conn'[x].toGateway = conn[x].toGateway
  <2> TAKE x \in Conns
  <2>0. conn[x] \in Connection
    BY <1>0 DEF ConnTable
  <2>1. CASE x = c
    <3>1. conn'[x] = [conn[x] EXCEPT !.agent = "closed", !.toAgent = <<>>]
      BY <2>1, AgentSeesCloseEffect, Zenon
    <3> QED BY <2>0, <2>1, <3>1 DEF Connection
  <2>2. CASE ~(x = c)
    <3>1. conn'[x] = conn[x]
      BY <2>2, AgentSeesCloseEffect, Zenon
    <3> QED BY <2>2, <3>1
  <2> QED BY <2>1, <2>2
<1>2. /\ tunnel' = 0
  BY AgentSeesCloseEffect, Zenon
<1>3. UNCHANGED <<devices, device, shell, channels>>
  BY DEF AgentSeesClose
<1> QED BY <1>1, <1>2, <1>3

LEMMA AgentRestartsFields ==
  ASSUME Typed, AgentRestarts
  PROVE  /\ \A x \in Conns :
              /\ conn'[x].agent = (IF x = tunnel THEN "closed" ELSE conn[x].agent)
              /\ conn'[x].gateway = conn[x].gateway
              /\ conn'[x].device = conn[x].device
              /\ conn'[x].toAgent = (IF x = tunnel THEN <<>> ELSE conn[x].toAgent)
              /\ conn'[x].toGateway = conn[x].toGateway
         /\ UNCHANGED <<devices, device, shell, raced>>
<1>0. conn \in ConnTable
  BY TypesOf DEF Typed
<1>1. \A x \in Conns :
        /\ conn'[x].agent = (IF x = tunnel THEN "closed" ELSE conn[x].agent)
        /\ conn'[x].gateway = conn[x].gateway
        /\ conn'[x].device = conn[x].device
        /\ conn'[x].toAgent = (IF x = tunnel THEN <<>> ELSE conn[x].toAgent)
        /\ conn'[x].toGateway = conn[x].toGateway
  <2> TAKE x \in Conns
  <2>0. conn[x] \in Connection
    BY <1>0 DEF ConnTable
  <2>1. CASE x = tunnel
    <3>1. conn'[x] = [conn[x] EXCEPT !.agent = "closed", !.toAgent = <<>>]
      BY <2>1, AgentRestartsEffect, Zenon
    <3> QED BY <2>0, <2>1, <3>1 DEF Connection
  <2>2. CASE ~(x = tunnel)
    <3>1. conn'[x] = conn[x]
      BY <2>2, AgentRestartsEffect, Zenon
    <3> QED BY <2>2, <3>1
  <2> QED BY <2>1, <2>2
<1>2. UNCHANGED <<devices, device, shell, raced>>
  BY Zenon DEF AgentRestarts
<1> QED BY <1>1, <1>2

LEMMA DialFailsFields ==
  ASSUME Typed, DialFails
  PROVE  /\ tunnel \in Conns /\ tunnel' = 0
         /\ \A x \in Conns :
              /\ conn'[x].agent = (IF x = tunnel THEN "unused" ELSE conn[x].agent)
              /\ conn'[x].gateway = (IF x = tunnel THEN "none" ELSE conn[x].gateway)
              /\ conn'[x].device = (IF x = tunnel THEN 0 ELSE conn[x].device)
              /\ conn'[x].toAgent = (IF x = tunnel THEN <<>> ELSE conn[x].toAgent)
              /\ conn'[x].toGateway = (IF x = tunnel THEN <<>> ELSE conn[x].toGateway)
         /\ UNCHANGED <<devices, device, shell, channels>>
<1>0. conn \in ConnTable
  BY TypesOf DEF Typed
<1>1. \A x \in Conns :
        /\ conn'[x].agent = (IF x = tunnel THEN "unused" ELSE conn[x].agent)
        /\ conn'[x].gateway = (IF x = tunnel THEN "none" ELSE conn[x].gateway)
        /\ conn'[x].device = (IF x = tunnel THEN 0 ELSE conn[x].device)
        /\ conn'[x].toAgent = (IF x = tunnel THEN <<>> ELSE conn[x].toAgent)
        /\ conn'[x].toGateway = (IF x = tunnel THEN <<>> ELSE conn[x].toGateway)
  <2> TAKE x \in Conns
  <2>0. conn[x] \in Connection
    BY <1>0 DEF ConnTable
  <2>1. CASE x = tunnel
    <3>1. conn'[x] = Unused
      BY <2>1, DialFailsEffect
    <3> QED BY <2>0, <2>1, <3>1 DEF Connection, Unused
  <2>2. CASE ~(x = tunnel)
    <3>1. conn'[x] = conn[x]
      BY <2>2, DialFailsEffect
    <3> QED BY <2>2, <3>1
  <2> QED BY <2>1, <2>2
<1>2. /\ tunnel \in Conns /\ tunnel' = 0
  BY DialFailsEffect
<1>3. UNCHANGED <<devices, device, shell, channels>>
  BY DEF DialFails
<1> QED BY <1>1, <1>2, <1>3

LEMMA AcceptFields ==
  ASSUME Typed, NEW c \in Conns, Accept(c)
  PROVE  /\ devices' = IF devices = 0 THEN c ELSE devices
         /\ \A x \in Conns :
              /\ conn'[x].agent = conn[x].agent
              /\ conn'[x].gateway = (IF x = c THEN "open" ELSE IF devices # 0 /\ x = device[devices].socket /\ conn[x].gateway = "open" THEN "closing" ELSE conn[x].gateway)
              /\ conn'[x].device = (IF x = c THEN IF devices = 0 THEN c ELSE devices ELSE conn[x].device)
              /\ conn'[x].toAgent = conn[x].toAgent
              /\ conn'[x].toGateway = conn[x].toGateway
         /\ \A e \in Conns :
              /\ device'[e].socket = (IF e = devices' /\ devices = 0 THEN c ELSE IF e = devices' /\ devices # 0 THEN c ELSE device[e].socket)
              /\ device'[e].hello = (IF e = devices' /\ devices = 0 THEN 0 ELSE device[e].hello)
              /\ device'[e].next = (IF e = devices' /\ devices = 0 THEN 1 ELSE device[e].next)
              /\ device'[e].grace = (IF e = devices' /\ devices = 0 THEN FALSE ELSE IF e = devices' /\ devices # 0 THEN FALSE ELSE device[e].grace)
         /\ UNCHANGED <<tunnel, shell, channels, pty, raced>>
<1>0. conn \in ConnTable /\ device \in [Conns -> Device]
  BY TypesOf DEF Typed
<1>1. \A x \in Conns :
        /\ conn'[x].agent = conn[x].agent
        /\ conn'[x].gateway = (IF x = c THEN "open" ELSE IF devices # 0 /\ x = device[devices].socket /\ conn[x].gateway = "open" THEN "closing" ELSE conn[x].gateway)
        /\ conn'[x].device = (IF x = c THEN IF devices = 0 THEN c ELSE devices ELSE conn[x].device)
        /\ conn'[x].toAgent = conn[x].toAgent
        /\ conn'[x].toGateway = conn[x].toGateway
  <2> TAKE x \in Conns
  <2>0. conn[x] \in Connection
    BY <1>0 DEF ConnTable
  <2>1. CASE x = c
    <3>1. conn'[x] = [conn[x] EXCEPT !.gateway = "open", !.device = IF devices = 0 THEN c ELSE devices]
      BY <2>1, AcceptEffect, Zenon
    <3> QED BY <2>0, <2>1, <3>1 DEF Connection
  <2>2. CASE (devices # 0 /\ x = device[devices].socket /\ conn[x].gateway = "open") /\ ~(x = c)
    <3>1. conn'[x] = [conn[x] EXCEPT !.gateway = "closing"]
      BY <2>2, AcceptEffect, Zenon
    <3> QED BY <2>0, <2>2, <3>1 DEF Connection
  <2>3. CASE ~(x = c) /\ ~(devices # 0 /\ x = device[devices].socket /\ conn[x].gateway = "open")
    <3>1. conn'[x] = conn[x]
      BY <2>3, AcceptEffect, Zenon
    <3> QED BY <2>3, <3>1
  <2> QED BY <2>1, <2>2, <2>3
<1>2. \A e \in Conns :
        /\ device'[e].socket = (IF e = devices' /\ devices = 0 THEN c ELSE IF e = devices' /\ devices # 0 THEN c ELSE device[e].socket)
        /\ device'[e].hello = (IF e = devices' /\ devices = 0 THEN 0 ELSE device[e].hello)
        /\ device'[e].next = (IF e = devices' /\ devices = 0 THEN 1 ELSE device[e].next)
        /\ device'[e].grace = (IF e = devices' /\ devices = 0 THEN FALSE ELSE IF e = devices' /\ devices # 0 THEN FALSE ELSE device[e].grace)
  <2> TAKE e \in Conns
  <2>0. device[e] \in Device
    BY <1>0 DEF ConnTable
  <2>1. CASE e = devices' /\ devices = 0
    <3>1. device'[e] = FreshDevice(c)
      BY <2>1, AcceptEffect, Zenon
    <3> QED BY <2>0, <2>1, <3>1 DEF Device, FreshDevice
  <2>2. CASE (e = devices' /\ devices # 0) /\ ~(e = devices' /\ devices = 0)
    <3>1. device'[e] = [device[e] EXCEPT !.socket = c, !.grace = FALSE]
      BY <2>2, AcceptEffect, Zenon
    <3> QED BY <2>0, <2>2, <3>1 DEF Device
  <2>3. CASE ~(e = devices' /\ devices = 0) /\ ~(e = devices' /\ devices # 0)
    <3>1. device'[e] = device[e]
      BY <2>3, AcceptEffect, Zenon
    <3> QED BY <2>3, <3>1
  <2> QED BY <2>1, <2>2, <2>3
<1>3. /\ devices' = IF devices = 0 THEN c ELSE devices
  BY AcceptEffect, Zenon
<1>4. UNCHANGED <<tunnel, shell, channels, pty, raced>>
  BY DEF Accept
<1> QED BY <1>1, <1>2, <1>3, <1>4

LEMMA GatewaySeesCloseFields ==
  ASSUME Typed, NEW c \in Conns, GatewaySeesClose(c)
  PROVE  LET d == conn[c].device
             waiting == {s \in Shells : shell[s].state = "opening" /\ shell[s].device = d}
         IN  /\ d \in Conns
             /\ devices' = (IF Current(c) /\ Deserted(d) THEN 0 ELSE devices)
             /\ raced' = (IF Current(c) THEN raced \cup Mark("abandonedOpen", waiting # {}) ELSE raced)
             /\ \A x \in Conns :
                  /\ conn'[x].agent = conn[x].agent
                  /\ conn'[x].gateway = (IF x = c THEN "closed" ELSE conn[x].gateway)
                  /\ conn'[x].device = conn[x].device
                  /\ conn'[x].toAgent = conn[x].toAgent
                  /\ conn'[x].toGateway = (IF x = c THEN <<>> ELSE conn[x].toGateway)
             /\ \A e \in Conns :
                  /\ device'[e].socket = (IF Current(c) /\ e = d THEN 0 ELSE device[e].socket)
                  /\ device'[e].hello = (IF Current(c) /\ e = d THEN 0 ELSE device[e].hello)
                  /\ device'[e].next = device[e].next
                  /\ device'[e].grace = (IF Current(c) /\ e = d THEN ~Deserted(d) ELSE device[e].grace)
             /\ \A t \in Shells :
                  /\ shell'[t].state = (IF Current(c) /\ t \in waiting THEN "over" ELSE shell[t].state)
                  /\ shell'[t].device = shell[t].device
                  /\ shell'[t].ch = shell[t].ch
                  /\ shell'[t].listed = (IF Current(c) /\ t \in waiting THEN FALSE ELSE shell[t].listed)
             /\ UNCHANGED <<tunnel, channels, pty>>
<1>0. conn \in ConnTable /\ device \in [Conns -> Device] /\ shell \in [Shells -> Terminal]
  BY TypesOf DEF Typed
<1> DEFINE d == conn[c].device
           waiting == {s \in Shells : shell[s].state = "opening" /\ shell[s].device = d}
<1>1. \A x \in Conns :
        /\ conn'[x].agent = conn[x].agent
        /\ conn'[x].gateway = (IF x = c THEN "closed" ELSE conn[x].gateway)
        /\ conn'[x].device = conn[x].device
        /\ conn'[x].toAgent = conn[x].toAgent
        /\ conn'[x].toGateway = (IF x = c THEN <<>> ELSE conn[x].toGateway)
  <2> TAKE x \in Conns
  <2>0. conn[x] \in Connection
    BY <1>0 DEF ConnTable
  <2>1. CASE x = c
    <3>1. conn'[x] = [conn[x] EXCEPT !.gateway = "closed", !.toGateway = <<>>]
      BY <2>1, GatewaySeesCloseEffect, Zenon
    <3> HIDE DEF d, waiting
    <3> QED BY <2>0, <2>1, <3>1 DEF Connection
  <2>2. CASE ~(x = c)
    <3>1. conn'[x] = conn[x]
      BY <2>2, GatewaySeesCloseEffect, Zenon
    <3> QED BY <2>2, <3>1
  <2> QED BY <2>1, <2>2
<1>2. \A e \in Conns :
        /\ device'[e].socket = (IF Current(c) /\ e = d THEN 0 ELSE device[e].socket)
        /\ device'[e].hello = (IF Current(c) /\ e = d THEN 0 ELSE device[e].hello)
        /\ device'[e].next = device[e].next
        /\ device'[e].grace = (IF Current(c) /\ e = d THEN ~Deserted(d) ELSE device[e].grace)
  <2> TAKE e \in Conns
  <2>0. device[e] \in Device
    BY <1>0 DEF ConnTable
  <2>1. CASE Current(c) /\ e = d
    <3>1. device'[e] = [device[e] EXCEPT !.socket = 0, !.hello = 0, !.grace = ~Deserted(d)]
      BY <2>1, GatewaySeesCloseEffect, Zenon
    <3> HIDE DEF d, waiting
    <3> QED BY <2>0, <2>1, <3>1 DEF Device
  <2>2. CASE ~(Current(c) /\ e = d)
    <3>1. device'[e] = device[e]
      BY <2>2, GatewaySeesCloseEffect, Zenon
    <3> QED BY <2>2, <3>1
  <2> QED BY <2>1, <2>2
<1>3. \A t \in Shells :
        /\ shell'[t].state = (IF Current(c) /\ t \in waiting THEN "over" ELSE shell[t].state)
        /\ shell'[t].device = shell[t].device
        /\ shell'[t].ch = shell[t].ch
        /\ shell'[t].listed = (IF Current(c) /\ t \in waiting THEN FALSE ELSE shell[t].listed)
  <2> TAKE t \in Shells
  <2>0. shell[t] \in Terminal
    BY <1>0 DEF ConnTable
  <2>1. CASE Current(c) /\ t \in waiting
    <3>1. shell'[t] = [shell[t] EXCEPT !.state = "over", !.listed = FALSE]
      BY <2>1, GatewaySeesCloseEffect, Zenon
    <3> HIDE DEF d, waiting
    <3> QED BY <2>0, <2>1, <3>1 DEF Terminal
  <2>2. CASE ~(Current(c) /\ t \in waiting)
    <3>1. shell'[t] = shell[t]
      BY <2>2, GatewaySeesCloseEffect, Zenon
    <3> QED BY <2>2, <3>1
  <2> QED BY <2>1, <2>2
<1>4. /\ d \in Conns
      /\ devices' = (IF Current(c) /\ Deserted(d) THEN 0 ELSE devices)
      /\ raced' = (IF Current(c) THEN raced \cup Mark("abandonedOpen", waiting # {}) ELSE raced)
  BY GatewaySeesCloseEffect, Zenon
<1>5. UNCHANGED <<tunnel, channels, pty>>
  BY DEF GatewaySeesClose
<1> QED BY <1>1, <1>2, <1>3, <1>4, <1>5

LEMMA GatewayGraceFiresFields ==
  ASSUME Typed, NEW d \in Conns, GatewayGraceFires(d)
  PROVE  /\ raced' = raced \cup Mark("expiry", Inhabited)
         /\ \A e \in Conns :
              /\ device'[e].socket = device[e].socket
              /\ device'[e].hello = device[e].hello
              /\ device'[e].next = device[e].next
              /\ device'[e].grace = (IF e = d THEN FALSE ELSE device[e].grace)
         /\ \A t \in Shells :
              /\ shell'[t].state = (IF t \in Listed(d) /\ shell[t].state = "open" THEN "over" ELSE shell[t].state)
              /\ shell'[t].device = shell[t].device
              /\ shell'[t].ch = shell[t].ch
              /\ shell'[t].listed = (IF t \in Listed(d) /\ shell[t].state = "open" THEN FALSE ELSE IF t \in Listed(d) THEN FALSE ELSE shell[t].listed)
         /\ UNCHANGED <<conn, tunnel, channels, pty>>
<1>0. device \in [Conns -> Device] /\ shell \in [Shells -> Terminal]
  BY TypesOf DEF Typed
<1>1. \A e \in Conns :
        /\ device'[e].socket = device[e].socket
        /\ device'[e].hello = device[e].hello
        /\ device'[e].next = device[e].next
        /\ device'[e].grace = (IF e = d THEN FALSE ELSE device[e].grace)
  <2> TAKE e \in Conns
  <2>0. device[e] \in Device
    BY <1>0 DEF ConnTable
  <2>1. CASE e = d
    <3>1. device'[e] = [device[e] EXCEPT !.grace = FALSE]
      BY <2>1, GatewayGraceFiresEffect, Zenon
    <3> QED BY <2>0, <2>1, <3>1 DEF Device
  <2>2. CASE ~(e = d)
    <3>1. device'[e] = device[e]
      BY <2>2, GatewayGraceFiresEffect, Zenon
    <3> QED BY <2>2, <3>1
  <2> QED BY <2>1, <2>2
<1>2. \A t \in Shells :
        /\ shell'[t].state = (IF t \in Listed(d) /\ shell[t].state = "open" THEN "over" ELSE shell[t].state)
        /\ shell'[t].device = shell[t].device
        /\ shell'[t].ch = shell[t].ch
        /\ shell'[t].listed = (IF t \in Listed(d) /\ shell[t].state = "open" THEN FALSE ELSE IF t \in Listed(d) THEN FALSE ELSE shell[t].listed)
  <2> TAKE t \in Shells
  <2>0. shell[t] \in Terminal
    BY <1>0 DEF ConnTable
  <2>1. CASE t \in Listed(d) /\ shell[t].state = "open"
    <3>1. shell'[t] = [shell[t] EXCEPT !.listed = FALSE, !.state = "over"]
      BY <2>1, GatewayGraceFiresEffect, Zenon
    <3> QED BY <2>0, <2>1, <3>1 DEF Terminal
  <2>2. CASE (t \in Listed(d)) /\ ~(t \in Listed(d) /\ shell[t].state = "open")
    <3>1. shell'[t] = [shell[t] EXCEPT !.listed = FALSE, !.state = shell[t].state]
      BY <2>2, GatewayGraceFiresEffect, Zenon
    <3> QED BY <2>0, <2>2, <3>1 DEF Terminal
  <2>3. CASE ~(t \in Listed(d) /\ shell[t].state = "open") /\ ~(t \in Listed(d))
    <3>1. shell'[t] = shell[t]
      BY <2>3, GatewayGraceFiresEffect, Zenon
    <3> QED BY <2>3, <3>1
  <2> QED BY <2>1, <2>2, <2>3
<1>3. /\ raced' = raced \cup Mark("expiry", Inhabited)
  BY GatewayGraceFiresEffect, Zenon
<1>4. UNCHANGED <<conn, tunnel, channels, pty>>
  BY DEF GatewayGraceFires
<1> QED BY <1>1, <1>2, <1>3, <1>4

LEMMA KillDeviceFields ==
  ASSUME Typed, KillDevice
  PROVE  /\ devices \in Conns /\ devices' = 0
         /\ \A t \in Shells :
              /\ shell'[t].state = (IF t \in Listed(devices) /\ shell[t].state = "open" THEN "over" ELSE shell[t].state)
              /\ shell'[t].device = shell[t].device
              /\ shell'[t].ch = shell[t].ch
              /\ shell'[t].listed = (IF t \in Listed(devices) /\ shell[t].state = "open" THEN FALSE ELSE IF t \in Listed(devices) THEN FALSE ELSE shell[t].listed)
         /\ UNCHANGED <<tunnel, device, channels, pty>>
<1>0. shell \in [Shells -> Terminal]
  BY TypesOf DEF Typed
<1>1. \A t \in Shells :
        /\ shell'[t].state = (IF t \in Listed(devices) /\ shell[t].state = "open" THEN "over" ELSE shell[t].state)
        /\ shell'[t].device = shell[t].device
        /\ shell'[t].ch = shell[t].ch
        /\ shell'[t].listed = (IF t \in Listed(devices) /\ shell[t].state = "open" THEN FALSE ELSE IF t \in Listed(devices) THEN FALSE ELSE shell[t].listed)
  <2> TAKE t \in Shells
  <2>0. shell[t] \in Terminal
    BY <1>0 DEF ConnTable
  <2>1. CASE t \in Listed(devices) /\ shell[t].state = "open"
    <3>1. shell'[t] = [shell[t] EXCEPT !.listed = FALSE, !.state = "over"]
      BY <2>1, KillDeviceEffect, Zenon
    <3> QED BY <2>0, <2>1, <3>1 DEF Terminal
  <2>2. CASE (t \in Listed(devices)) /\ ~(t \in Listed(devices) /\ shell[t].state = "open")
    <3>1. shell'[t] = [shell[t] EXCEPT !.listed = FALSE, !.state = shell[t].state]
      BY <2>2, KillDeviceEffect, Zenon
    <3> QED BY <2>0, <2>2, <3>1 DEF Terminal
  <2>3. CASE ~(t \in Listed(devices) /\ shell[t].state = "open") /\ ~(t \in Listed(devices))
    <3>1. shell'[t] = shell[t]
      BY <2>3, KillDeviceEffect, Zenon
    <3> QED BY <2>3, <3>1
  <2> QED BY <2>1, <2>2, <2>3
<1>2. /\ devices \in Conns /\ devices' = 0
  BY KillDeviceEffect, Zenon
<1>3. UNCHANGED <<tunnel, device, channels, pty>>
  BY DEF KillDevice
<1> QED BY <1>1, <1>2, <1>3

LEMMA GatewayRestartsFields ==
  ASSUME Typed, GatewayRestarts
  PROVE  /\ devices' = 0
         /\ \A x \in Conns :
              /\ conn'[x].agent = conn[x].agent
              /\ conn'[x].gateway = (IF conn[x].gateway # "none" THEN "closed" ELSE conn[x].gateway)
              /\ conn'[x].device = conn[x].device
              /\ conn'[x].toAgent = conn[x].toAgent
              /\ conn'[x].toGateway = (IF conn[x].gateway # "none" THEN <<>> ELSE conn[x].toGateway)
         /\ \A e \in Conns :
              /\ device'[e].socket = (IF TRUE THEN 0 ELSE device[e].socket)
              /\ device'[e].hello = (IF TRUE THEN 0 ELSE device[e].hello)
              /\ device'[e].next = (IF TRUE THEN 1 ELSE device[e].next)
              /\ device'[e].grace = (IF TRUE THEN FALSE ELSE device[e].grace)
         /\ \A t \in Shells :
              /\ shell'[t].state = (IF shell[t].state \in {"opening", "open"} THEN "over" ELSE shell[t].state)
              /\ shell'[t].device = shell[t].device
              /\ shell'[t].ch = shell[t].ch
              /\ shell'[t].listed = (IF shell[t].state \in {"opening", "open"} THEN FALSE ELSE shell[t].listed)
         /\ UNCHANGED <<tunnel, channels, pty>>
<1>0. conn \in ConnTable /\ device \in [Conns -> Device] /\ shell \in [Shells -> Terminal]
  BY TypesOf DEF Typed
<1>1. \A x \in Conns :
        /\ conn'[x].agent = conn[x].agent
        /\ conn'[x].gateway = (IF conn[x].gateway # "none" THEN "closed" ELSE conn[x].gateway)
        /\ conn'[x].device = conn[x].device
        /\ conn'[x].toAgent = conn[x].toAgent
        /\ conn'[x].toGateway = (IF conn[x].gateway # "none" THEN <<>> ELSE conn[x].toGateway)
  <2> TAKE x \in Conns
  <2>0. conn[x] \in Connection
    BY <1>0 DEF ConnTable
  <2>1. CASE conn[x].gateway # "none"
    <3>1. conn'[x] = [conn[x] EXCEPT !.gateway = "closed", !.toGateway = <<>>]
      BY <2>1, GatewayRestartsEffect, Zenon
    <3> QED BY <2>0, <2>1, <3>1 DEF Connection
  <2>2. CASE ~(conn[x].gateway # "none")
    <3>1. conn'[x] = conn[x]
      BY <2>2, GatewayRestartsEffect, Zenon
    <3> QED BY <2>2, <3>1
  <2> QED BY <2>1, <2>2
<1>2. \A e \in Conns :
        /\ device'[e].socket = (IF TRUE THEN 0 ELSE device[e].socket)
        /\ device'[e].hello = (IF TRUE THEN 0 ELSE device[e].hello)
        /\ device'[e].next = (IF TRUE THEN 1 ELSE device[e].next)
        /\ device'[e].grace = (IF TRUE THEN FALSE ELSE device[e].grace)
  <2> TAKE e \in Conns
  <2>0. device[e] \in Device
    BY <1>0 DEF ConnTable
  <2>1. CASE TRUE
    <3>1. device'[e] = FreshDevice(0)
      BY <2>1, GatewayRestartsEffect, Zenon
    <3> QED BY <2>0, <2>1, <3>1 DEF Device, FreshDevice
  <2>2. CASE ~(TRUE)
    <3>1. device'[e] = device[e]
      BY <2>2, GatewayRestartsEffect, Zenon
    <3> QED BY <2>2, <3>1
  <2> QED BY <2>1, <2>2
<1>3. \A t \in Shells :
        /\ shell'[t].state = (IF shell[t].state \in {"opening", "open"} THEN "over" ELSE shell[t].state)
        /\ shell'[t].device = shell[t].device
        /\ shell'[t].ch = shell[t].ch
        /\ shell'[t].listed = (IF shell[t].state \in {"opening", "open"} THEN FALSE ELSE shell[t].listed)
  <2> TAKE t \in Shells
  <2>0. shell[t] \in Terminal
    BY <1>0 DEF ConnTable
  <2>1. CASE shell[t].state \in {"opening", "open"}
    <3>1. shell'[t] = [shell[t] EXCEPT !.state = "over", !.listed = FALSE]
      BY <2>1, GatewayRestartsEffect, Zenon
    <3> QED BY <2>0, <2>1, <3>1 DEF Terminal
  <2>2. CASE ~(shell[t].state \in {"opening", "open"})
    <3>1. shell'[t] = shell[t]
      BY <2>2, GatewayRestartsEffect, Zenon
    <3> QED BY <2>2, <3>1
  <2> QED BY <2>1, <2>2
<1>4. /\ devices' = 0
  BY GatewayRestartsEffect, Zenon
<1>5. UNCHANGED <<tunnel, channels, pty>>
  BY Zenon DEF GatewayRestarts
<1> QED BY <1>1, <1>2, <1>3, <1>4, <1>5

LEMMA OpenShellFields ==
  ASSUME Typed, NEW s \in Shells, OpenShell(s)
  PROVE  LET d == devices
             ch == device[d].next
             f == Frame("open", ch, s)
         IN  /\ d \in Conns /\ Online(d) /\ shell[s].state = "idle" /\ ch \in ChannelIds
             /\ f \in Frames /\ f.t = "open" /\ f.ch = ch /\ f.for = s
             /\ raced' = raced \cup Mark("staleSocket", device[d].hello # device[d].socket)
             /\ \A x \in Conns :
                  /\ conn'[x].agent = conn[x].agent
                  /\ conn'[x].gateway = conn[x].gateway
                  /\ conn'[x].device = conn[x].device
                  /\ conn'[x].toAgent = (IF x = device[d].socket /\ conn[x].gateway = "open" /\ conn[x].agent # "closed" THEN Append(conn[x].toAgent, f) ELSE conn[x].toAgent)
                  /\ conn'[x].toGateway = conn[x].toGateway
             /\ \A e \in Conns :
                  /\ device'[e].socket = device[e].socket
                  /\ device'[e].hello = device[e].hello
                  /\ device'[e].next = (IF e = d THEN device[e].next + 1 ELSE device[e].next)
                  /\ device'[e].grace = device[e].grace
             /\ \A t \in Shells :
                  /\ shell'[t].state = (IF t = s THEN "opening" ELSE shell[t].state)
                  /\ shell'[t].device = (IF t = s THEN d ELSE shell[t].device)
                  /\ shell'[t].ch = (IF t = s THEN ch ELSE shell[t].ch)
                  /\ shell'[t].listed = (IF t = s THEN TRUE ELSE shell[t].listed)
             /\ UNCHANGED <<tunnel, devices, channels, pty>>
<1>0. conn \in ConnTable /\ device \in [Conns -> Device] /\ shell \in [Shells -> Terminal]
  BY TypesOf DEF Typed
<1> DEFINE d == devices
           ch == device[d].next
           f == Frame("open", ch, s)
<1>1. \A x \in Conns : conn'[x] =
        IF x = device[d].socket /\ conn[x].gateway = "open" /\ conn[x].agent # "closed"
        THEN [conn[x] EXCEPT !.toAgent = Append(@, f)] ELSE conn[x]
  BY OpenShellEffect
<1>2. \A x \in Conns :
        /\ conn'[x].agent = conn[x].agent
        /\ conn'[x].gateway = conn[x].gateway
        /\ conn'[x].device = conn[x].device
        /\ conn'[x].toAgent = (IF x = device[d].socket /\ conn[x].gateway = "open" /\ conn[x].agent # "closed" THEN Append(conn[x].toAgent, f) ELSE conn[x].toAgent)
        /\ conn'[x].toGateway = conn[x].toGateway
  <2> TAKE x \in Conns
  <2>0. conn[x] \in Connection
    BY <1>0 DEF ConnTable
  <2>1. CASE x = device[d].socket /\ conn[x].gateway = "open" /\ conn[x].agent # "closed"
    <3>1. conn'[x] = [conn[x] EXCEPT !.toAgent = Append(conn[x].toAgent, f)]
      BY <2>1, <1>1
    <3> HIDE DEF d, ch, f
    <3> QED BY <2>0, <2>1, <3>1 DEF Connection
  <2>2. CASE ~(x = device[d].socket /\ conn[x].gateway = "open" /\ conn[x].agent # "closed")
    <3>1. conn'[x] = conn[x]
      BY <2>2, <1>1
    <3> QED BY <2>2, <3>1
  <2> QED BY <2>1, <2>2
<1>3. \A e \in Conns :
        /\ device'[e].socket = device[e].socket
        /\ device'[e].hello = device[e].hello
        /\ device'[e].next = (IF e = d THEN device[e].next + 1 ELSE device[e].next)
        /\ device'[e].grace = device[e].grace
  <2> TAKE e \in Conns
  <2>0. device[e] \in Device
    BY <1>0 DEF ConnTable
  <2>1. CASE e = d
    <3>1. device'[e] = [device[e] EXCEPT !.next = device[e].next + 1]
      BY <2>1, OpenShellEffect
    <3> HIDE DEF d, ch, f
    <3> QED BY <2>0, <2>1, <3>1 DEF Device
  <2>2. CASE ~(e = d)
    <3>1. device'[e] = device[e]
      BY <2>2, OpenShellEffect
    <3> QED BY <2>2, <3>1
  <2> QED BY <2>1, <2>2
<1>4. \A t \in Shells :
        /\ shell'[t].state = (IF t = s THEN "opening" ELSE shell[t].state)
        /\ shell'[t].device = (IF t = s THEN d ELSE shell[t].device)
        /\ shell'[t].ch = (IF t = s THEN ch ELSE shell[t].ch)
        /\ shell'[t].listed = (IF t = s THEN TRUE ELSE shell[t].listed)
  <2> TAKE t \in Shells
  <2>0. shell[t] \in Terminal
    BY <1>0 DEF ConnTable
  <2>1. CASE t = s
    <3>1. shell'[t] = [state |-> "opening", device |-> d, ch |-> ch, listed |-> TRUE]
      BY <2>1, OpenShellEffect
    <3> HIDE DEF d, ch, f
    <3> QED BY <2>0, <2>1, <3>1 DEF Terminal
  <2>2. CASE ~(t = s)
    <3>1. shell'[t] = shell[t]
      BY <2>2, OpenShellEffect
    <3> QED BY <2>2, <3>1
  <2> QED BY <2>1, <2>2
<1>5. /\ d \in Conns /\ Online(d) /\ shell[s].state = "idle" /\ ch \in ChannelIds
      /\ f \in Frames /\ f.t = "open" /\ f.ch = ch /\ f.for = s
      /\ raced' = raced \cup Mark("staleSocket", device[d].hello # device[d].socket)
  BY OpenShellEffect
<1>6. UNCHANGED <<tunnel, devices, channels, pty>>
  BY DEF OpenShell
<1> QED BY <1>2, <1>3, <1>4, <1>5, <1>6

LEMMA OpenTimesOutFields ==
  ASSUME Typed, NEW s \in Shells, OpenTimesOut(s)
  PROVE  /\ \A t \in Shells :
              /\ shell'[t].state = (IF t = s THEN "over" ELSE shell[t].state)
              /\ shell'[t].device = shell[t].device
              /\ shell'[t].ch = shell[t].ch
              /\ shell'[t].listed = (IF t = s THEN FALSE ELSE shell[t].listed)
         /\ UNCHANGED <<conn, tunnel, devices, device, channels, pty>>
<1>0. shell \in [Shells -> Terminal]
  BY TypesOf DEF Typed
<1>1. \A t \in Shells :
        /\ shell'[t].state = (IF t = s THEN "over" ELSE shell[t].state)
        /\ shell'[t].device = shell[t].device
        /\ shell'[t].ch = shell[t].ch
        /\ shell'[t].listed = (IF t = s THEN FALSE ELSE shell[t].listed)
  <2> TAKE t \in Shells
  <2>0. shell[t] \in Terminal
    BY <1>0 DEF ConnTable
  <2>1. CASE t = s
    <3>1. shell'[t] = [shell[t] EXCEPT !.state = "over", !.listed = FALSE]
      BY <2>1, OpenTimesOutEffect, Zenon
    <3> QED BY <2>0, <2>1, <3>1 DEF Terminal
  <2>2. CASE ~(t = s)
    <3>1. shell'[t] = shell[t]
      BY <2>2, OpenTimesOutEffect, Zenon
    <3> QED BY <2>2, <3>1
  <2> QED BY <2>1, <2>2
<1>2. UNCHANGED <<conn, tunnel, devices, device, channels, pty>>
  BY DEF OpenTimesOut
<1> QED BY <1>1, <1>2

LEMMA EndShellFields ==
  ASSUME Typed, NEW s \in Shells, EndShell(s)
  PROVE  LET c == device[shell[s].device].socket
             f == Frame("close", shell[s].ch, s)
         IN  /\ shell[s].device \in Conns /\ shell[s].state = "open"
             /\ f \in Frames /\ f.t = "close" /\ f.ch = shell[s].ch /\ f.for = s
             /\ raced' = (IF shell[s].listed THEN raced \cup Mark("lostClose", conn' = conn) ELSE raced)
             /\ \A x \in Conns :
                  /\ conn'[x].agent = conn[x].agent
                  /\ conn'[x].gateway = conn[x].gateway
                  /\ conn'[x].device = conn[x].device
                  /\ conn'[x].toAgent = (IF shell[s].listed /\ x = c /\ conn[x].gateway = "open" /\ conn[x].agent # "closed" THEN Append(conn[x].toAgent, f) ELSE conn[x].toAgent)
                  /\ conn'[x].toGateway = conn[x].toGateway
             /\ \A t \in Shells :
                  /\ shell'[t].state = (IF t = s THEN "over" ELSE shell[t].state)
                  /\ shell'[t].device = shell[t].device
                  /\ shell'[t].ch = shell[t].ch
                  /\ shell'[t].listed = (IF t = s THEN FALSE ELSE shell[t].listed)
             /\ UNCHANGED <<tunnel, devices, device, channels, pty>>
<1>0. conn \in ConnTable /\ shell \in [Shells -> Terminal]
  BY TypesOf DEF Typed
<1> DEFINE c == device[shell[s].device].socket
           f == Frame("close", shell[s].ch, s)
<1>1. /\ ~shell[s].listed => conn' = conn
      /\ shell[s].listed => \A x \in Conns : conn'[x] =
           IF x = c /\ conn[x].gateway = "open" /\ conn[x].agent # "closed"
           THEN [conn[x] EXCEPT !.toAgent = Append(@, f)] ELSE conn[x]
  BY EndShellEffect, Zenon
<1>2. \A t \in Shells : shell'[t] =
        IF t = s THEN [shell[t] EXCEPT !.state = "over", !.listed = FALSE] ELSE shell[t]
  BY EndShellEffect, Zenon
<1>3. \A x \in Conns :
        /\ conn'[x].agent = conn[x].agent
        /\ conn'[x].gateway = conn[x].gateway
        /\ conn'[x].device = conn[x].device
        /\ conn'[x].toAgent = (IF shell[s].listed /\ x = c /\ conn[x].gateway = "open" /\ conn[x].agent # "closed" THEN Append(conn[x].toAgent, f) ELSE conn[x].toAgent)
        /\ conn'[x].toGateway = conn[x].toGateway
  <2> TAKE x \in Conns
  <2>0. conn[x] \in Connection
    BY <1>0 DEF ConnTable
  <2>1. CASE shell[s].listed /\ x = c /\ conn[x].gateway = "open" /\ conn[x].agent # "closed"
    <3>1. conn'[x] = [conn[x] EXCEPT !.toAgent = Append(conn[x].toAgent, f)]
      BY <2>1, <1>1, Zenon
    <3> HIDE DEF c, f
    <3> QED BY <2>0, <2>1, <3>1 DEF Connection
  <2>2. CASE ~(shell[s].listed /\ x = c /\ conn[x].gateway = "open" /\ conn[x].agent # "closed")
    <3>1. conn'[x] = conn[x]
      BY <2>2, <1>1
    <3> QED BY <2>2, <3>1
  <2> QED BY <2>1, <2>2
<1>4. \A t \in Shells :
        /\ shell'[t].state = (IF t = s THEN "over" ELSE shell[t].state)
        /\ shell'[t].device = shell[t].device
        /\ shell'[t].ch = shell[t].ch
        /\ shell'[t].listed = (IF t = s THEN FALSE ELSE shell[t].listed)
  <2> TAKE t \in Shells
  <2>0. shell[t] \in Terminal
    BY <1>0 DEF ConnTable
  <2>1. CASE t = s
    <3>1. shell'[t] = [shell[t] EXCEPT !.state = "over", !.listed = FALSE]
      BY <2>1, <1>2, Zenon
    <3> HIDE DEF c, f
    <3> QED BY <2>0, <2>1, <3>1 DEF Terminal
  <2>2. CASE ~(t = s)
    <3>1. shell'[t] = shell[t]
      BY <2>2, <1>2, Zenon
    <3> QED BY <2>2, <3>1
  <2> QED BY <2>1, <2>2
<1>5. /\ shell[s].device \in Conns /\ shell[s].state = "open"
      /\ f \in Frames /\ f.t = "close" /\ f.ch = shell[s].ch /\ f.for = s
      /\ raced' = (IF shell[s].listed THEN raced \cup Mark("lostClose", conn' = conn) ELSE raced)
  BY EndShellEffect, Zenon
<1>6. UNCHANGED <<tunnel, devices, device, channels, pty>>
  BY DEF EndShell
<1> QED BY <1>3, <1>4, <1>5, <1>6

LEMMA RecvOpenedFields ==
  ASSUME Typed, NEW c \in Conns, RecvOpened(c)
  PROVE  LET d == conn[c].device
             f == Head(conn[c].toGateway)
         IN  /\ d \in Conns /\ conn[c].toGateway # <<>> /\ conn[c].gateway \in {"open", "closing"}
             /\ f \in Frames /\ f.t = "opened"
             /\ raced' = raced \cup Stale(c)
             /\ \A x \in Conns :
                  /\ conn'[x].agent = conn[x].agent
                  /\ conn'[x].gateway = conn[x].gateway
                  /\ conn'[x].device = conn[x].device
                  /\ conn'[x].toAgent = conn[x].toAgent
                  /\ conn'[x].toGateway = (IF x = c THEN Tail(conn[x].toGateway) ELSE conn[x].toGateway)
             /\ \A t \in Shells :
                  /\ shell'[t].state = (IF t \in PendingOf(d, f.ch) THEN "open" ELSE shell[t].state)
                  /\ shell'[t].device = shell[t].device
                  /\ shell'[t].ch = shell[t].ch
                  /\ shell'[t].listed = shell[t].listed
             /\ UNCHANGED <<tunnel, devices, device, channels, pty>>
<1>0. conn \in ConnTable /\ shell \in [Shells -> Terminal]
  BY TypesOf DEF Typed
<1> DEFINE d == conn[c].device
           f == Head(conn[c].toGateway)
<1>1. \A x \in Conns :
        /\ conn'[x].agent = conn[x].agent
        /\ conn'[x].gateway = conn[x].gateway
        /\ conn'[x].device = conn[x].device
        /\ conn'[x].toAgent = conn[x].toAgent
        /\ conn'[x].toGateway = (IF x = c THEN Tail(conn[x].toGateway) ELSE conn[x].toGateway)
  <2> TAKE x \in Conns
  <2>0. conn[x] \in Connection
    BY <1>0 DEF ConnTable
  <2>1. CASE x = c
    <3>1. conn'[x] = [conn[x] EXCEPT !.toGateway = Tail(conn[x].toGateway)]
      BY <2>1, RecvOpenedEffect
    <3> HIDE DEF d, f
    <3> QED BY <2>0, <2>1, <3>1 DEF Connection
  <2>2. CASE ~(x = c)
    <3>1. conn'[x] = conn[x]
      BY <2>2, RecvOpenedEffect
    <3> QED BY <2>2, <3>1
  <2> QED BY <2>1, <2>2
<1>2. \A t \in Shells :
        /\ shell'[t].state = (IF t \in PendingOf(d, f.ch) THEN "open" ELSE shell[t].state)
        /\ shell'[t].device = shell[t].device
        /\ shell'[t].ch = shell[t].ch
        /\ shell'[t].listed = shell[t].listed
  <2> TAKE t \in Shells
  <2>0. shell[t] \in Terminal
    BY <1>0 DEF ConnTable
  <2>1. CASE t \in PendingOf(d, f.ch)
    <3>1. shell'[t] = [shell[t] EXCEPT !.state = "open"]
      BY <2>1, RecvOpenedEffect
    <3> HIDE DEF d, f
    <3> QED BY <2>0, <2>1, <3>1 DEF Terminal
  <2>2. CASE ~(t \in PendingOf(d, f.ch))
    <3>1. shell'[t] = shell[t]
      BY <2>2, RecvOpenedEffect
    <3> QED BY <2>2, <3>1
  <2> QED BY <2>1, <2>2
<1>3. /\ d \in Conns /\ conn[c].toGateway # <<>> /\ conn[c].gateway \in {"open", "closing"}
      /\ f \in Frames /\ f.t = "opened"
      /\ raced' = raced \cup Stale(c)
  BY RecvOpenedEffect
<1>4. UNCHANGED <<tunnel, devices, device, channels, pty>>
  BY DEF RecvOpened
<1> QED BY <1>1, <1>2, <1>3, <1>4

LEMMA RecvErrorFields ==
  ASSUME Typed, NEW c \in Conns, RecvError(c)
  PROVE  LET d == conn[c].device
             f == Head(conn[c].toGateway)
         IN  /\ d \in Conns /\ conn[c].toGateway # <<>> /\ conn[c].gateway \in {"open", "closing"}
             /\ f \in Frames /\ f.t = "error"
             /\ raced' = raced \cup Stale(c)
             /\ \A x \in Conns :
                  /\ conn'[x].agent = conn[x].agent
                  /\ conn'[x].gateway = conn[x].gateway
                  /\ conn'[x].device = conn[x].device
                  /\ conn'[x].toAgent = conn[x].toAgent
                  /\ conn'[x].toGateway = (IF x = c THEN Tail(conn[x].toGateway) ELSE conn[x].toGateway)
             /\ \A t \in Shells :
                  /\ shell'[t].state = (IF t \in PendingOf(d, f.ch) \cup ChannelOf(d, f.ch) THEN "over" ELSE shell[t].state)
                  /\ shell'[t].device = shell[t].device
                  /\ shell'[t].ch = shell[t].ch
                  /\ shell'[t].listed = (IF t \in PendingOf(d, f.ch) \cup ChannelOf(d, f.ch) THEN FALSE ELSE shell[t].listed)
             /\ UNCHANGED <<tunnel, devices, device, channels, pty>>
<1>0. conn \in ConnTable /\ shell \in [Shells -> Terminal]
  BY TypesOf DEF Typed
<1> DEFINE d == conn[c].device
           f == Head(conn[c].toGateway)
<1>1. \A x \in Conns :
        /\ conn'[x].agent = conn[x].agent
        /\ conn'[x].gateway = conn[x].gateway
        /\ conn'[x].device = conn[x].device
        /\ conn'[x].toAgent = conn[x].toAgent
        /\ conn'[x].toGateway = (IF x = c THEN Tail(conn[x].toGateway) ELSE conn[x].toGateway)
  <2> TAKE x \in Conns
  <2>0. conn[x] \in Connection
    BY <1>0 DEF ConnTable
  <2>1. CASE x = c
    <3>1. conn'[x] = [conn[x] EXCEPT !.toGateway = Tail(conn[x].toGateway)]
      BY <2>1, RecvErrorEffect, Zenon
    <3> HIDE DEF d, f
    <3> QED BY <2>0, <2>1, <3>1 DEF Connection
  <2>2. CASE ~(x = c)
    <3>1. conn'[x] = conn[x]
      BY <2>2, RecvErrorEffect, Zenon
    <3> QED BY <2>2, <3>1
  <2> QED BY <2>1, <2>2
<1>2. \A t \in Shells :
        /\ shell'[t].state = (IF t \in PendingOf(d, f.ch) \cup ChannelOf(d, f.ch) THEN "over" ELSE shell[t].state)
        /\ shell'[t].device = shell[t].device
        /\ shell'[t].ch = shell[t].ch
        /\ shell'[t].listed = (IF t \in PendingOf(d, f.ch) \cup ChannelOf(d, f.ch) THEN FALSE ELSE shell[t].listed)
  <2> TAKE t \in Shells
  <2>0. shell[t] \in Terminal
    BY <1>0 DEF ConnTable
  <2>1. CASE t \in PendingOf(d, f.ch) \cup ChannelOf(d, f.ch)
    <3>1. shell'[t] = [shell[t] EXCEPT !.state = "over", !.listed = FALSE]
      BY <2>1, RecvErrorEffect, Zenon
    <3> HIDE DEF d, f
    <3> QED BY <2>0, <2>1, <3>1 DEF Terminal
  <2>2. CASE ~(t \in PendingOf(d, f.ch) \cup ChannelOf(d, f.ch))
    <3>1. shell'[t] = shell[t]
      BY <2>2, RecvErrorEffect, Zenon
    <3> QED BY <2>2, <3>1
  <2> QED BY <2>1, <2>2
<1>3. /\ d \in Conns /\ conn[c].toGateway # <<>> /\ conn[c].gateway \in {"open", "closing"}
      /\ f \in Frames /\ f.t = "error"
      /\ raced' = raced \cup Stale(c)
  BY RecvErrorEffect, Zenon
<1>4. UNCHANGED <<tunnel, devices, device, channels, pty>>
  BY Zenon DEF RecvError
<1> QED BY <1>1, <1>2, <1>3, <1>4

LEMMA RecvExitFields ==
  ASSUME Typed, NEW c \in Conns, RecvExit(c)
  PROVE  LET d == conn[c].device
             f == Head(conn[c].toGateway)
         IN  /\ d \in Conns /\ conn[c].toGateway # <<>> /\ conn[c].gateway \in {"open", "closing"}
             /\ f \in Frames /\ f.t = "exit"
             /\ raced' = raced \cup Stale(c)
             /\ \A x \in Conns :
                  /\ conn'[x].agent = conn[x].agent
                  /\ conn'[x].gateway = conn[x].gateway
                  /\ conn'[x].device = conn[x].device
                  /\ conn'[x].toAgent = conn[x].toAgent
                  /\ conn'[x].toGateway = (IF x = c THEN Tail(conn[x].toGateway) ELSE conn[x].toGateway)
             /\ \A t \in Shells :
                  /\ shell'[t].state = (IF t \in ChannelOf(d, f.ch) /\ shell[t].state = "open" THEN "over" ELSE shell[t].state)
                  /\ shell'[t].device = shell[t].device
                  /\ shell'[t].ch = shell[t].ch
                  /\ shell'[t].listed = (IF t \in ChannelOf(d, f.ch) /\ shell[t].state = "open" THEN FALSE ELSE IF t \in ChannelOf(d, f.ch) THEN FALSE ELSE shell[t].listed)
             /\ UNCHANGED <<tunnel, devices, device, channels, pty>>
<1>0. conn \in ConnTable /\ shell \in [Shells -> Terminal]
  BY TypesOf DEF Typed
<1> DEFINE d == conn[c].device
           f == Head(conn[c].toGateway)
<1>1. \A x \in Conns :
        /\ conn'[x].agent = conn[x].agent
        /\ conn'[x].gateway = conn[x].gateway
        /\ conn'[x].device = conn[x].device
        /\ conn'[x].toAgent = conn[x].toAgent
        /\ conn'[x].toGateway = (IF x = c THEN Tail(conn[x].toGateway) ELSE conn[x].toGateway)
  <2> TAKE x \in Conns
  <2>0. conn[x] \in Connection
    BY <1>0 DEF ConnTable
  <2>1. CASE x = c
    <3>1. conn'[x] = [conn[x] EXCEPT !.toGateway = Tail(conn[x].toGateway)]
      BY <2>1, RecvExitEffect, Zenon
    <3> HIDE DEF d, f
    <3> QED BY <2>0, <2>1, <3>1 DEF Connection
  <2>2. CASE ~(x = c)
    <3>1. conn'[x] = conn[x]
      BY <2>2, RecvExitEffect, Zenon
    <3> QED BY <2>2, <3>1
  <2> QED BY <2>1, <2>2
<1>2. \A t \in Shells :
        /\ shell'[t].state = (IF t \in ChannelOf(d, f.ch) /\ shell[t].state = "open" THEN "over" ELSE shell[t].state)
        /\ shell'[t].device = shell[t].device
        /\ shell'[t].ch = shell[t].ch
        /\ shell'[t].listed = (IF t \in ChannelOf(d, f.ch) /\ shell[t].state = "open" THEN FALSE ELSE IF t \in ChannelOf(d, f.ch) THEN FALSE ELSE shell[t].listed)
  <2> TAKE t \in Shells
  <2>0. shell[t] \in Terminal
    BY <1>0 DEF ConnTable
  <2>1. CASE t \in ChannelOf(d, f.ch) /\ shell[t].state = "open"
    <3>1. shell'[t] = [shell[t] EXCEPT !.listed = FALSE, !.state = "over"]
      BY <2>1, RecvExitEffect, Zenon
    <3> HIDE DEF d, f
    <3> QED BY <2>0, <2>1, <3>1 DEF Terminal
  <2>2. CASE (t \in ChannelOf(d, f.ch)) /\ ~(t \in ChannelOf(d, f.ch) /\ shell[t].state = "open")
    <3>1. shell'[t] = [shell[t] EXCEPT !.listed = FALSE, !.state = shell[t].state]
      BY <2>2, RecvExitEffect, Zenon
    <3> HIDE DEF d, f
    <3> QED BY <2>0, <2>2, <3>1 DEF Terminal
  <2>3. CASE ~(t \in ChannelOf(d, f.ch) /\ shell[t].state = "open") /\ ~(t \in ChannelOf(d, f.ch))
    <3>1. shell'[t] = shell[t]
      BY <2>3, RecvExitEffect, Zenon
    <3> QED BY <2>3, <3>1
  <2> QED BY <2>1, <2>2, <2>3
<1>3. /\ d \in Conns /\ conn[c].toGateway # <<>> /\ conn[c].gateway \in {"open", "closing"}
      /\ f \in Frames /\ f.t = "exit"
      /\ raced' = raced \cup Stale(c)
  BY RecvExitEffect, Zenon
<1>4. UNCHANGED <<tunnel, devices, device, channels, pty>>
  BY DEF RecvExit
<1> QED BY <1>1, <1>2, <1>3, <1>4

LEMMA RecvOpenedAndExitFields ==
  ASSUME Typed, NEW c \in Conns, RecvOpenedAndExit(c)
  PROVE  LET d == conn[c].device
             r == conn[c].toGateway
         IN  /\ d \in Conns /\ r # <<>> /\ Tail(r) # <<>>
             /\ Head(r).t = "opened" /\ Head(Tail(r)).t = "exit" /\ Head(Tail(r)).ch = Head(r).ch /\ Head(r) \in Frames
             /\ raced' = raced \cup {"sameTick"} \cup Stale(c)
             /\ \A x \in Conns :
                  /\ conn'[x].agent = conn[x].agent
                  /\ conn'[x].gateway = conn[x].gateway
                  /\ conn'[x].device = conn[x].device
                  /\ conn'[x].toAgent = conn[x].toAgent
                  /\ conn'[x].toGateway = (IF x = c THEN Tail(Tail(r)) ELSE conn[x].toGateway)
             /\ \A t \in Shells :
                  /\ shell'[t].state = (IF t \in PendingOf(d, Head(r).ch) THEN "open" ELSE shell[t].state)
                  /\ shell'[t].device = shell[t].device
                  /\ shell'[t].ch = shell[t].ch
                  /\ shell'[t].listed = (IF t \in PendingOf(d, Head(r).ch) THEN FALSE ELSE shell[t].listed)
             /\ UNCHANGED <<tunnel, devices, device, channels, pty>>
<1>0. conn \in ConnTable /\ shell \in [Shells -> Terminal]
  BY TypesOf DEF Typed
<1> DEFINE d == conn[c].device
           r == conn[c].toGateway
<1>1. \A x \in Conns :
        /\ conn'[x].agent = conn[x].agent
        /\ conn'[x].gateway = conn[x].gateway
        /\ conn'[x].device = conn[x].device
        /\ conn'[x].toAgent = conn[x].toAgent
        /\ conn'[x].toGateway = (IF x = c THEN Tail(Tail(r)) ELSE conn[x].toGateway)
  <2> TAKE x \in Conns
  <2>0. conn[x] \in Connection
    BY <1>0 DEF ConnTable
  <2>1. CASE x = c
    <3>1. conn'[x] = [conn[x] EXCEPT !.toGateway = Tail(Tail(r))]
      BY <2>1, RecvOpenedAndExitEffect, Zenon
    <3> HIDE DEF d, r
    <3> QED BY <2>0, <2>1, <3>1 DEF Connection
  <2>2. CASE ~(x = c)
    <3>1. conn'[x] = conn[x]
      BY <2>2, RecvOpenedAndExitEffect, Zenon
    <3> QED BY <2>2, <3>1
  <2> QED BY <2>1, <2>2
<1>2. \A t \in Shells :
        /\ shell'[t].state = (IF t \in PendingOf(d, Head(r).ch) THEN "open" ELSE shell[t].state)
        /\ shell'[t].device = shell[t].device
        /\ shell'[t].ch = shell[t].ch
        /\ shell'[t].listed = (IF t \in PendingOf(d, Head(r).ch) THEN FALSE ELSE shell[t].listed)
  <2> TAKE t \in Shells
  <2>0. shell[t] \in Terminal
    BY <1>0 DEF ConnTable
  <2>1. CASE t \in PendingOf(d, Head(r).ch)
    <3>1. shell'[t] = [shell[t] EXCEPT !.state = "open", !.listed = FALSE]
      BY <2>1, RecvOpenedAndExitEffect, Zenon
    <3> HIDE DEF d, r
    <3> QED BY <2>0, <2>1, <3>1 DEF Terminal
  <2>2. CASE ~(t \in PendingOf(d, Head(r).ch))
    <3>1. shell'[t] = shell[t]
      BY <2>2, RecvOpenedAndExitEffect, Zenon
    <3> QED BY <2>2, <3>1
  <2> QED BY <2>1, <2>2
<1>3. /\ d \in Conns /\ r # <<>> /\ Tail(r) # <<>>
      /\ Head(r).t = "opened" /\ Head(Tail(r)).t = "exit" /\ Head(Tail(r)).ch = Head(r).ch /\ Head(r) \in Frames
      /\ raced' = raced \cup {"sameTick"} \cup Stale(c)
  BY RecvOpenedAndExitEffect, Zenon
<1>4. UNCHANGED <<tunnel, devices, device, channels, pty>>
  BY Zenon DEF RecvOpenedAndExit
<1> QED BY <1>1, <1>2, <1>3, <1>4

LEMMA RecvHelloFields ==
  ASSUME Typed, NEW c \in Conns, RecvHello(c)
  PROVE  LET d == conn[c].device
         IN  /\ d \in Conns
             /\ raced' = raced \cup Stale(c)
             /\ \A e \in Conns :
                  /\ device'[e].socket = device[e].socket
                  /\ device'[e].hello = (IF e = d THEN c ELSE device[e].hello)
                  /\ device'[e].next = device[e].next
                  /\ device'[e].grace = device[e].grace
             /\ UNCHANGED <<tunnel, devices, shell, channels, pty>>
<1>0. device \in [Conns -> Device]
  BY TypesOf DEF Typed
<1> DEFINE d == conn[c].device
<1>1. \A e \in Conns :
        /\ device'[e].socket = device[e].socket
        /\ device'[e].hello = (IF e = d THEN c ELSE device[e].hello)
        /\ device'[e].next = device[e].next
        /\ device'[e].grace = device[e].grace
  <2> TAKE e \in Conns
  <2>0. device[e] \in Device
    BY <1>0 DEF ConnTable
  <2>1. CASE e = d
    <3>1. device'[e] = [device[e] EXCEPT !.hello = c]
      BY <2>1, RecvHelloEffect
    <3> HIDE DEF d
    <3> QED BY <2>0, <2>1, <3>1 DEF Device
  <2>2. CASE ~(e = d)
    <3>1. device'[e] = device[e]
      BY <2>2, RecvHelloEffect
    <3> QED BY <2>2, <3>1
  <2> QED BY <2>1, <2>2
<1>2. /\ d \in Conns
      /\ raced' = raced \cup Stale(c)
  BY RecvHelloEffect
<1>3. UNCHANGED <<tunnel, devices, shell, channels, pty>>
  BY DEF RecvHello
<1> QED BY <1>1, <1>2, <1>3

LEMMA RecvOpenHeldFields ==
  ASSUME Typed, NEW c \in Conns, RecvOpenHeld(c)
  PROVE  LET f == Head(conn[c].toAgent)
             p == channels[f.ch]
         IN  /\ \A q \in Ptys :
                  /\ pty'[q].state = pty[q].state
                  /\ pty'[q].ch = pty[q].ch
                  /\ pty'[q].attached = (IF q = p /\ ~pty[p].attached THEN TRUE ELSE pty[q].attached)
                  /\ pty'[q].timer = (IF q = p /\ ~pty[p].attached THEN FALSE ELSE pty[q].timer)
                  /\ pty'[q].stray = pty[q].stray
                  /\ pty'[q].owner = pty[q].owner
                  /\ pty'[q].bound = (IF q = p /\ ~pty[p].attached THEN f.for ELSE pty[q].bound)
             /\ UNCHANGED <<tunnel, devices, device, shell, channels, raced>>
<1>0. pty \in [Ptys -> Process]
  BY TypesOf DEF Typed
<1> DEFINE f == Head(conn[c].toAgent)
           p == channels[f.ch]
<1>1. \A q \in Ptys :
        /\ pty'[q].state = pty[q].state
        /\ pty'[q].ch = pty[q].ch
        /\ pty'[q].attached = (IF q = p /\ ~pty[p].attached THEN TRUE ELSE pty[q].attached)
        /\ pty'[q].timer = (IF q = p /\ ~pty[p].attached THEN FALSE ELSE pty[q].timer)
        /\ pty'[q].stray = pty[q].stray
        /\ pty'[q].owner = pty[q].owner
        /\ pty'[q].bound = (IF q = p /\ ~pty[p].attached THEN f.for ELSE pty[q].bound)
  <2> TAKE q \in Ptys
  <2>0. pty[q] \in Process
    BY <1>0 DEF ConnTable
  <2>1. CASE q = p /\ ~pty[p].attached
    <3>1. pty'[q] = [pty[q] EXCEPT !.attached = TRUE, !.timer = FALSE, !.bound = f.for]
      BY <2>1, RecvOpenHeldEffect, Zenon
    <3> HIDE DEF f, p
    <3> QED BY <2>0, <2>1, <3>1 DEF Process
  <2>2. CASE ~(q = p /\ ~pty[p].attached)
    <3>1. pty'[q] = pty[q]
      BY <2>2, RecvOpenHeldEffect, Zenon
    <3> QED BY <2>2, <3>1
  <2> QED BY <2>1, <2>2
<1>2. UNCHANGED <<tunnel, devices, device, shell, channels, raced>>
  BY DEF RecvOpenHeld
<1> QED BY <1>1, <1>2

LEMMA RecvOpenNewFields ==
  ASSUME Typed, NEW c \in Conns, NEW p \in Ptys, RecvOpenNew(c, p)
  PROVE  LET f == Head(conn[c].toAgent)
         IN  /\ conn[c].agent = "open" /\ conn[c].toAgent # <<>>
             /\ f \in Frames /\ f.t = "open" /\ channels[f.ch] = NoPty /\ pty[p].state = "free"
             /\ \A x \in Conns :
                  /\ conn'[x].agent = conn[x].agent
                  /\ conn'[x].gateway = conn[x].gateway
                  /\ conn'[x].device = conn[x].device
                  /\ conn'[x].toAgent = (IF x = c THEN Tail(conn[x].toAgent) ELSE conn[x].toAgent)
                  /\ conn'[x].toGateway = conn[x].toGateway
             /\ \A q \in Ptys :
                  /\ pty'[q].state = (IF q = p THEN "spawning" ELSE pty[q].state)
                  /\ pty'[q].ch = (IF q = p THEN f.ch ELSE pty[q].ch)
                  /\ pty'[q].attached = (IF q = p THEN FALSE ELSE pty[q].attached)
                  /\ pty'[q].timer = (IF q = p THEN FALSE ELSE pty[q].timer)
                  /\ pty'[q].stray = (IF q = p THEN 0 ELSE pty[q].stray)
                  /\ pty'[q].owner = (IF q = p THEN f.for ELSE pty[q].owner)
                  /\ pty'[q].bound = (IF q = p THEN f.for ELSE pty[q].bound)
             /\ UNCHANGED <<tunnel, devices, device, shell, channels, raced>>
<1>0. conn \in ConnTable /\ pty \in [Ptys -> Process]
  BY TypesOf DEF Typed
<1> DEFINE f == Head(conn[c].toAgent)
<1>1. \A q \in Ptys : pty'[q] =
        IF q = p THEN [FreePty EXCEPT !.state = "spawning", !.ch = f.ch,
                                      !.owner = f.for, !.bound = f.for] ELSE pty[q]
  BY RecvOpenNewEffect, ZenonT(60)
<1>2. \A x \in Conns :
        /\ conn'[x].agent = conn[x].agent
        /\ conn'[x].gateway = conn[x].gateway
        /\ conn'[x].device = conn[x].device
        /\ conn'[x].toAgent = (IF x = c THEN Tail(conn[x].toAgent) ELSE conn[x].toAgent)
        /\ conn'[x].toGateway = conn[x].toGateway
  <2> TAKE x \in Conns
  <2>0. conn[x] \in Connection
    BY <1>0 DEF ConnTable
  <2>1. CASE x = c
    <3>1. conn'[x] = [conn[x] EXCEPT !.toAgent = Tail(conn[x].toAgent)]
      BY <2>1, RecvOpenNewEffect, Zenon
    <3> HIDE DEF f
    <3> QED BY <2>0, <2>1, <3>1 DEF Connection
  <2>2. CASE ~(x = c)
    <3>1. conn'[x] = conn[x]
      BY <2>2, RecvOpenNewEffect, Zenon
    <3> QED BY <2>2, <3>1
  <2> QED BY <2>1, <2>2
<1>3. \A q \in Ptys :
        /\ pty'[q].state = (IF q = p THEN "spawning" ELSE pty[q].state)
        /\ pty'[q].ch = (IF q = p THEN f.ch ELSE pty[q].ch)
        /\ pty'[q].attached = (IF q = p THEN FALSE ELSE pty[q].attached)
        /\ pty'[q].timer = (IF q = p THEN FALSE ELSE pty[q].timer)
        /\ pty'[q].stray = (IF q = p THEN 0 ELSE pty[q].stray)
        /\ pty'[q].owner = (IF q = p THEN f.for ELSE pty[q].owner)
        /\ pty'[q].bound = (IF q = p THEN f.for ELSE pty[q].bound)
  <2> TAKE q \in Ptys
  <2>0. pty[q] \in Process
    BY <1>0 DEF ConnTable
  <2>1. CASE q = p
    <3>1. pty'[q] = [FreePty EXCEPT !.state = "spawning", !.ch = f.ch,
                                       !.owner = f.for, !.bound = f.for]
      BY <2>1, <1>1
    <3> HIDE DEF f
    <3> QED BY <2>0, <2>1, <3>1 DEF Process, FreePty
  <2>2. CASE ~(q = p)
    <3>1. pty'[q] = pty[q]
      BY <2>2, <1>1
    <3> QED BY <2>2, <3>1
  <2> QED BY <2>1, <2>2
<1>4. /\ conn[c].agent = "open" /\ conn[c].toAgent # <<>>
      /\ f \in Frames /\ f.t = "open" /\ channels[f.ch] = NoPty /\ pty[p].state = "free"
  BY RecvOpenNewEffect, Zenon
<1>5. UNCHANGED <<tunnel, devices, device, shell, channels, raced>>
  BY DEF RecvOpenNew
<1> QED BY <1>2, <1>3, <1>4, <1>5

LEMMA RecvCloseFields ==
  ASSUME Typed, NEW c \in Conns, RecvClose(c)
  PROVE  LET f == Head(conn[c].toAgent)
         IN  /\ conn[c].agent = "open" /\ conn[c].toAgent # <<>>
             /\ f \in Frames /\ f.t = "close"
             /\ \A x \in Conns :
                  /\ conn'[x].agent = conn[x].agent
                  /\ conn'[x].gateway = conn[x].gateway
                  /\ conn'[x].device = conn[x].device
                  /\ conn'[x].toAgent = (IF x = c THEN Tail(conn[x].toAgent) ELSE conn[x].toAgent)
                  /\ conn'[x].toGateway = conn[x].toGateway
             /\ UNCHANGED <<tunnel, devices, device, shell>>
<1>0. conn \in ConnTable
  BY TypesOf DEF Typed
<1> DEFINE f == Head(conn[c].toAgent)
<1>1. \A x \in Conns :
        /\ conn'[x].agent = conn[x].agent
        /\ conn'[x].gateway = conn[x].gateway
        /\ conn'[x].device = conn[x].device
        /\ conn'[x].toAgent = (IF x = c THEN Tail(conn[x].toAgent) ELSE conn[x].toAgent)
        /\ conn'[x].toGateway = conn[x].toGateway
  <2> TAKE x \in Conns
  <2>0. conn[x] \in Connection
    BY <1>0 DEF ConnTable
  <2>1. CASE x = c
    <3>1. conn'[x] = [conn[x] EXCEPT !.toAgent = Tail(conn[x].toAgent)]
      BY <2>1, RecvCloseEffect
    <3> HIDE DEF f
    <3> QED BY <2>0, <2>1, <3>1 DEF Connection
  <2>2. CASE ~(x = c)
    <3>1. conn'[x] = conn[x]
      BY <2>2, RecvCloseEffect
    <3> QED BY <2>2, <3>1
  <2> QED BY <2>1, <2>2
<1>2. /\ conn[c].agent = "open" /\ conn[c].toAgent # <<>>
      /\ f \in Frames /\ f.t = "close"
  BY RecvCloseEffect
<1>3. UNCHANGED <<tunnel, devices, device, shell>>
  BY DEF RecvClose
<1> QED BY <1>1, <1>2, <1>3

LEMMA RecvKillFields ==
  ASSUME Typed, NEW c \in Conns, RecvKill(c)
  PROVE  /\ conn[c].agent = "open" /\ conn[c].toAgent # <<>>
         /\ Head(conn[c].toAgent) \in Frames /\ Head(conn[c].toAgent).t = "kill"
         /\ \A x \in Conns :
              /\ conn'[x].agent = (IF x = c THEN "closing" ELSE conn[x].agent)
              /\ conn'[x].gateway = conn[x].gateway
              /\ conn'[x].device = conn[x].device
              /\ conn'[x].toAgent = (IF x = c THEN Tail(conn[x].toAgent) ELSE conn[x].toAgent)
              /\ conn'[x].toGateway = conn[x].toGateway
         /\ UNCHANGED <<tunnel, devices, device, shell>>
<1>0. conn \in ConnTable
  BY TypesOf DEF Typed
<1>1. \A x \in Conns :
        /\ conn'[x].agent = (IF x = c THEN "closing" ELSE conn[x].agent)
        /\ conn'[x].gateway = conn[x].gateway
        /\ conn'[x].device = conn[x].device
        /\ conn'[x].toAgent = (IF x = c THEN Tail(conn[x].toAgent) ELSE conn[x].toAgent)
        /\ conn'[x].toGateway = conn[x].toGateway
  <2> TAKE x \in Conns
  <2>0. conn[x] \in Connection
    BY <1>0 DEF ConnTable
  <2>1. CASE x = c
    <3>1. conn'[x] = [conn[x] EXCEPT !.agent = "closing", !.toAgent = Tail(conn[x].toAgent)]
      BY <2>1, RecvKillEffect, Zenon
    <3> QED BY <2>0, <2>1, <3>1 DEF Connection
  <2>2. CASE ~(x = c)
    <3>1. conn'[x] = conn[x]
      BY <2>2, RecvKillEffect, Zenon
    <3> QED BY <2>2, <3>1
  <2> QED BY <2>1, <2>2
<1>2. /\ conn[c].agent = "open" /\ conn[c].toAgent # <<>>
      /\ Head(conn[c].toAgent) \in Frames /\ Head(conn[c].toAgent).t = "kill"
  BY RecvKillEffect, Zenon
<1>3. UNCHANGED <<tunnel, devices, device, shell>>
  BY DEF RecvKill
<1> QED BY <1>1, <1>2, <1>3

LEMMA SpawnedFields ==
  ASSUME Typed, NEW p \in Ptys, Spawned(p)
  PROVE  LET g == Frame("opened", pty[p].ch, pty[p].owner)
         IN  /\ pty[p].state = "spawning"
             /\ g \in Frames /\ g.t = "opened" /\ g.ch = pty[p].ch /\ g.for = pty[p].owner
             /\ \A x \in Conns :
                  /\ conn'[x].agent = conn[x].agent
                  /\ conn'[x].gateway = conn[x].gateway
                  /\ conn'[x].device = conn[x].device
                  /\ conn'[x].toAgent = conn[x].toAgent
                  /\ conn'[x].toGateway = (IF x = tunnel /\ conn[x].agent = "open" /\ conn[x].gateway # "closed" THEN Append(conn[x].toGateway, g) ELSE conn[x].toGateway)
             /\ \A q \in Ptys :
                  /\ pty'[q].state = (IF q = p THEN "alive" ELSE pty[q].state)
                  /\ pty'[q].ch = pty[q].ch
                  /\ pty'[q].attached = (IF q = p THEN TRUE ELSE pty[q].attached)
                  /\ pty'[q].timer = pty[q].timer
                  /\ pty'[q].stray = pty[q].stray
                  /\ pty'[q].owner = pty[q].owner
                  /\ pty'[q].bound = pty[q].bound
             /\ UNCHANGED <<tunnel, devices, device, shell, raced>>
<1>0. conn \in ConnTable /\ pty \in [Ptys -> Process]
  BY TypesOf DEF Typed
<1> DEFINE g == Frame("opened", pty[p].ch, pty[p].owner)
<1>1. \A q \in Ptys : pty'[q] =
        IF q = p THEN [pty[q] EXCEPT !.state = "alive", !.attached = TRUE] ELSE pty[q]
  BY SpawnedEffect, Zenon
<1>2. \A x \in Conns :
        /\ conn'[x].agent = conn[x].agent
        /\ conn'[x].gateway = conn[x].gateway
        /\ conn'[x].device = conn[x].device
        /\ conn'[x].toAgent = conn[x].toAgent
        /\ conn'[x].toGateway = (IF x = tunnel /\ conn[x].agent = "open" /\ conn[x].gateway # "closed" THEN Append(conn[x].toGateway, g) ELSE conn[x].toGateway)
  <2> TAKE x \in Conns
  <2>0. conn[x] \in Connection
    BY <1>0 DEF ConnTable
  <2>1. CASE x = tunnel /\ conn[x].agent = "open" /\ conn[x].gateway # "closed"
    <3>1. conn'[x] = [conn[x] EXCEPT !.toGateway = Append(conn[x].toGateway, g)]
      BY <2>1, SpawnedEffect, ZenonT(40)
    <3> HIDE DEF g
    <3> QED BY <2>0, <2>1, <3>1 DEF Connection
  <2>2. CASE ~(x = tunnel /\ conn[x].agent = "open" /\ conn[x].gateway # "closed")
    <3>1. conn'[x] = conn[x]
      BY <2>2, SpawnedEffect, Zenon
    <3> QED BY <2>2, <3>1
  <2> QED BY <2>1, <2>2
<1>3. \A q \in Ptys :
        /\ pty'[q].state = (IF q = p THEN "alive" ELSE pty[q].state)
        /\ pty'[q].ch = pty[q].ch
        /\ pty'[q].attached = (IF q = p THEN TRUE ELSE pty[q].attached)
        /\ pty'[q].timer = pty[q].timer
        /\ pty'[q].stray = pty[q].stray
        /\ pty'[q].owner = pty[q].owner
        /\ pty'[q].bound = pty[q].bound
  <2> TAKE q \in Ptys
  <2>0. pty[q] \in Process
    BY <1>0 DEF ConnTable
  <2>1. CASE q = p
    <3>1. pty'[q] = [pty[q] EXCEPT !.state = "alive", !.attached = TRUE]
      BY <2>1, <1>1, Zenon
    <3> HIDE DEF g
    <3> QED BY <2>0, <2>1, <3>1 DEF Process
  <2>2. CASE ~(q = p)
    <3>1. pty'[q] = pty[q]
      BY <2>2, <1>1, Zenon
    <3> QED BY <2>2, <3>1
  <2> QED BY <2>1, <2>2
<1>4. /\ pty[p].state = "spawning"
      /\ g \in Frames /\ g.t = "opened" /\ g.ch = pty[p].ch /\ g.for = pty[p].owner
  BY SpawnedEffect, Zenon
<1>5. UNCHANGED <<tunnel, devices, device, shell, raced>>
  BY DEF Spawned
<1> QED BY <1>2, <1>3, <1>4, <1>5

LEMMA SpawnFailsFields ==
  ASSUME Typed, NEW p \in Ptys, SpawnFails(p)
  PROVE  LET g == Frame("error", pty[p].ch, pty[p].owner)
         IN  /\ pty[p].state = "spawning"
             /\ g \in Frames /\ g.t = "error" /\ g.ch = pty[p].ch /\ g.for = pty[p].owner
             /\ \A x \in Conns :
                  /\ conn'[x].agent = conn[x].agent
                  /\ conn'[x].gateway = conn[x].gateway
                  /\ conn'[x].device = conn[x].device
                  /\ conn'[x].toAgent = conn[x].toAgent
                  /\ conn'[x].toGateway = (IF x = tunnel /\ conn[x].agent = "open" /\ conn[x].gateway # "closed" THEN Append(conn[x].toGateway, g) ELSE conn[x].toGateway)
             /\ \A q \in Ptys :
                  /\ pty'[q].state = (IF q = p THEN "free" ELSE pty[q].state)
                  /\ pty'[q].ch = (IF q = p THEN 0 ELSE pty[q].ch)
                  /\ pty'[q].attached = (IF q = p THEN FALSE ELSE pty[q].attached)
                  /\ pty'[q].timer = (IF q = p THEN FALSE ELSE pty[q].timer)
                  /\ pty'[q].stray = (IF q = p THEN 0 ELSE pty[q].stray)
                  /\ pty'[q].owner = (IF q = p THEN NoShell ELSE pty[q].owner)
                  /\ pty'[q].bound = (IF q = p THEN NoShell ELSE pty[q].bound)
             /\ UNCHANGED <<tunnel, devices, device, shell, channels, raced>>
<1>0. conn \in ConnTable /\ pty \in [Ptys -> Process]
  BY TypesOf DEF Typed
<1> DEFINE g == Frame("error", pty[p].ch, pty[p].owner)
<1>1. \A x \in Conns :
        /\ conn'[x].agent = conn[x].agent
        /\ conn'[x].gateway = conn[x].gateway
        /\ conn'[x].device = conn[x].device
        /\ conn'[x].toAgent = conn[x].toAgent
        /\ conn'[x].toGateway = (IF x = tunnel /\ conn[x].agent = "open" /\ conn[x].gateway # "closed" THEN Append(conn[x].toGateway, g) ELSE conn[x].toGateway)
  <2> TAKE x \in Conns
  <2>0. conn[x] \in Connection
    BY <1>0 DEF ConnTable
  <2>1. CASE x = tunnel /\ conn[x].agent = "open" /\ conn[x].gateway # "closed"
    <3>1. conn'[x] = [conn[x] EXCEPT !.toGateway = Append(conn[x].toGateway, g)]
      BY <2>1, SpawnFailsEffect
    <3> HIDE DEF g
    <3> QED BY <2>0, <2>1, <3>1 DEF Connection
  <2>2. CASE ~(x = tunnel /\ conn[x].agent = "open" /\ conn[x].gateway # "closed")
    <3>1. conn'[x] = conn[x]
      BY <2>2, SpawnFailsEffect
    <3> QED BY <2>2, <3>1
  <2> QED BY <2>1, <2>2
<1>2. \A q \in Ptys :
        /\ pty'[q].state = (IF q = p THEN "free" ELSE pty[q].state)
        /\ pty'[q].ch = (IF q = p THEN 0 ELSE pty[q].ch)
        /\ pty'[q].attached = (IF q = p THEN FALSE ELSE pty[q].attached)
        /\ pty'[q].timer = (IF q = p THEN FALSE ELSE pty[q].timer)
        /\ pty'[q].stray = (IF q = p THEN 0 ELSE pty[q].stray)
        /\ pty'[q].owner = (IF q = p THEN NoShell ELSE pty[q].owner)
        /\ pty'[q].bound = (IF q = p THEN NoShell ELSE pty[q].bound)
  <2> TAKE q \in Ptys
  <2>0. pty[q] \in Process
    BY <1>0 DEF ConnTable
  <2>1. CASE q = p
    <3>1. pty'[q] = FreePty
      BY <2>1, SpawnFailsEffect
    <3> HIDE DEF g
    <3> QED BY <2>0, <2>1, <3>1 DEF Process, FreePty
  <2>2. CASE ~(q = p)
    <3>1. pty'[q] = pty[q]
      BY <2>2, SpawnFailsEffect
    <3> QED BY <2>2, <3>1
  <2> QED BY <2>1, <2>2
<1>3. /\ pty[p].state = "spawning"
      /\ g \in Frames /\ g.t = "error" /\ g.ch = pty[p].ch /\ g.for = pty[p].owner
  BY SpawnFailsEffect
<1>4. UNCHANGED <<tunnel, devices, device, shell, channels, raced>>
  BY DEF SpawnFails
<1> QED BY <1>1, <1>2, <1>3, <1>4

LEMMA PtyExitsFields ==
  ASSUME Typed, NEW p \in Ptys, PtyExits(p)
  PROVE  LET g == Frame("exit", pty[p].ch, pty[p].bound)
         IN  /\ pty[p].state \in {"alive", "killed"}
             /\ g \in Frames /\ g.t = "exit" /\ g.ch = pty[p].ch /\ g.for = pty[p].bound
             /\ \A x \in Conns :
                  /\ conn'[x].agent = conn[x].agent
                  /\ conn'[x].gateway = conn[x].gateway
                  /\ conn'[x].device = conn[x].device
                  /\ conn'[x].toAgent = conn[x].toAgent
                  /\ conn'[x].toGateway = (IF pty[p].attached /\ x = tunnel /\ conn[x].agent = "open" /\ conn[x].gateway # "closed" THEN Append(conn[x].toGateway, g) ELSE conn[x].toGateway)
             /\ UNCHANGED <<tunnel, devices, device, shell>>
<1>0. conn \in ConnTable
  BY TypesOf DEF Typed
<1> DEFINE g == Frame("exit", pty[p].ch, pty[p].bound)
<1>1. \A x \in Conns : conn'[x] =
        IF pty[p].attached /\ x = tunnel /\ conn[x].agent = "open" /\ conn[x].gateway # "closed"
        THEN [conn[x] EXCEPT !.toGateway = Append(@, g)] ELSE conn[x]
  BY PtyExitsEffect
<1>2. \A x \in Conns :
        /\ conn'[x].agent = conn[x].agent
        /\ conn'[x].gateway = conn[x].gateway
        /\ conn'[x].device = conn[x].device
        /\ conn'[x].toAgent = conn[x].toAgent
        /\ conn'[x].toGateway = (IF pty[p].attached /\ x = tunnel /\ conn[x].agent = "open" /\ conn[x].gateway # "closed" THEN Append(conn[x].toGateway, g) ELSE conn[x].toGateway)
  <2> TAKE x \in Conns
  <2>0. conn[x] \in Connection
    BY <1>0 DEF ConnTable
  <2>1. CASE pty[p].attached /\ x = tunnel /\ conn[x].agent = "open" /\ conn[x].gateway # "closed"
    <3>1. conn'[x] = [conn[x] EXCEPT !.toGateway = Append(conn[x].toGateway, g)]
      BY <2>1, <1>1
    <3> HIDE DEF g
    <3> QED BY <2>0, <2>1, <3>1 DEF Connection
  <2>2. CASE ~(pty[p].attached /\ x = tunnel /\ conn[x].agent = "open" /\ conn[x].gateway # "closed")
    <3>1. conn'[x] = conn[x]
      BY <2>2, <1>1
    <3> QED BY <2>2, <3>1
  <2> QED BY <2>1, <2>2
<1>3. /\ pty[p].state \in {"alive", "killed"}
      /\ g \in Frames /\ g.t = "exit" /\ g.ch = pty[p].ch /\ g.for = pty[p].bound
  BY PtyExitsEffect
<1>4. UNCHANGED <<tunnel, devices, device, shell>>
  BY DEF PtyExits
<1> QED BY <1>2, <1>3, <1>4

------------------------------------------------------------------

LEMMA DisconnectedFields ==
  ASSUME Typed, NEW R, Disconnected(R)
  PROVE  /\ tunnel' = 0
         /\ \A q \in Ptys :
              /\ pty'[q].state = pty[q].state
              /\ pty'[q].ch = pty[q].ch
              /\ pty'[q].attached = (pty[q].attached /\ q \notin Held)
              /\ pty'[q].timer = (pty[q].timer \/ q \in Held)
              /\ pty'[q].stray = (IF q \in Held /\ pty[q].timer THEN pty[q].stray + 1 ELSE pty[q].stray)
              /\ pty'[q].owner = pty[q].owner
              /\ pty'[q].bound = pty[q].bound
         /\ raced \subseteq raced' /\ R \subseteq raced'
         /\ (\E p \in Held : pty[p].timer) => "retryFails" \in raced'
         /\ (\E p \in Ptys : pty[p].state = "spawning") => "spawnAcrossDrop" \in raced'
<1>0. pty \in [Ptys -> Process] /\ raced \in SUBSET Races
  BY TypesOf DEF Typed
<1>1. \A q \in Ptys :
        /\ pty'[q].state = pty[q].state
        /\ pty'[q].ch = pty[q].ch
        /\ pty'[q].attached = (pty[q].attached /\ q \notin Held)
        /\ pty'[q].timer = (pty[q].timer \/ q \in Held)
        /\ pty'[q].stray = (IF q \in Held /\ pty[q].timer THEN pty[q].stray + 1 ELSE pty[q].stray)
        /\ pty'[q].owner = pty[q].owner
        /\ pty'[q].bound = pty[q].bound
  <2> TAKE q \in Ptys
  <2>0. pty[q] \in Process /\ pty' = DetachAll
    BY <1>0 DEF Disconnected
  <2>1. CASE q \in Held
    <3> DEFINE n == IF pty[q].timer THEN pty[q].stray + 1 ELSE pty[q].stray
    <3>1. pty'[q] = [pty[q] EXCEPT !.attached = FALSE, !.timer = TRUE, !.stray = n]
      BY <2>0, <2>1, Zenon DEF DetachAll
    <3>2. n = (IF q \in Held /\ pty[q].timer THEN pty[q].stray + 1 ELSE pty[q].stray)
      BY <2>1
    <3> HIDE DEF n
    <3> QED BY <2>0, <2>1, <3>1, <3>2 DEF Process
  <2>2. CASE q \notin Held
    <3>1. pty'[q] = pty[q]
      BY <2>0, <2>2, Zenon DEF DetachAll
    <3>2. pty[q].attached \in BOOLEAN /\ pty[q].timer \in BOOLEAN
      BY <2>0 DEF Process
    <3> QED BY <2>2, <3>1, <3>2
  <2> QED BY <2>1, <2>2
<1> DEFINE noted == R \cup Mark("retryFails", \E p \in Held : pty[p].timer)
                      \cup Mark("spawnAcrossDrop", \E p \in Ptys : pty[p].state = "spawning")
<1>2. tunnel' = 0 /\ Note(noted)
  BY DEF Disconnected
<1>3. raced' = raced \cup noted
  <2> HIDE DEF noted
  <2> QED BY <1>0, <1>2, NoteType
<1> QED BY <1>1, <1>2, <1>3 DEF Mark

-----------------------------------------------------------------------------
(* Types.                                                                    *)

\* What most steps leave of the places of connections and terminals.
SamePlaces ==
  /\ \A c \in Conns : conn'[c].gateway # "none" <=> conn[c].gateway # "none"
  /\ \A c \in Conns : conn'[c].gateway # "none" => conn'[c].device = conn[c].device
  /\ \A s \in Shells : shell'[s].device = shell[s].device /\ shell'[s].ch = shell[s].ch
  /\ \A s \in Shells : shell'[s].listed =>
       shell[s].listed /\ (shell'[s].state = shell[s].state \/ shell'[s].state \in {"opening", "open"})
  /\ \A s \in Shells : shell'[s].state = "idle" <=> shell[s].state = "idle"
  /\ \A s \in Shells : shell[s].state = "over" => shell'[s].state = "over"
  /\ devices' \in {0, devices}
  /\ \A d \in Conns : device'[d].next = device[d].next \/ (device'[d].next = 1 /\ devices' = 0)

LEMMA TypedKept ==
  ASSUME Typed, TypeOK', SamePlaces
  PROVE  Typed'
<1>1. Opened' = Opened
  BY DEF SamePlaces, Opened
<1>2. IsFiniteSet(Opened) /\ Cardinality(Opened) \in Nat
  BY FiniteAssumption, FS_Subset, FS_CardinalityType DEF Opened
<1>3. IdsAreFew'
  <2> SUFFICES ASSUME NEW d \in Conns
               PROVE  device'[d].next <= Cardinality(Opened') + 1
    BY DEF IdsAreFew
  <2>1. device[d].next <= Cardinality(Opened) + 1
    BY DEF Typed, IdsAreFew
  <2> QED BY <1>1, <1>2, <2>1 DEF SamePlaces
<1>4. Placed'
  BY DEF SamePlaces, Placed, Typed
<1> QED BY <1>3, <1>4 DEF Typed

LEMMA PlacesKept ==
  ASSUME Typed, [Next]_vars,
         \A c \in Conns : ~Accept(c),
         \A s \in Shells : ~OpenShell(s)
  PROVE  TypeOK' /\ SamePlaces
<1>0. /\ conn \in ConnTable /\ tunnel \in Conns \cup {0} /\ devices \in Conns \cup {0}
      /\ device \in [Conns -> Device] /\ shell \in [Shells -> Terminal]
      /\ channels \in [ChannelIds -> Ptys \cup {NoPty}] /\ pty \in [Ptys -> Process]
      /\ raced \in SUBSET Races
  BY TypesOf DEF Typed
<1>1. CASE UNCHANGED vars
  <2>1. TypeOK' /\ SamePlaces
    BY <1>1 DEF vars, Typed, TypeOK, SamePlaces
  <2> QED BY <2>1
<1>2. CASE DialFails
  <2>1. UNCHANGED <<shell, device, devices>> /\ conn[tunnel].gateway = "none"
    BY <1>2 DEF DialFails
  <2>2. SamePlaces
    BY <1>2, <2>1, DialFailsFields DEF SamePlaces
  <2> QED BY <1>2, <2>2, DialFailsEffect
<1>3. CASE AgentRestarts
  <2>1. UNCHANGED <<shell, device>>
    BY <1>3, Zenon DEF AgentRestarts
  <2>2. SamePlaces
    BY <1>0, <1>3, <2>1, AgentRestartsFields DEF SamePlaces
  <2> QED BY <1>3, <2>2, AgentRestartsEffect, Zenon
<1>4. CASE KillDevice
  <2>1. UNCHANGED device
    BY <1>4 DEF KillDevice
  <2>2. SamePlaces
    BY <1>0, <1>4, <2>1, KillDeviceEffect, KillDeviceFields, Zenon DEF SamePlaces, ConnTable, Connection
  <2> QED BY <1>4, <2>2, KillDeviceEffect, Zenon
<1>5. CASE GatewayRestarts
  <2>2. SamePlaces
    BY <1>0, <1>5, GatewayRestartsFields DEF SamePlaces
  <2> QED BY <1>5, <2>2, GatewayRestartsEffect, Zenon
<1>6. ASSUME NEW c \in Conns, Dial(c)
      PROVE  TypeOK' /\ SamePlaces
  <2>1. UNCHANGED <<shell, device>>
    BY <1>6 DEF Dial
  <2>2. SamePlaces
    BY <1>0, <1>6, <2>1, DialFields DEF SamePlaces
  <2> QED BY <1>6, <2>2, DialEffect
<1>7. ASSUME NEW c \in Conns, Connected(c)
      PROVE  TypeOK' /\ SamePlaces
  <2>1. UNCHANGED <<shell, device>>
    BY <1>7 DEF Connected
  <2>2. SamePlaces
    BY <1>0, <1>7, <2>1, ConnectedFields DEF SamePlaces
  <2> QED BY <1>7, <2>2, ConnectedEffect, Zenon
<1>8. ASSUME NEW c \in Conns, AgentSeesClose(c)
      PROVE  TypeOK' /\ SamePlaces
  <2>1. UNCHANGED <<shell, device>>
    BY <1>8 DEF AgentSeesClose
  <2>2. SamePlaces
    BY <1>0, <1>8, <2>1, AgentSeesCloseFields DEF SamePlaces
  <2> QED BY <1>8, <2>2, AgentSeesCloseEffect, Zenon
<1>9. ASSUME NEW c \in Conns, RecvOpened(c)
      PROVE  TypeOK' /\ SamePlaces
  <2>1. UNCHANGED <<device>>
    BY <1>9 DEF RecvOpened
  <2>2. SamePlaces
    BY <1>0, <1>9, <2>1, RecvOpenedFields DEF SamePlaces, PendingOf
  <2> QED BY <1>9, <2>2, RecvOpenedEffect
<1>10. ASSUME NEW c \in Conns, RecvOpenedAndExit(c)
      PROVE  TypeOK' /\ SamePlaces
  <2>1. UNCHANGED <<device>>
    BY <1>10, Zenon DEF RecvOpenedAndExit
  <2>2. SamePlaces
    BY <1>0, <1>10, <2>1, RecvOpenedAndExitFields DEF SamePlaces, PendingOf
  <2> QED BY <1>10, <2>2, RecvOpenedAndExitEffect, Zenon
<1>11. ASSUME NEW c \in Conns, RecvError(c)
      PROVE  TypeOK' /\ SamePlaces
  <2>1. UNCHANGED <<device>>
    BY <1>11, Zenon DEF RecvError
  <2>2. SamePlaces
    BY <1>0, <1>11, <2>1, RecvErrorFields
       DEF SamePlaces, PendingOf, ChannelOf, Listed, Typed, Placed
  <2> QED BY <1>11, <2>2, RecvErrorEffect, Zenon
<1>12. ASSUME NEW c \in Conns, RecvExit(c)
      PROVE  TypeOK' /\ SamePlaces
  <2>1. UNCHANGED <<device>>
    BY <1>12 DEF RecvExit
  <2>2. SamePlaces
    BY <1>0, <1>12, <2>1, RecvExitFields DEF SamePlaces
  <2> QED BY <1>12, <2>2, RecvExitEffect, Zenon
<1>13. ASSUME NEW c \in Conns, RecvHello(c)
      PROVE  TypeOK' /\ SamePlaces
  <2>1. UNCHANGED <<shell>>
    BY <1>13 DEF RecvHello
  <2>2. SamePlaces
    BY <1>0, <1>13, <2>1, RecvHelloEffect, RecvHelloFields DEF SamePlaces
  <2> QED BY <1>13, <2>2, RecvHelloEffect
<1>14. ASSUME NEW c \in Conns, GatewaySeesClose(c)
      PROVE  TypeOK' /\ SamePlaces
  <2>1. conn[c].gateway # "none"
    BY <1>14, Zenon DEF GatewaySeesClose
  <2>2. SamePlaces
    <3>1. /\ \A x \in Conns :
               /\ conn'[x].agent = conn[x].agent
               /\ conn'[x].gateway = (IF x = c THEN "closed" ELSE conn[x].gateway)
               /\ conn'[x].device = conn[x].device
               /\ conn'[x].toAgent = conn[x].toAgent
               /\ conn'[x].toGateway = (IF x = c THEN <<>> ELSE conn[x].toGateway)
          /\ \A e \in Conns :
               /\ device'[e].socket = (IF Current(c) /\ e = conn[c].device THEN 0 ELSE device[e].socket)
               /\ device'[e].hello = (IF Current(c) /\ e = conn[c].device THEN 0 ELSE device[e].hello)
               /\ device'[e].next = device[e].next
               /\ device'[e].grace = (IF Current(c) /\ e = conn[c].device THEN ~Deserted(conn[c].device) ELSE device[e].grace)
          /\ devices' = (IF Current(c) /\ Deserted(conn[c].device) THEN 0 ELSE devices)
      BY <1>14, GatewaySeesCloseFields, Zenon
    <3>a. CASE ~Current(c)
      <4>1. UNCHANGED <<devices, shell>>
        BY <1>14, <3>a DEF GatewaySeesClose
      <4> QED BY <2>1, <3>1, <4>1 DEF SamePlaces
    <3>b. CASE Current(c)
      <4>1. \A t \in Shells : shell'[t] =
              IF t \in {s \in Shells : shell[s].state = "opening" /\ shell[s].device = conn[c].device}
              THEN [shell[t] EXCEPT !.state = "over", !.listed = FALSE] ELSE shell[t]
        BY <1>14, <3>b, GatewaySeesCloseEffect, Zenon
      <4>2. \A t \in Shells :
              /\ shell'[t].device = shell[t].device /\ shell'[t].ch = shell[t].ch
              /\ shell'[t].listed => shell[t].listed /\ shell'[t].state = shell[t].state
              /\ shell'[t].state = "idle" <=> shell[t].state = "idle"
              /\ shell[t].state = "over" => shell'[t].state = "over"
        BY <1>0, <4>1, Zenon DEF Terminal
      <4> QED BY <2>1, <3>1, <4>2 DEF SamePlaces
    <3> QED BY <3>a, <3>b
  <2> QED BY <1>14, <2>2, GatewaySeesCloseEffect, Zenon
<1>15. ASSUME NEW d \in Conns, GatewayGraceFires(d)
      PROVE  TypeOK' /\ SamePlaces
  <2>1. UNCHANGED <<conn>> /\ devices' = 0
    BY <1>15 DEF GatewayGraceFires
  <2>2. SamePlaces
    BY <1>0, <1>15, <2>1, GatewayGraceFiresFields DEF SamePlaces
  <2> QED BY <1>15, <2>2, GatewayGraceFiresEffect, Zenon
<1>16. ASSUME NEW c \in Conns, RecvOpenHeld(c)
      PROVE  TypeOK' /\ SamePlaces
  <2>1. UNCHANGED <<shell, device, devices>>
    BY <1>16 DEF RecvOpenHeld
  <2>2. SamePlaces
    BY <1>0, <1>16, <2>1, RecvOpenHeldEffect, Zenon DEF SamePlaces
  <2> QED BY <1>16, <2>2, RecvOpenHeldEffect, Zenon
<1>17. ASSUME NEW c \in Conns, RecvOpenRefused(c)
      PROVE  TypeOK' /\ SamePlaces
  <2>1. UNCHANGED <<shell, device, devices>>
    BY <1>17 DEF RecvOpenRefused
  <2>2. SamePlaces
    BY <1>0, <1>17, <2>1, RecvOpenRefusedEffect DEF SamePlaces
  <2> QED BY <1>17, <2>2, RecvOpenRefusedEffect
<1>18. ASSUME NEW c \in Conns, RecvClose(c)
      PROVE  TypeOK' /\ SamePlaces
  <2>1. UNCHANGED <<shell, device>>
    BY <1>18 DEF RecvClose
  <2>2. SamePlaces
    BY <1>0, <1>18, <2>1, RecvCloseFields DEF SamePlaces
  <2> QED BY <1>18, <2>2, RecvCloseEffect
<1>19. ASSUME NEW c \in Conns, RecvKill(c)
      PROVE  TypeOK' /\ SamePlaces
  <2>1. UNCHANGED <<shell, device>>
    BY <1>19 DEF RecvKill
  <2>2. SamePlaces
    BY <1>0, <1>19, <2>1, RecvKillFields DEF SamePlaces
  <2> QED BY <1>19, <2>2, RecvKillEffect, Zenon
<1>20. ASSUME NEW c \in Conns, NEW p \in Ptys, RecvOpenNew(c, p)
      PROVE  TypeOK' /\ SamePlaces
  <2>1. UNCHANGED <<shell, device>>
    BY <1>20 DEF RecvOpenNew
  <2>2. SamePlaces
    BY <1>0, <1>20, <2>1, RecvOpenNewFields DEF SamePlaces
  <2> QED BY <1>20, <2>2, RecvOpenNewEffect, Zenon
<1>21. ASSUME NEW s \in Shells, OpenTimesOut(s)
      PROVE  TypeOK' /\ SamePlaces
  <2>1. UNCHANGED <<conn, device>> /\ shell[s].state = "opening"
    BY <1>21 DEF OpenTimesOut
  <2>2. SamePlaces
    BY <1>0, <1>21, <2>1, OpenTimesOutFields DEF SamePlaces
  <2> QED BY <1>21, <2>2, OpenTimesOutEffect, Zenon
<1>22. ASSUME NEW s \in Shells, EndShell(s)
      PROVE  TypeOK' /\ SamePlaces
  <2>1. UNCHANGED <<device, devices>>
    BY <1>22 DEF EndShell
  <2>2. SamePlaces
    <3>1. \A x \in Conns : conn'[x].gateway = conn[x].gateway /\ conn'[x].device = conn[x].device
      BY <1>22, EndShellFields
    <3>2. /\ \A t \in Shells :
               /\ shell'[t].state = (IF t = s THEN "over" ELSE shell[t].state)
               /\ shell'[t].device = shell[t].device
               /\ shell'[t].ch = shell[t].ch
               /\ shell'[t].listed = (IF t = s THEN FALSE ELSE shell[t].listed)
          /\ shell[s].state = "open"
      BY <1>22, EndShellFields, Zenon
    <3> QED BY <2>1, <3>1, <3>2 DEF SamePlaces
  <2> QED BY <1>22, <2>2, EndShellEffect, Zenon
<1>23. ASSUME NEW p \in Ptys, Spawned(p)
      PROVE  TypeOK' /\ SamePlaces
  <2>1. UNCHANGED <<shell, device>>
    BY <1>23 DEF Spawned
  <2>2. SamePlaces
    BY <1>0, <1>23, <2>1, SpawnedFields DEF SamePlaces
  <2> QED BY <1>23, <2>2, SpawnedEffect, Zenon
<1>24. ASSUME NEW p \in Ptys, SpawnFails(p)
      PROVE  TypeOK' /\ SamePlaces
  <2>1. UNCHANGED <<shell, device>>
    BY <1>24 DEF SpawnFails
  <2>2. SamePlaces
    BY <1>0, <1>24, <2>1, SpawnFailsFields DEF SamePlaces
  <2> QED BY <1>24, <2>2, SpawnFailsEffect
<1>25. ASSUME NEW p \in Ptys, PtyExits(p)
      PROVE  TypeOK' /\ SamePlaces
  <2>1. UNCHANGED <<shell, device>>
    BY <1>25 DEF PtyExits
  <2>2. SamePlaces
    BY <1>0, <1>25, <2>1, PtyExitsFields DEF SamePlaces
  <2> QED BY <1>25, <2>2, PtyExitsEffect
<1>26. ASSUME NEW p \in Ptys, AgentGraceFires(p)
      PROVE  TypeOK' /\ SamePlaces
  <2>1. UNCHANGED <<conn, shell, device, devices>>
    BY <1>26 DEF AgentGraceFires
  <2>2. SamePlaces
    BY <1>0, <1>26, <2>1, AgentGraceFiresEffect DEF SamePlaces
  <2> QED BY <1>26, <2>2, AgentGraceFiresEffect
<1> QED
  BY <1>1, <1>2, <1>3, <1>4, <1>5, <1>6, <1>7, <1>8, <1>9, <1>10, <1>11, <1>12, <1>13, <1>14, <1>15, <1>16, <1>17, <1>18, <1>19, <1>20, <1>21, <1>22, <1>23, <1>24, <1>25, <1>26 DEF Next

LEMMA TypedStep ==
  ASSUME Typed, [Next]_vars
  PROVE  Typed'
<1>0. /\ conn \in ConnTable /\ tunnel \in Conns \cup {0} /\ devices \in Conns \cup {0}
      /\ device \in [Conns -> Device] /\ shell \in [Shells -> Terminal]
  BY TypesOf DEF Typed
<1>1. CASE (\A c \in Conns : ~Accept(c)) /\ (\A s \in Shells : ~OpenShell(s))
  BY <1>1, PlacesKept, TypedKept
<1>2. ASSUME NEW c \in Conns, Accept(c)
      PROVE  Typed'
  <2>1. TypeOK' /\ UNCHANGED shell
    BY <1>2, AcceptEffect, Zenon
  <2>2. \A x \in Conns : conn'[x].gateway # "none" => conn'[x].device \in Conns
    <3>1. \A x \in Conns : conn[x].gateway # "none" => conn[x].device \in Conns
      BY DEF Typed, Placed
    <3>2. \A x \in Conns :
            /\ conn'[x].gateway = (IF x = c THEN "open" ELSE IF devices # 0 /\ x = device[devices].socket /\ conn[x].gateway = "open" THEN "closing" ELSE conn[x].gateway)
            /\ conn'[x].device = (IF x = c THEN IF devices = 0 THEN c ELSE devices ELSE conn[x].device)
      BY <1>2, AcceptFields
    <3> QED BY <1>0, <3>1, <3>2
  <2>3. \A d \in Conns : device'[d].next = device[d].next \/ device'[d].next = 1
    BY <1>0, <1>2, AcceptFields DEF Device, FreshDevice
  <2>4. IsFiniteSet(Opened) /\ Cardinality(Opened) \in Nat /\ Opened' = Opened
    BY <2>1, FiniteAssumption, FS_Subset, FS_CardinalityType DEF Opened
  <2>5. IdsAreFew'
    <3> SUFFICES ASSUME NEW d \in Conns
                 PROVE  device'[d].next <= Cardinality(Opened') + 1
      BY DEF IdsAreFew
    <3>1. device[d].next <= Cardinality(Opened) + 1
      BY DEF Typed, IdsAreFew
    <3> QED BY <2>3, <2>4, <3>1
  <2> QED BY <2>1, <2>2, <2>5 DEF Typed, Placed
<1>3. ASSUME NEW s \in Shells, OpenShell(s)
      PROVE  Typed'
  <2>1. TypeOK' /\ devices \in Conns
    BY <1>3, OpenShellEffect
  <2>2. \A x \in Conns : conn'[x].gateway = conn[x].gateway /\ conn'[x].device = conn[x].device
    BY <1>3, OpenShellFields
  <2>3. \A x \in Shells : /\ shell'[x].state # "idle" => shell'[x].device \in Conns
                          /\ shell'[x].listed => shell'[x].state # "idle"
    <3>1. \A x \in Shells : /\ shell[x].state # "idle" => shell[x].device \in Conns
                            /\ shell[x].listed => shell[x].state # "idle"
      BY DEF Typed, Placed
    <3>2. \A x \in Shells :
            /\ shell'[x].state = (IF x = s THEN "opening" ELSE shell[x].state)
            /\ shell'[x].device = (IF x = s THEN devices ELSE shell[x].device)
            /\ shell'[x].ch = (IF x = s THEN device[devices].next ELSE shell[x].ch)
            /\ shell'[x].listed = (IF x = s THEN TRUE ELSE shell[x].listed)
      BY <1>3, OpenShellFields, Zenon
    <3> QED BY <2>1, <3>1, <3>2
  <2>4. /\ IsFiniteSet(Opened) /\ Cardinality(Opened) \in Nat
        /\ IsFiniteSet(Opened') /\ Cardinality(Opened') \in Nat
    BY FiniteAssumption, FS_Subset, FS_CardinalityType DEF Opened
  <2>5. Cardinality(Opened) <= Cardinality(Opened')
    <3>1. Opened \subseteq Opened'
      BY <1>3, OpenShellFields DEF Opened
    <3> QED BY <2>4, <3>1, FS_Subset
  <2>6. IdsAreFew'
    <3> SUFFICES ASSUME NEW d \in Conns
                 PROVE  device'[d].next <= Cardinality(Opened') + 1
      BY DEF IdsAreFew
    <3>1. device[d].next <= Cardinality(Opened) + 1 /\ device[d].next \in Nat
      BY <1>0 DEF Typed, IdsAreFew, Device
    <3>2. CASE d = devices
      <4>1. device'[d].next = device[d].next + 1
        BY <1>3, <3>2, OpenShellFields
      <4> QED BY <1>3, <3>2, <4>1, OpenShellEffect
    <3>3. CASE d # devices
      <4>1. device'[d].next = device[d].next
        BY <1>3, <3>3, OpenShellFields
      <4> QED BY <2>4, <2>5, <3>1, <4>1
    <3> QED BY <3>2, <3>3
  <2> QED BY <2>1, <2>2, <2>3, <2>6 DEF Typed, Placed
<1> QED BY <1>1, <1>2, <1>3

LEMMA TypedAtStart ==
  ASSUME Init
  PROVE  Typed
<1>1. TypeOK
  BY CardType, FreePtyType, Blank, TypesOf
     DEF Init, ConnTable, Device, Terminal, FreshDevice, UnopenedShell, Conns
<1>2. Opened = {}
  BY DEF Init, Opened, UnopenedShell
<1>3. IdsAreFew
  BY <1>2, FS_EmptySet DEF Init, IdsAreFew, FreshDevice
<1>4. Placed
  BY DEF Init, Placed, Unused, UnopenedShell
<1> QED BY <1>1, <1>3, <1>4 DEF Typed

\* Every variable keeps its type, whatever the two ends, the API and the network
\* do: ids given out stay within the channel ids, a superseded timer is one of
\* the pty's.
THEOREM TypeCorrect == Spec => []TypeOK
<1>1. Init => Typed
  BY TypedAtStart
<1>2. Typed /\ [Next]_vars => Typed'
  BY TypedStep
<1>3. Typed => TypeOK
  BY DEF Typed
<1> QED BY <1>1, <1>2, <1>3, PTL DEF Spec

-----------------------------------------------------------------------------
(* The registry of machines.                                                 *)

\* The races that have happened stay so.
LEMMA RacedGrows ==
  ASSUME [Next]_vars
  PROVE  raced \subseteq raced' /\ (\A R : Unraced(R)' => Unraced(R))
<1>1. raced \subseteq raced'
  <2>1. CASE UNCHANGED vars
    BY <2>1 DEF vars
  <2>2. CASE DialFails \/ AgentRestarts \/ KillDevice \/ GatewayRestarts
    BY <2>2, Zenon DEF DialFails, AgentRestarts, KillDevice, GatewayRestarts, Disconnected, Note
  <2>3. ASSUME NEW c \in Conns,
               \/ Dial(c) \/ Connected(c) \/ AgentSeesClose(c) \/ Accept(c) \/ GatewaySeesClose(c)
               \/ GatewayGraceFires(c)
        PROVE  raced \subseteq raced'
    BY <2>3, Zenon DEF Dial, Connected, AgentSeesClose, Accept, GatewaySeesClose, GatewayGraceFires, Disconnected, Note
  <2>4. ASSUME NEW c \in Conns,
               \/ RecvHello(c) \/ RecvOpened(c) \/ RecvOpenedAndExit(c) \/ RecvError(c) \/ RecvExit(c)
        PROVE  raced \subseteq raced'
    BY <2>4, Zenon DEF RecvHello, RecvOpened, RecvOpenedAndExit, RecvError, RecvExit, Note
  <2>5. ASSUME NEW c \in Conns,
               \/ RecvOpenHeld(c) \/ RecvOpenRefused(c) \/ RecvClose(c) \/ RecvKill(c)
               \/ \E p \in Ptys : RecvOpenNew(c, p)
        PROVE  raced \subseteq raced'
    BY <2>5, Zenon DEF RecvOpenHeld, RecvOpenRefused, RecvClose, RecvKill, RecvOpenNew, Note
  <2>6. ASSUME NEW s \in Shells, OpenShell(s) \/ OpenTimesOut(s) \/ EndShell(s)
        PROVE  raced \subseteq raced'
    BY <2>6 DEF OpenShell, OpenTimesOut, EndShell, Note
  <2>7. ASSUME NEW p \in Ptys, Spawned(p) \/ SpawnFails(p) \/ PtyExits(p) \/ AgentGraceFires(p)
        PROVE  raced \subseteq raced'
    BY <2>7 DEF Spawned, SpawnFails, PtyExits, AgentGraceFires, Note
  <2> QED BY <2>1, <2>2, <2>3, <2>4, <2>5, <2>6, <2>7 DEF Next
<1> QED BY <1>1 DEF Unraced

\* A device that has a connection, or waits for one, is the one on the list.
Registered ==
  /\ \A d \in Conns : device[d].grace => device[d].socket = 0
  /\ Unraced({"kill"}) => \A d \in Conns : device[d].socket # 0 \/ device[d].grace => devices = d

SameRegistry ==
  /\ devices' = devices
  /\ \A d \in Conns : device'[d].socket = device[d].socket /\ device'[d].grace = device[d].grace

\* What most steps leave of the registry.
LEMMA RegistryKept ==
  ASSUME Registered, SameRegistry, Unraced({"kill"})' => Unraced({"kill"})
  PROVE  Registered'
BY DEF Registered, SameRegistry

LEMMA RegisteredStep ==
  ASSUME Typed, Registered, [Next]_vars
  PROVE  Registered'
<1>0. Unraced({"kill"})' => Unraced({"kill"})
  BY RacedGrows
<1>1. ASSUME UNCHANGED <<devices, device>>
      PROVE  Registered'
  BY <1>0, <1>1, RegistryKept DEF SameRegistry
<1>2. CASE UNCHANGED vars \/ DialFails \/ AgentRestarts
  BY <1>1, <1>2, Zenon DEF vars, DialFails, AgentRestarts
<1>3. CASE KillDevice
  <2>1. "kill" \in raced' /\ UNCHANGED device
    BY <1>3, KillDeviceEffect, Zenon DEF KillDevice
  <2> QED BY <2>1 DEF Registered, Unraced
<1>4. CASE GatewayRestarts
  BY <1>4, GatewayRestartsFields DEF Registered
<1>5. ASSUME NEW c \in Conns, Accept(c)
      PROVE  Registered'
  <2>1. /\ devices' = (IF devices = 0 THEN c ELSE devices)
        /\ \A e \in Conns :
              /\ device'[e].socket = (IF e = devices' /\ devices = 0 THEN c ELSE IF e = devices' /\ devices # 0 THEN c ELSE device[e].socket)
              /\ device'[e].grace = (IF e = devices' /\ devices = 0 THEN FALSE ELSE IF e = devices' /\ devices # 0 THEN FALSE ELSE device[e].grace)
    BY <1>5, AcceptFields
  <2>2. devices' # 0
    BY <2>1, ConnNotZero
  <2>3. \A e \in Conns :
          /\ e = devices' => device'[e].socket = c /\ device'[e].grace = FALSE
          /\ e # devices' => device'[e].socket = device[e].socket /\ device'[e].grace = device[e].grace
    BY <2>1
  <2>4. ASSUME NEW e \in Conns
        PROVE  device'[e].grace => device'[e].socket = 0
    BY <2>3 DEF Registered
  <2>5. ASSUME NEW e \in Conns, Unraced({"kill"})', device'[e].socket # 0 \/ device'[e].grace
        PROVE  devices' = e
    <3>1. CASE e # devices'
      <4>1. devices = e
        BY <1>0, <2>3, <2>5, <3>1 DEF Registered
      <4> QED BY <2>1, <3>1, <4>1, ConnNotZero
    <3> QED BY <3>1
  <2> QED BY <2>4, <2>5 DEF Registered
<1>6. ASSUME NEW c \in Conns, GatewaySeesClose(c)
      PROVE  Registered'
  <2>1. ASSUME ~Current(c)
        PROVE  Registered'
    <3>1. UNCHANGED <<devices, device>>
      BY <1>6, <2>1 DEF GatewaySeesClose
    <3> QED BY <1>1, <3>1
  <2>2. ASSUME Current(c)
        PROVE  Registered'
    <3> DEFINE d == conn[c].device
    <3>1. /\ d \in Conns
          /\ devices' = (IF Current(c) /\ Deserted(d) THEN 0 ELSE devices)
          /\ \A e \in Conns :
               /\ device'[e].socket = (IF Current(c) /\ e = d THEN 0 ELSE device[e].socket)
               /\ device'[e].hello = (IF Current(c) /\ e = d THEN 0 ELSE device[e].hello)
               /\ device'[e].next = device[e].next
               /\ device'[e].grace = (IF Current(c) /\ e = d THEN ~Deserted(d) ELSE device[e].grace)
      BY <1>6, GatewaySeesCloseFields, Zenon
    <3>2. device[d].socket # 0
      BY <2>2, ConnNotZero DEF Current
    <3> HIDE DEF d
    <3> QED BY <1>0, <2>2, <3>1, <3>2 DEF Registered
  <2> QED BY <2>1, <2>2
<1>7. ASSUME NEW d \in Conns, GatewayGraceFires(d)
      PROVE  Registered'
  <2>1. /\ device[d].grace /\ devices' = 0
        /\ \A e \in Conns :
             /\ device'[e].socket = device[e].socket
             /\ device'[e].grace = (IF e = d THEN FALSE ELSE device[e].grace)
    BY <1>7, GatewayGraceFiresFields DEF GatewayGraceFires
  <2> QED BY <1>0, <2>1 DEF Registered
<1>8. ASSUME NEW c \in Conns, RecvHello(c)
      PROVE  Registered'
  <2>1. SameRegistry
    BY <1>8, RecvHelloFields DEF SameRegistry
  <2> QED BY <1>0, <2>1, RegistryKept
<1>9. ASSUME NEW s \in Shells, OpenShell(s)
      PROVE  Registered'
  <2>1. \A e \in Conns :
          /\ device'[e].socket = device[e].socket
          /\ device'[e].hello = device[e].hello
          /\ device'[e].next = (IF e = devices THEN device[e].next + 1 ELSE device[e].next)
          /\ device'[e].grace = device[e].grace
    BY <1>9, OpenShellFields, Zenon
  <2>2. UNCHANGED devices
    BY <1>9 DEF OpenShell
  <2> QED BY <1>0, <2>1, <2>2, RegistryKept DEF SameRegistry
<1>10. ASSUME NEW s \in Shells, OpenTimesOut(s) \/ EndShell(s)
       PROVE  Registered'
  BY <1>1, <1>10 DEF OpenTimesOut, EndShell
<1>11. ASSUME NEW c \in Conns,
              \/ Dial(c) \/ Connected(c) \/ AgentSeesClose(c)
              \/ RecvOpened(c) \/ RecvOpenedAndExit(c) \/ RecvError(c) \/ RecvExit(c)
       PROVE  Registered'
  BY <1>1, <1>11, ZenonT(40) DEF Dial, Connected, AgentSeesClose, RecvOpened, RecvOpenedAndExit, RecvError, RecvExit
<1>12. ASSUME NEW c \in Conns,
              \/ RecvOpenHeld(c) \/ RecvOpenRefused(c) \/ RecvClose(c) \/ RecvKill(c)
              \/ \E p \in Ptys : RecvOpenNew(c, p)
       PROVE  Registered'
  BY <1>1, <1>12 DEF RecvOpenHeld, RecvOpenRefused, RecvClose, RecvKill, RecvOpenNew
<1>13. ASSUME NEW p \in Ptys, Spawned(p) \/ SpawnFails(p) \/ PtyExits(p) \/ AgentGraceFires(p)
       PROVE  Registered'
  BY <1>1, <1>13 DEF Spawned, SpawnFails, PtyExits, AgentGraceFires
<1> QED
  BY <1>2, <1>3, <1>4, <1>5, <1>6, <1>7, <1>8, <1>9, <1>10, <1>11, <1>12, <1>13 DEF Next

\* Unless a disconnect of the API has let go of a device that still has its
\* socket or its timer, the gateway can always find the machine whose
\* connection it uses (registry.ts getOrCreateDevice, detach, expireGrace).
THEOREM ConnectedIsListedHolds == Spec => []ConnectedIsListed
<1>1. Init => Typed /\ Registered
  <2>1. Init => Typed
    BY TypedAtStart
  <2>2. Init => Registered
    BY DEF Init, Registered, FreshDevice
  <2> QED BY <2>1, <2>2
<1>2. Typed /\ Registered /\ [Next]_vars => (Typed /\ Registered)'
  BY TypedStep, RegisteredStep
<1>3. Typed /\ Registered => ConnectedIsListed
  BY ConnNotZero DEF Typed, Placed, Registered, ConnectedIsListed, Current
<1> QED BY <1>1, <1>2, <1>3, PTL DEF Spec

-----------------------------------------------------------------------------
(* Connections and their ends.                                               *)

\* The agent has one connection at a time; what is on its way to an end that
\* is closed, or not there yet, is gone.
Ends ==
  \A c \in Conns :
    /\ conn[c].agent \in {"dialing", "open", "closing"} <=> c = tunnel
    /\ conn[c].agent = "unused" => conn[c].gateway = "none"
    /\ conn[c].agent = "dialing" => conn[c].toGateway = <<>>
    /\ conn[c].agent = "closed" => conn[c].toAgent = <<>>
    /\ conn[c].gateway = "closed" => conn[c].toGateway = <<>>
    /\ conn[c].gateway = "none" =>
         /\ conn[c].agent \in {"unused", "dialing"} /\ conn[c].device = 0
         /\ conn[c].toAgent = <<>> /\ conn[c].toGateway = <<>>

\* A device is named for a connection that was accepted; its socket is the
\* connection it was last given, and one still open is some device's socket.
Sockets ==
  /\ \A c \in Conns : conn[c].gateway = "open" => device[conn[c].device].socket = c
  /\ \A c \in Conns : conn[c].device # 0 => conn[conn[c].device].gateway # "none"
  /\ \A d \in Conns : device[d].socket # 0 =>
       conn[device[d].socket].device = d /\ conn[device[d].socket].gateway \in {"open", "closing"}
  /\ \A d \in Conns : conn[d].gateway = "none" => device[d] = FreshDevice(0)
  /\ devices # 0 => conn[devices].gateway # "none"

Wired == Ends /\ Sockets

\* What a step does to an end that does not listen.
Unheard ==
  \A x \in Conns :
    /\ conn[x].agent = "closed" \/ conn[x].gateway = "none" =>
         (conn[x].toAgent = <<>> => conn'[x].toAgent = <<>>)
    /\ conn[x].agent = "dialing" \/ conn[x].gateway \in {"none", "closed"} =>
         (conn[x].toGateway = <<>> => conn'[x].toGateway = <<>>)

SameEnds ==
  /\ tunnel' = tunnel
  /\ \A x \in Conns :
       conn'[x].agent = conn[x].agent /\ conn'[x].gateway = conn[x].gateway /\ conn'[x].device = conn[x].device

SameSockets ==
  /\ devices' = devices
  /\ \A d \in Conns : device'[d].socket = device[d].socket
  /\ \A d \in Conns : conn[d].gateway = "none" => device'[d] = device[d]

LEMMA EndsKept ==
  ASSUME Ends, SameEnds, Unheard
  PROVE  Ends'
<1> SUFFICES ASSUME NEW c \in Conns
             PROVE  /\ conn'[c].agent \in {"dialing", "open", "closing"} <=> c = tunnel'
                    /\ conn'[c].agent = "unused" => conn'[c].gateway = "none"
                    /\ conn'[c].agent = "dialing" => conn'[c].toGateway = <<>>
                    /\ conn'[c].agent = "closed" => conn'[c].toAgent = <<>>
                    /\ conn'[c].gateway = "closed" => conn'[c].toGateway = <<>>
                    /\ conn'[c].gateway = "none" =>
                         /\ conn'[c].agent \in {"unused", "dialing"} /\ conn'[c].device = 0
                         /\ conn'[c].toAgent = <<>> /\ conn'[c].toGateway = <<>>
  BY DEF Ends
<1> QED BY DEF Ends, SameEnds, Unheard

LEMMA NamesKept ==
  ASSUME Typed, Sockets,
         \A x \in Conns : /\ conn'[x].device = conn[x].device
                          /\ conn[x].gateway # "none" => conn'[x].gateway # "none"
  PROVE  \A x \in Conns : conn'[x].device # 0 => conn'[conn'[x].device].gateway # "none"
<1> SUFFICES ASSUME NEW x \in Conns, conn'[x].device # 0
             PROVE  conn'[conn'[x].device].gateway # "none"
  OBVIOUS
<1>1. conn[x].device \in Conns
  BY TypesOf DEF Typed, ConnTable, Connection
<1> QED BY <1>1 DEF Sockets

LEMMA SocketsKept ==
  ASSUME Typed, Sockets, SameSockets,
         \A x \in Conns : conn'[x].gateway = conn[x].gateway /\ conn'[x].device = conn[x].device
  PROVE  Sockets'
<1>0. /\ conn \in ConnTable /\ devices \in Conns \cup {0} /\ device \in [Conns -> Device]
  BY TypesOf DEF Typed
<1>1. \A c \in Conns : conn'[c].gateway = "open" => device'[conn'[c].device].socket = c
  BY <1>0 DEF Sockets, SameSockets, Typed, Placed
<1>2. \A c \in Conns : conn'[c].device # 0 => conn'[conn'[c].device].gateway # "none"
  BY <1>0 DEF Sockets, ConnTable, Connection
<1>3. \A d \in Conns : device'[d].socket # 0 =>
        conn'[device'[d].socket].device = d /\ conn'[device'[d].socket].gateway \in {"open", "closing"}
  BY <1>0 DEF Sockets, SameSockets, Device
<1>4. \A d \in Conns : conn'[d].gateway = "none" => device'[d] = FreshDevice(0)
  BY DEF Sockets, SameSockets
<1>5. devices' # 0 => conn'[devices'].gateway # "none"
  BY <1>0 DEF Sockets, SameSockets
<1> QED BY <1>1, <1>2, <1>3, <1>4, <1>5 DEF Sockets

LEMMA SocketsUnchanged ==
  ASSUME UNCHANGED <<devices, device>>
  PROVE  SameSockets
BY DEF SameSockets

\* The steps that neither make nor end a connection.
Quiet ==
  \/ \E c \in Conns : \/ RecvHello(c) \/ RecvOpened(c) \/ RecvOpenedAndExit(c) \/ RecvError(c)
                      \/ RecvExit(c) \/ RecvOpenHeld(c) \/ RecvOpenRefused(c) \/ RecvClose(c)
                      \/ GatewayGraceFires(c) \/ \E p \in Ptys : RecvOpenNew(c, p)
  \/ \E s \in Shells : OpenShell(s) \/ OpenTimesOut(s) \/ EndShell(s)
  \/ \E p \in Ptys : Spawned(p) \/ SpawnFails(p) \/ PtyExits(p) \/ AgentGraceFires(p)

LEMMA QuietEnds ==
  ASSUME Typed, Ends, Quiet
  PROVE  SameEnds /\ Unheard
<1>1. ASSUME NEW c \in Conns, RecvHello(c)
      PROVE  SameEnds /\ Unheard
  <2>1. /\ conn[c].toGateway # <<>>
        /\ \E ids \in InOrder(ListedIds(conn[c].device)) :
             \A x \in Conns :
               /\ conn'[x].agent = conn[x].agent /\ conn'[x].gateway = conn[x].gateway
               /\ conn'[x].device = conn[x].device
               /\ conn'[x].toGateway = IF x = c THEN Tail(conn[x].toGateway) ELSE conn[x].toGateway
               /\ conn'[x].toAgent =
                    IF x = device[conn[c].device].socket /\ conn[x].gateway = "open" /\ conn[x].agent # "closed"
                    THEN conn[x].toAgent \o ResumeFrames(conn[c].device, ids) ELSE conn[x].toAgent
    BY <1>1, RecvHelloEffect, Zenon
  <2>2. UNCHANGED tunnel
    BY <1>1 DEF RecvHello
  <2> QED BY <2>1, <2>2 DEF SameEnds, Unheard
<1>2. ASSUME NEW c \in Conns, RecvOpened(c)
      PROVE  SameEnds /\ Unheard
  <2>1. /\ conn[c].toGateway # <<>> /\ UNCHANGED tunnel
        /\ \A x \in Conns :
             /\ conn'[x].agent = conn[x].agent
             /\ conn'[x].gateway = conn[x].gateway
             /\ conn'[x].device = conn[x].device
             /\ conn'[x].toAgent = conn[x].toAgent
             /\ conn'[x].toGateway = (IF x = c THEN Tail(conn[x].toGateway) ELSE conn[x].toGateway)
    BY <1>2, RecvOpenedFields
  <2> QED BY <2>1 DEF SameEnds, Unheard
<1>3. ASSUME NEW c \in Conns, RecvOpenedAndExit(c)
      PROVE  SameEnds /\ Unheard
  <2>1. /\ conn[c].toGateway # <<>> /\ UNCHANGED tunnel
        /\ \A x \in Conns :
             /\ conn'[x].agent = conn[x].agent
             /\ conn'[x].gateway = conn[x].gateway
             /\ conn'[x].device = conn[x].device
             /\ conn'[x].toAgent = conn[x].toAgent
             /\ conn'[x].toGateway = (IF x = c THEN Tail(Tail(conn[c].toGateway)) ELSE conn[x].toGateway)
    BY <1>3, RecvOpenedAndExitFields
  <2> QED BY <2>1 DEF SameEnds, Unheard
<1>4. ASSUME NEW c \in Conns, RecvError(c)
      PROVE  SameEnds /\ Unheard
  <2>1. /\ conn[c].toGateway # <<>> /\ UNCHANGED tunnel
        /\ \A x \in Conns :
             /\ conn'[x].agent = conn[x].agent
             /\ conn'[x].gateway = conn[x].gateway
             /\ conn'[x].device = conn[x].device
             /\ conn'[x].toAgent = conn[x].toAgent
             /\ conn'[x].toGateway = (IF x = c THEN Tail(conn[x].toGateway) ELSE conn[x].toGateway)
    BY <1>4, RecvErrorFields
  <2> QED BY <2>1 DEF SameEnds, Unheard
<1>5. ASSUME NEW c \in Conns, RecvExit(c)
      PROVE  SameEnds /\ Unheard
  <2>1. /\ conn[c].toGateway # <<>> /\ UNCHANGED tunnel
        /\ \A x \in Conns :
             /\ conn'[x].agent = conn[x].agent
             /\ conn'[x].gateway = conn[x].gateway
             /\ conn'[x].device = conn[x].device
             /\ conn'[x].toAgent = conn[x].toAgent
             /\ conn'[x].toGateway = (IF x = c THEN Tail(conn[x].toGateway) ELSE conn[x].toGateway)
    BY <1>5, RecvExitFields
  <2> QED BY <2>1 DEF SameEnds, Unheard
<1>6. ASSUME NEW c \in Conns, RecvOpenHeld(c)
      PROVE  SameEnds /\ Unheard
  <2>1. /\ conn[c].toAgent # <<>> /\ UNCHANGED tunnel
        /\ \A x \in Conns :
             /\ conn'[x].agent = conn[x].agent /\ conn'[x].gateway = conn[x].gateway
             /\ conn'[x].device = conn[x].device
             /\ x # c => conn'[x].toAgent = conn[x].toAgent
             /\ conn[x].agent # "open" \/ conn[x].gateway = "closed" => conn'[x].toGateway = conn[x].toGateway
    BY <1>6, RecvOpenHeldEffect, Zenon DEF RecvOpenHeld
  <2> QED BY <2>1 DEF SameEnds, Unheard, Ends
<1>7. ASSUME NEW c \in Conns, RecvOpenRefused(c)
      PROVE  SameEnds /\ Unheard
  <2>1. /\ conn[c].toAgent # <<>> /\ UNCHANGED tunnel
        /\ \A x \in Conns :
             /\ conn'[x].agent = conn[x].agent /\ conn'[x].gateway = conn[x].gateway
             /\ conn'[x].device = conn[x].device
             /\ x # c => conn'[x].toAgent = conn[x].toAgent
             /\ conn[x].agent # "open" \/ conn[x].gateway = "closed" => conn'[x].toGateway = conn[x].toGateway
    BY <1>7, RecvOpenRefusedEffect, Zenon DEF RecvOpenRefused
  <2> QED BY <2>1 DEF SameEnds, Unheard, Ends
<1>8. ASSUME NEW c \in Conns, RecvClose(c)
      PROVE  SameEnds /\ Unheard
  <2>1. /\ conn[c].toAgent # <<>> /\ UNCHANGED tunnel
        /\ \A x \in Conns :
             /\ conn'[x].agent = conn[x].agent
             /\ conn'[x].gateway = conn[x].gateway
             /\ conn'[x].device = conn[x].device
             /\ conn'[x].toAgent = (IF x = c THEN Tail(conn[x].toAgent) ELSE conn[x].toAgent)
             /\ conn'[x].toGateway = conn[x].toGateway
    BY <1>8, RecvCloseFields
  <2> QED BY <2>1 DEF SameEnds, Unheard
<1>9. ASSUME NEW c \in Conns, NEW p \in Ptys, RecvOpenNew(c, p)
      PROVE  SameEnds /\ Unheard
  <2>1. /\ conn[c].toAgent # <<>>
        /\ \A x \in Conns :
             /\ conn'[x].agent = conn[x].agent
             /\ conn'[x].gateway = conn[x].gateway
             /\ conn'[x].device = conn[x].device
             /\ conn'[x].toAgent = (IF x = c THEN Tail(conn[x].toAgent) ELSE conn[x].toAgent)
             /\ conn'[x].toGateway = conn[x].toGateway
    BY <1>9, RecvOpenNewFields, Zenon
  <2>2. UNCHANGED tunnel
    BY <1>9 DEF RecvOpenNew
  <2> QED BY <2>1, <2>2 DEF SameEnds, Unheard
<1>10. ASSUME NEW c \in Conns, GatewayGraceFires(c)
       PROVE  SameEnds /\ Unheard
  BY <1>10 DEF SameEnds, Unheard, GatewayGraceFires
<1>11. ASSUME NEW s \in Shells, OpenShell(s)
       PROVE  SameEnds /\ Unheard
  <2>1. \A x \in Conns :
          /\ conn'[x].agent = conn[x].agent
          /\ conn'[x].gateway = conn[x].gateway
          /\ conn'[x].device = conn[x].device
          /\ conn'[x].toAgent = (IF x = device[devices].socket /\ conn[x].gateway = "open" /\ conn[x].agent # "closed" THEN Append(conn[x].toAgent, Frame("open", device[devices].next, s)) ELSE conn[x].toAgent)
          /\ conn'[x].toGateway = conn[x].toGateway
    BY <1>11, OpenShellFields, Zenon
  <2>2. UNCHANGED tunnel
    BY <1>11 DEF OpenShell
  <2> QED BY <2>1, <2>2 DEF SameEnds, Unheard
<1>12. ASSUME NEW s \in Shells, EndShell(s)
       PROVE  SameEnds /\ Unheard
  <2>1. \A x \in Conns :
          /\ conn'[x].agent = conn[x].agent
          /\ conn'[x].gateway = conn[x].gateway
          /\ conn'[x].device = conn[x].device
          /\ conn'[x].toAgent = (IF shell[s].listed /\ x = device[shell[s].device].socket /\ conn[x].gateway = "open" /\ conn[x].agent # "closed" THEN Append(conn[x].toAgent, Frame("close", shell[s].ch, s)) ELSE conn[x].toAgent)
          /\ conn'[x].toGateway = conn[x].toGateway
    BY <1>12, EndShellFields, Zenon
  <2>2. UNCHANGED tunnel
    BY <1>12 DEF EndShell
  <2> QED BY <2>1, <2>2 DEF SameEnds, Unheard
<1>13. ASSUME NEW s \in Shells, OpenTimesOut(s)
       PROVE  SameEnds /\ Unheard
  BY <1>13 DEF SameEnds, Unheard, OpenTimesOut
<1>14. ASSUME NEW p \in Ptys, AgentGraceFires(p)
       PROVE  SameEnds /\ Unheard
  BY <1>14 DEF SameEnds, Unheard, AgentGraceFires
<1>15. ASSUME NEW p \in Ptys, Spawned(p)
       PROVE  SameEnds /\ Unheard
  <2>1. \A x \in Conns :
          /\ conn'[x].agent = conn[x].agent
          /\ conn'[x].gateway = conn[x].gateway
          /\ conn'[x].device = conn[x].device
          /\ conn'[x].toAgent = conn[x].toAgent
          /\ conn'[x].toGateway = (IF x = tunnel /\ conn[x].agent = "open" /\ conn[x].gateway # "closed" THEN Append(conn[x].toGateway, Frame("opened", pty[p].ch, pty[p].owner)) ELSE conn[x].toGateway)
    BY <1>15, SpawnedFields, Zenon
  <2>2. UNCHANGED tunnel
    BY <1>15 DEF Spawned
  <2> QED BY <2>1, <2>2 DEF SameEnds, Unheard, Ends
<1>16. ASSUME NEW p \in Ptys, SpawnFails(p)
       PROVE  SameEnds /\ Unheard
  <2>1. \A x \in Conns :
          /\ conn'[x].agent = conn[x].agent
          /\ conn'[x].gateway = conn[x].gateway
          /\ conn'[x].device = conn[x].device
          /\ conn'[x].toAgent = conn[x].toAgent
          /\ conn'[x].toGateway = (IF x = tunnel /\ conn[x].agent = "open" /\ conn[x].gateway # "closed" THEN Append(conn[x].toGateway, Frame("error", pty[p].ch, pty[p].owner)) ELSE conn[x].toGateway)
    BY <1>16, SpawnFailsFields, Zenon
  <2>2. UNCHANGED tunnel
    BY <1>16 DEF SpawnFails
  <2> QED BY <2>1, <2>2 DEF SameEnds, Unheard, Ends
<1>17. ASSUME NEW p \in Ptys, PtyExits(p)
       PROVE  SameEnds /\ Unheard
  <2>1. \A x \in Conns :
          /\ conn'[x].agent = conn[x].agent
          /\ conn'[x].gateway = conn[x].gateway
          /\ conn'[x].device = conn[x].device
          /\ conn'[x].toAgent = conn[x].toAgent
          /\ conn'[x].toGateway = (IF pty[p].attached /\ x = tunnel /\ conn[x].agent = "open" /\ conn[x].gateway # "closed" THEN Append(conn[x].toGateway, Frame("exit", pty[p].ch, pty[p].bound)) ELSE conn[x].toGateway)
    BY <1>17, PtyExitsFields, Zenon
  <2>2. UNCHANGED tunnel
    BY <1>17 DEF PtyExits
  <2> QED BY <2>1, <2>2 DEF SameEnds, Unheard, Ends
<1> QED
  BY <1>1, <1>2, <1>3, <1>4, <1>5, <1>6, <1>7, <1>8, <1>9, <1>10, <1>11, <1>12, <1>13, <1>14, <1>15, <1>16, <1>17 DEF Quiet

LEMMA QuietSockets ==
  ASSUME Typed, Sockets, Quiet,
         \A c \in Conns : ~GatewayGraceFires(c)
  PROVE  SameSockets
<1>1. ASSUME UNCHANGED <<devices, device>>
      PROVE  SameSockets
  BY <1>1, SocketsUnchanged
<1>2. ASSUME NEW c \in Conns, RecvHello(c)
      PROVE  SameSockets
  <2>1. /\ conn[c].device \in Conns
        /\ \A e \in Conns : device'[e] = IF e = conn[c].device THEN [device[e] EXCEPT !.hello = c] ELSE device[e]
    BY <1>2, RecvHelloEffect, Zenon
  <2>2. /\ \A e \in Conns : device'[e].socket = device[e].socket
        /\ UNCHANGED devices
    BY <1>2, RecvHelloFields DEF RecvHello
  <2>3. conn[conn[c].device].gateway # "none"
    BY <2>1, ConnNotZero DEF Sockets
  <2> QED BY <2>1, <2>2, <2>3 DEF SameSockets
<1>3. ASSUME NEW s \in Shells, OpenShell(s)
      PROVE  SameSockets
  <2>1. device' = [device EXCEPT ![devices].next = device[devices].next + 1] /\ UNCHANGED devices /\ devices # 0
    BY <1>3 DEF OpenShell
  <2>2. devices \in Conns /\ device \in [Conns -> Device]
    BY <2>1, TypesOf DEF Typed
  <2>3. \A e \in Conns : e # devices => device'[e] = device[e]
    BY <2>1, <2>2
  <2>4. device'[devices].socket = device[devices].socket
    BY <2>1, <2>2 DEF Device
  <2> QED BY <2>1, <2>3, <2>4 DEF SameSockets, Sockets
<1>4. ASSUME NEW s \in Shells, OpenTimesOut(s) \/ EndShell(s)
      PROVE  SameSockets
  BY <1>1, <1>4 DEF OpenTimesOut, EndShell
<1>5. ASSUME NEW c \in Conns,
             \/ RecvOpened(c) \/ RecvOpenedAndExit(c) \/ RecvError(c) \/ RecvExit(c)
             \/ RecvOpenHeld(c) \/ RecvOpenRefused(c) \/ RecvClose(c) \/ \E p \in Ptys : RecvOpenNew(c, p)
      PROVE  SameSockets
  BY <1>1, <1>5, Zenon DEF RecvOpened, RecvOpenedAndExit, RecvError, RecvExit, RecvOpenHeld, RecvOpenRefused, RecvClose, RecvOpenNew
<1>6. ASSUME NEW p \in Ptys, Spawned(p) \/ SpawnFails(p) \/ PtyExits(p) \/ AgentGraceFires(p)
      PROVE  SameSockets
  BY <1>1, <1>6 DEF Spawned, SpawnFails, PtyExits, AgentGraceFires
<1> QED
  BY <1>2, <1>3, <1>4, <1>5, <1>6 DEF Quiet

LEMMA WiredStep ==
  ASSUME Typed, Typed', Wired, [Next]_vars
  PROVE  Wired'
<1>0. /\ conn \in ConnTable /\ tunnel \in Conns \cup {0} /\ devices \in Conns \cup {0}
      /\ device \in [Conns -> Device]
  BY TypesOf DEF Typed
<1>a. Ends /\ Sockets
  BY DEF Wired
<1>1. CASE UNCHANGED vars
  <2>1. SameEnds /\ Unheard /\ SameSockets
    BY <1>1 DEF vars, SameEnds, Unheard, SameSockets
  <2> QED BY <1>a, <2>1, EndsKept, SocketsKept DEF Wired, SameEnds
<1>2. CASE Quiet /\ \A c \in Conns : ~GatewayGraceFires(c)
  BY <1>a, <1>2, QuietEnds, QuietSockets, EndsKept, SocketsKept DEF Wired, SameEnds
<1>3. ASSUME NEW d \in Conns, GatewayGraceFires(d)
      PROVE  Wired'
  <2>1. SameEnds /\ Unheard
    BY <1>3 DEF SameEnds, Unheard, GatewayGraceFires
  <2>2. Ends'
    BY <1>a, <2>1, EndsKept
  <2>3. /\ device[d].grace /\ devices' = 0 /\ UNCHANGED conn
        /\ device' = [device EXCEPT ![d].grace = FALSE]
    BY <1>3 DEF GatewayGraceFires
  <2>4. \A e \in Conns : device'[e].socket = device[e].socket /\ (e # d => device'[e] = device[e])
    BY <1>0, <2>3 DEF Device
  <2>5. conn[d].gateway # "none"
    BY <1>a, <2>3 DEF Sockets, FreshDevice
  <2>6. \A c \in Conns : conn[c].gateway # "none" => conn[c].device \in Conns
    BY DEF Typed, Placed
  <2>7. Sockets'
    BY <1>a, <2>3, <2>4, <2>5, <2>6 DEF Sockets
  <2> QED BY <2>2, <2>7 DEF Wired
<1>4. ASSUME NEW c \in Conns, Dial(c)
      PROVE  Wired'
  <2>1. /\ tunnel = 0 /\ tunnel' = c /\ conn[c].agent = "unused"
        /\ UNCHANGED <<devices, device>>
    BY <1>4 DEF Dial
  <2>2. \A x \in Conns :
          /\ conn'[x].agent = (IF x = c THEN "dialing" ELSE conn[x].agent)
          /\ conn'[x].gateway = conn[x].gateway
          /\ conn'[x].device = conn[x].device
          /\ conn'[x].toAgent = conn[x].toAgent
          /\ conn'[x].toGateway = conn[x].toGateway
    BY <1>4, DialFields, Zenon
  <2>3. Ends'
    BY <1>a, <2>1, <2>2, ConnNotZero DEF Ends
  <2>4. Sockets'
    BY <1>a, <2>1, <2>2, SocketsUnchanged, SocketsKept
  <2> QED BY <2>3, <2>4 DEF Wired
<1>5. CASE DialFails
  <2>1. /\ tunnel \in Conns /\ tunnel' = 0 /\ conn[tunnel].gateway = "none"
        /\ UNCHANGED <<devices, device>>
    BY <1>5, DialFailsFields DEF DialFails
  <2>2. \A x \in Conns :
          /\ conn'[x].agent = (IF x = tunnel THEN "unused" ELSE conn[x].agent)
          /\ conn'[x].gateway = (IF x = tunnel THEN "none" ELSE conn[x].gateway)
          /\ conn'[x].device = (IF x = tunnel THEN 0 ELSE conn[x].device)
          /\ conn'[x].toAgent = (IF x = tunnel THEN <<>> ELSE conn[x].toAgent)
          /\ conn'[x].toGateway = (IF x = tunnel THEN <<>> ELSE conn[x].toGateway)
    BY <1>5, DialFailsFields, Zenon
  <2>3. Ends'
    BY <1>a, <2>1, <2>2, ConnNotZero DEF Ends
  <2>4. \A x \in Conns : conn'[x].gateway = conn[x].gateway /\ conn'[x].device = conn[x].device
    BY <1>a, <2>1, <2>2 DEF Ends
  <2>5. Sockets'
    BY <1>0, <1>a, <2>1, <2>4 DEF Sockets, ConnTable, Connection, Device
  <2> QED BY <2>3, <2>5 DEF Wired
<1>6. ASSUME NEW c \in Conns, Connected(c)
      PROVE  Wired'
  <2>1. /\ conn[c].agent = "dialing" /\ conn[c].gateway # "none"
        /\ UNCHANGED <<tunnel, devices, device>>
    BY <1>6 DEF Connected
  <2>2. \A x \in Conns :
          /\ conn'[x].agent = (IF x = c THEN "open" ELSE conn[x].agent)
          /\ conn'[x].gateway = conn[x].gateway
          /\ conn'[x].device = conn[x].device
          /\ conn'[x].toAgent = conn[x].toAgent
          /\ conn'[x].toGateway = (IF x = c THEN IF conn[x].gateway = "closed" THEN conn[x].toGateway ELSE Append(conn[x].toGateway, Frame("hello", 0, NoShell)) ELSE conn[x].toGateway)
    BY <1>6, ConnectedFields, Zenon
  <2>3. Ends'
    BY <1>a, <2>1, <2>2 DEF Ends
  <2>4. Sockets'
    BY <1>0, <1>a, <2>1, <2>2 DEF Sockets, ConnTable, Connection, Device
  <2> QED BY <2>3, <2>4 DEF Wired
<1>7. ASSUME NEW c \in Conns, AgentSeesClose(c)
      PROVE  Wired'
  <2>1. /\ conn[c].agent \in {"dialing", "open", "closing"} /\ conn[c].gateway # "none"
        /\ tunnel' = 0 /\ UNCHANGED <<devices, device>>
    BY <1>7, AgentSeesCloseFields DEF AgentSeesClose
  <2>2. \A x \in Conns :
          /\ conn'[x].agent = (IF x = c THEN "closed" ELSE conn[x].agent)
          /\ conn'[x].gateway = conn[x].gateway
          /\ conn'[x].device = conn[x].device
          /\ conn'[x].toAgent = (IF x = c THEN <<>> ELSE conn[x].toAgent)
          /\ conn'[x].toGateway = conn[x].toGateway
    BY <1>7, AgentSeesCloseFields, Zenon
  <2>3. Ends'
    BY <1>a, <2>1, <2>2, ConnNotZero DEF Ends
  <2>4. Sockets'
    BY <1>0, <1>a, <2>1, <2>2 DEF Sockets, ConnTable, Connection, Device
  <2> QED BY <2>3, <2>4 DEF Wired
<1>8. CASE AgentRestarts
  <2>1. /\ tunnel # 0 => conn[tunnel].gateway # "none"
        /\ tunnel' = 0 /\ UNCHANGED <<devices, device>>
    BY <1>8, Zenon DEF AgentRestarts
  <2>2. \A x \in Conns :
          /\ conn'[x].agent = (IF x = tunnel THEN "closed" ELSE conn[x].agent)
          /\ conn'[x].gateway = conn[x].gateway
          /\ conn'[x].device = conn[x].device
          /\ conn'[x].toAgent = (IF x = tunnel THEN <<>> ELSE conn[x].toAgent)
          /\ conn'[x].toGateway = conn[x].toGateway
    BY <1>8, AgentRestartsFields, Zenon
  <2>3. Ends'
    BY <1>a, <2>1, <2>2, ConnNotZero DEF Ends
  <2>4. Sockets'
    BY <1>0, <1>a, <2>1, <2>2 DEF Sockets, ConnTable, Connection, Device
  <2> QED BY <2>3, <2>4 DEF Wired
<1>9. ASSUME NEW c \in Conns, Accept(c)
      PROVE  Wired'
  <2>1. /\ conn[c].agent = "dialing" /\ conn[c].gateway = "none" /\ UNCHANGED tunnel
    BY <1>9 DEF Accept
  <2>2. /\ devices' = (IF devices = 0 THEN c ELSE devices)
        /\ \A x \in Conns :
              /\ conn'[x].agent = conn[x].agent
              /\ conn'[x].gateway = (IF x = c THEN "open" ELSE IF devices # 0 /\ x = device[devices].socket /\ conn[x].gateway = "open" THEN "closing" ELSE conn[x].gateway)
              /\ conn'[x].device = (IF x = c THEN IF devices = 0 THEN c ELSE devices ELSE conn[x].device)
              /\ conn'[x].toAgent = conn[x].toAgent
              /\ conn'[x].toGateway = conn[x].toGateway
    BY <1>9, AcceptFields, Zenon
  <2>3. \A e \in Conns :
          device'[e] = IF e # devices' THEN device[e]
                       ELSE IF devices = 0 THEN FreshDevice(c)
                       ELSE [device[e] EXCEPT !.socket = c, !.grace = FALSE]
    BY <1>9, AcceptEffect, Zenon
  <2>4. Ends'
    BY <1>0, <1>a, <2>1, <2>2 DEF Ends
  <2>5. devices' \in Conns /\ devices' # 0 /\ device'[devices'].socket = c
    <3>1. devices' \in Conns /\ devices' # 0
      BY <1>0, <2>2, ConnNotZero
    <3>2. CASE devices = 0
      BY <2>3, <3>1, <3>2 DEF FreshDevice
    <3>3. CASE devices # 0
      <4>1. device'[devices'] = [device[devices'] EXCEPT !.socket = c, !.grace = FALSE]
        BY <2>3, <3>1, <3>3, Zenon
      <4> QED BY <1>0, <3>1, <4>1 DEF Device
    <3> QED BY <3>1, <3>2, <3>3
  <2>6. \A e \in Conns : e # devices' => device'[e] = device[e]
    BY <2>3, Zenon
  <2>7. /\ conn'[c].gateway = "open" /\ conn'[c].device = devices'
        /\ \A x \in Conns : x # c => /\ conn'[x].device = conn[x].device
                                     /\ conn'[x].gateway # "none" <=> conn[x].gateway # "none"
                                     /\ conn'[x].gateway = "open" => conn[x].gateway = "open"
                                     /\ conn[x].gateway \in {"open", "closing"} => conn'[x].gateway \in {"open", "closing"}
    BY <2>2
  <2>8. \A x \in Conns : x # c /\ conn'[x].gateway = "open" => conn[x].device # devices'
    <3> SUFFICES ASSUME NEW x \in Conns, x # c, conn'[x].gateway = "open", conn[x].device = devices'
                 PROVE  FALSE
      OBVIOUS
    <3>1. conn[x].gateway = "open"
      BY <2>7
    <3>2. device[conn[x].device].socket = x
      BY <1>a, <3>1 DEF Sockets
    <3>3. CASE devices = 0
      <4>1. conn[c].gateway # "none"
        BY <1>a, <2>2, <2>5, <3>3 DEF Sockets
      <4> QED BY <2>1, <4>1
    <3>4. CASE devices # 0
      BY <2>2, <3>1, <3>2, <3>4
    <3> QED BY <3>3, <3>4
  <2>9. Sockets'
    <3>1. \A x \in Conns : conn'[x].gateway = "open" => device'[conn'[x].device].socket = x
      <4> SUFFICES ASSUME NEW x \in Conns, conn'[x].gateway = "open", x # c
                   PROVE  device'[conn'[x].device].socket = x
        BY <2>5, <2>7
      <4>1. conn'[x].device = conn[x].device /\ conn[x].gateway = "open"
        BY <2>7
      <4>2. conn[x].device \in Conns
        BY <4>1 DEF Typed, Placed
      <4> QED BY <1>a, <2>6, <2>8, <4>1, <4>2 DEF Sockets
    <3>2. \A x \in Conns : conn'[x].device # 0 => conn'[conn'[x].device].gateway # "none"
      <4> SUFFICES ASSUME NEW x \in Conns, x # c, conn[x].device # 0
                   PROVE  conn'[conn[x].device].gateway # "none"
        BY <2>2, <2>5, <2>7, <1>a DEF Sockets
      <4>1. conn[x].device \in Conns /\ conn[conn[x].device].gateway # "none"
        BY <1>0, <1>a DEF Sockets, ConnTable, Connection
      <4> QED BY <2>7, <4>1
    <3>3. \A d \in Conns : device'[d].socket # 0 =>
            conn'[device'[d].socket].device = d /\ conn'[device'[d].socket].gateway \in {"open", "closing"}
      <4> SUFFICES ASSUME NEW d \in Conns, d # devices', device'[d].socket # 0
                   PROVE  conn'[device'[d].socket].device = d /\ conn'[device'[d].socket].gateway \in {"open", "closing"}
        BY <2>5, <2>7
      <4>1. device'[d].socket = device[d].socket
        BY <2>6
      <4>2. device[d].socket \in Conns
        BY <1>0, <4>1 DEF Device
      <4>3. conn[device[d].socket].device = d /\ conn[device[d].socket].gateway \in {"open", "closing"}
        BY <1>a, <4>1 DEF Sockets
      <4> QED BY <2>1, <2>7, <4>1, <4>2, <4>3
    <3>4. \A d \in Conns : conn'[d].gateway = "none" => device'[d] = FreshDevice(0)
      BY <1>a, <2>1, <2>2, <2>6, <2>7 DEF Sockets
    <3>5. devices' # 0 => conn'[devices'].gateway # "none"
      BY <1>0, <1>a, <2>2, <2>7 DEF Sockets
    <3> QED BY <3>1, <3>2, <3>3, <3>4, <3>5 DEF Sockets
  <2> QED BY <2>4, <2>9 DEF Wired
<1>10. ASSUME NEW c \in Conns, GatewaySeesClose(c)
       PROVE  Wired'
  <2> DEFINE d == conn[c].device
  <2>1. conn[c].gateway \in {"open", "closing"} /\ UNCHANGED tunnel
    BY <1>10, Zenon DEF GatewaySeesClose
  <2>2. /\ d \in Conns
        /\ devices' = (IF Current(c) /\ Deserted(d) THEN 0 ELSE devices)
        /\ \A x \in Conns :
             /\ conn'[x].agent = conn[x].agent
             /\ conn'[x].gateway = (IF x = c THEN "closed" ELSE conn[x].gateway)
             /\ conn'[x].device = conn[x].device
             /\ conn'[x].toAgent = conn[x].toAgent
             /\ conn'[x].toGateway = (IF x = c THEN <<>> ELSE conn[x].toGateway)
        /\ \A e \in Conns :
             /\ device'[e].socket = (IF Current(c) /\ e = d THEN 0 ELSE device[e].socket)
             /\ device'[e].hello = (IF Current(c) /\ e = d THEN 0 ELSE device[e].hello)
             /\ device'[e].next = device[e].next
             /\ device'[e].grace = (IF Current(c) /\ e = d THEN ~Deserted(d) ELSE device[e].grace)
    BY <1>10, GatewaySeesCloseFields, Zenon
  <2>3. \A e \in Conns : e # d => device'[e] = device[e]
    <3>1. CASE Current(c)
      <4>1. \A e \in Conns : device'[e] =
              IF e = d THEN [device[e] EXCEPT !.socket = 0, !.hello = 0, !.grace = ~Deserted(d)] ELSE device[e]
        BY <1>10, <3>1, GatewaySeesCloseEffect, Zenon
      <4> QED BY <4>1, Zenon
    <3>2. CASE ~Current(c)
      BY <1>10, <3>2 DEF GatewaySeesClose
    <3> QED BY <3>1, <3>2
  <2>4. Ends'
    BY <1>a, <2>1, <2>2 DEF Ends
  <2>5. conn[d].gateway # "none"
    BY <1>a, <2>2, ConnNotZero DEF Sockets
  <2>6. Sockets'
    <3> HIDE DEF d
    <3>1. \A x \in Conns : conn'[x].gateway = "open" => device'[conn'[x].device].socket = x
      <4> SUFFICES ASSUME NEW x \in Conns, conn'[x].gateway = "open"
                   PROVE  device'[conn'[x].device].socket = x
        OBVIOUS
      <4>1. x # c /\ conn'[x].device = conn[x].device /\ conn[x].gateway = "open"
        BY <2>2
      <4>2. conn[x].device \in Conns /\ device[conn[x].device].socket = x
        BY <1>a, <4>1 DEF Typed, Placed, Sockets
      <4>3. Current(c) => device[d].socket = c
        BY DEF Current, d
      <4> QED BY <2>2, <4>1, <4>2, <4>3
    <3>2. \A x \in Conns : conn'[x].device # 0 => conn'[conn'[x].device].gateway # "none"
      BY <1>a, <2>2, NamesKept
    <3>3. \A e \in Conns : device'[e].socket # 0 =>
            conn'[device'[e].socket].device = e /\ conn'[device'[e].socket].gateway \in {"open", "closing"}
      <4> SUFFICES ASSUME NEW e \in Conns, device'[e].socket # 0
                   PROVE  conn'[device'[e].socket].device = e /\ conn'[device'[e].socket].gateway \in {"open", "closing"}
        OBVIOUS
      <4>1. device'[e].socket = device[e].socket /\ ~(Current(c) /\ e = d)
        BY <2>2
      <4>2. device[e].socket \in Conns
        BY <1>0, <4>1 DEF Device
      <4>3. conn[device[e].socket].device = e /\ conn[device[e].socket].gateway \in {"open", "closing"}
        BY <1>a, <4>1 DEF Sockets
      <4>4. device[e].socket # c
        BY <4>1, <4>3 DEF Current, d
      <4> QED BY <2>2, <4>1, <4>2, <4>3, <4>4
    <3>4. \A e \in Conns : conn'[e].gateway = "none" => device'[e] = FreshDevice(0)
      BY <1>a, <2>2, <2>3, <2>5 DEF Sockets
    <3>5. devices' # 0 => conn'[devices'].gateway # "none"
      BY <1>0, <1>a, <2>2 DEF Sockets
    <3> QED BY <3>1, <3>2, <3>3, <3>4, <3>5 DEF Sockets
  <2> QED BY <2>4, <2>6 DEF Wired
<1>11. CASE KillDevice
  <2>1. /\ \A x \in Conns :
             /\ conn'[x].agent = conn[x].agent /\ conn'[x].device = conn[x].device
             /\ conn'[x].toGateway = conn[x].toGateway
             /\ \/ conn'[x].toAgent = conn[x].toAgent /\ conn'[x].gateway = conn[x].gateway
                \/ /\ x = device[devices].socket /\ conn[x].gateway = "open"
                   /\ conn'[x].gateway = "closing"
                   /\ conn'[x].toAgent =
                        IF conn[x].agent = "closed" THEN conn[x].toAgent
                        ELSE Append(conn[x].toAgent, Frame("kill", 0, NoShell))
    BY <1>11, KillDeviceEffect, Zenon
  <2>2. devices' = 0 /\ UNCHANGED <<tunnel, device>>
    BY <1>11 DEF KillDevice
  <2>3. Ends'
    BY <1>a, <2>1, <2>2 DEF Ends
  <2>4. \A x \in Conns : /\ conn'[x].device = conn[x].device
                         /\ conn'[x].gateway # "none" <=> conn[x].gateway # "none"
                         /\ conn'[x].gateway = "open" => conn[x].gateway = "open"
                         /\ conn[x].gateway \in {"open", "closing"} => conn'[x].gateway \in {"open", "closing"}
    BY <2>1
  <2>5. Sockets'
    BY <1>0, <1>a, <2>2, <2>4 DEF Sockets, ConnTable, Connection, Device
  <2> QED BY <2>3, <2>5 DEF Wired
<1>12. CASE GatewayRestarts
  <2>1. /\ devices' = 0 /\ UNCHANGED tunnel
        /\ device' = [x \in Conns |-> FreshDevice(0)]
    BY <1>12, Zenon DEF GatewayRestarts
  <2>2. \A x \in Conns :
          /\ conn'[x].agent = conn[x].agent
          /\ conn'[x].gateway = (IF conn[x].gateway # "none" THEN "closed" ELSE conn[x].gateway)
          /\ conn'[x].device = conn[x].device
          /\ conn'[x].toAgent = conn[x].toAgent
          /\ conn'[x].toGateway = (IF conn[x].gateway # "none" THEN <<>> ELSE conn[x].toGateway)
    BY <1>12, GatewayRestartsFields, Zenon
  <2>3. Ends'
    BY <1>a, <2>1, <2>2 DEF Ends
  <2>4. Sockets'
    <3>1. \A x \in Conns : conn'[x].device # 0 => conn'[conn'[x].device].gateway # "none"
      BY <1>a, <2>2, NamesKept
    <3> QED BY <2>1, <2>2, <3>1 DEF Sockets, FreshDevice
  <2> QED BY <2>3, <2>4 DEF Wired
<1>13. ASSUME NEW c \in Conns, RecvKill(c)
       PROVE  Wired'
  <2>1. /\ conn[c].agent = "open" /\ UNCHANGED <<tunnel, devices, device>>
        /\ conn[c].toAgent # <<>>
    BY <1>13 DEF RecvKill, Reaches
  <2>2. \A x \in Conns :
          /\ conn'[x].agent = (IF x = c THEN "closing" ELSE conn[x].agent)
          /\ conn'[x].gateway = conn[x].gateway
          /\ conn'[x].device = conn[x].device
          /\ conn'[x].toAgent = (IF x = c THEN Tail(conn[x].toAgent) ELSE conn[x].toAgent)
          /\ conn'[x].toGateway = conn[x].toGateway
    BY <1>13, RecvKillFields, Zenon
  <2>3. Ends'
    BY <1>a, <2>1, <2>2 DEF Ends
  <2>4. Sockets'
    BY <1>0, <1>a, <2>1, <2>2 DEF Sockets, ConnTable, Connection, Device
  <2> QED BY <2>3, <2>4 DEF Wired
<1> QED
  BY <1>1, <1>2, <1>3, <1>4, <1>5, <1>6, <1>7, <1>8, <1>9, <1>10, <1>11, <1>12, <1>13 DEF Next, Quiet

-----------------------------------------------------------------------------
(* The ids of terminals.                                                     *)

\* No two terminals of a device have an id in common, and the next id of the
\* device on the list is beyond all of them.
Numbered ==
  /\ \A s \in Shells : shell[s].listed => shell[s].state \in {"opening", "open"}
  /\ \A s \in Shells : shell[s].state # "idle" =>
       /\ shell[s].ch \in ChannelIds /\ conn[shell[s].device].gateway # "none"
       /\ shell[s].device = devices => shell[s].ch < device[devices].next
  /\ \A s, t \in Shells :
       s # t /\ shell[s].state # "idle" /\ shell[t].state # "idle" /\ shell[s].device = shell[t].device
         => shell[s].ch # shell[t].ch

LEMMA NumberedStep ==
  ASSUME Typed, Wired, Numbered, [Next]_vars
  PROVE  Numbered'
<1>0. /\ conn \in ConnTable /\ tunnel \in Conns \cup {0} /\ devices \in Conns \cup {0}
      /\ device \in [Conns -> Device] /\ shell \in [Shells -> Terminal]
  BY TypesOf DEF Typed
<1>p. \A s \in Shells : shell[s].state # "idle" => shell[s].device \in Conns
  BY DEF Typed, Placed
<1>1. CASE (\A c \in Conns : ~Accept(c)) /\ (\A s \in Shells : ~OpenShell(s))
  <2>1. SamePlaces
    BY <1>1, PlacesKept
  <2>2. \A s \in Shells : shell'[s].listed => shell'[s].state \in {"opening", "open"}
    BY <2>1 DEF Numbered, SamePlaces
  <2>3. \A s \in Shells : shell'[s].state # "idle" =>
          /\ shell'[s].ch \in ChannelIds /\ conn'[shell'[s].device].gateway # "none"
          /\ shell'[s].device = devices' => shell'[s].ch < device'[devices'].next
    BY <1>0, <1>p, <2>1, ConnNotZero DEF Numbered, SamePlaces
  <2>4. \A s, t \in Shells :
          s # t /\ shell'[s].state # "idle" /\ shell'[t].state # "idle" /\ shell'[s].device = shell'[t].device
            => shell'[s].ch # shell'[t].ch
    BY <2>1 DEF Numbered, SamePlaces
  <2> QED BY <2>2, <2>3, <2>4 DEF Numbered
<1>2. ASSUME NEW c \in Conns, Accept(c)
      PROVE  Numbered'
  <2>1. /\ devices' = (IF devices = 0 THEN c ELSE devices)
        /\ \A x \in Conns :
              /\ conn'[x].agent = conn[x].agent
              /\ conn'[x].gateway = (IF x = c THEN "open" ELSE IF devices # 0 /\ x = device[devices].socket /\ conn[x].gateway = "open" THEN "closing" ELSE conn[x].gateway)
              /\ conn'[x].device = (IF x = c THEN IF devices = 0 THEN c ELSE devices ELSE conn[x].device)
              /\ conn'[x].toAgent = conn[x].toAgent
              /\ conn'[x].toGateway = conn[x].toGateway
        /\ \A e \in Conns :
              /\ device'[e].socket = (IF e = devices' /\ devices = 0 THEN c ELSE IF e = devices' /\ devices # 0 THEN c ELSE device[e].socket)
              /\ device'[e].hello = (IF e = devices' /\ devices = 0 THEN 0 ELSE device[e].hello)
              /\ device'[e].next = (IF e = devices' /\ devices = 0 THEN 1 ELSE device[e].next)
              /\ device'[e].grace = (IF e = devices' /\ devices = 0 THEN FALSE ELSE IF e = devices' /\ devices # 0 THEN FALSE ELSE device[e].grace)
    BY <1>2, AcceptFields, Zenon
  <2>2. UNCHANGED shell /\ conn[c].gateway = "none"
    BY <1>2 DEF Accept
  <2>3. \A s \in Shells : shell[s].state # "idle" =>
          conn'[shell[s].device].gateway # "none" /\ shell[s].device # c
    BY <1>p, <2>1, <2>2 DEF Numbered
  <2>4. \A s \in Shells : shell[s].state # "idle" /\ shell[s].device = devices' =>
          shell[s].ch < device'[devices'].next
    BY <1>p, <2>1, <2>3 DEF Numbered
  <2> QED BY <2>2, <2>3, <2>4 DEF Numbered
<1>3. ASSUME NEW s \in Shells, OpenShell(s)
      PROVE  Numbered'
  <2>1. devices \in Conns /\ device[devices].next \in ChannelIds /\ shell[s].state = "idle"
    BY <1>3, OpenShellFields
  <2>2. /\ \A e \in Conns :
             /\ device'[e].socket = device[e].socket
             /\ device'[e].hello = device[e].hello
             /\ device'[e].next = (IF e = devices THEN device[e].next + 1 ELSE device[e].next)
             /\ device'[e].grace = device[e].grace
        /\ \A t \in Shells :
             /\ shell'[t].state = (IF t = s THEN "opening" ELSE shell[t].state)
             /\ shell'[t].device = (IF t = s THEN devices ELSE shell[t].device)
             /\ shell'[t].ch = (IF t = s THEN device[devices].next ELSE shell[t].ch)
             /\ shell'[t].listed = (IF t = s THEN TRUE ELSE shell[t].listed)
    BY <1>3, OpenShellFields, Zenon
  <2>3. \A x \in Conns : conn'[x].gateway = conn[x].gateway
    BY <1>3, OpenShellFields
  <2>4. UNCHANGED devices
    BY <1>3 DEF OpenShell
  <2>5. device[devices].next \in Nat /\ conn[devices].gateway # "none"
    BY <1>0, <2>1, ConnNotZero DEF Device, Wired, Sockets
  <2>6. \A t \in Shells : shell[t].ch \in Nat
    BY <1>0, CardType DEF Terminal
  <2>7. \A t \in Shells : shell'[t].state # "idle" =>
          /\ shell'[t].ch \in ChannelIds /\ conn'[shell'[t].device].gateway # "none"
          /\ shell'[t].device = devices' => shell'[t].ch < device'[devices'].next
    <3> TAKE t \in Shells
    <3>1. CASE t = s
      <4>1. shell'[t].device = devices /\ shell'[t].ch = device[devices].next
        BY <2>2, <3>1
      <4>2. device'[devices].next = device[devices].next + 1
        BY <2>1, <2>2
      <4> QED BY <2>1, <2>3, <2>4, <2>5, <4>1, <4>2
    <3>2. CASE t # s
      <4>1. shell'[t].state = shell[t].state /\ shell'[t].device = shell[t].device /\ shell'[t].ch = shell[t].ch
        BY <2>2, <3>2
      <4>2. device'[devices].next = device[devices].next + 1
        BY <2>1, <2>2
      <4> QED BY <1>p, <2>3, <2>4, <2>5, <2>6, <4>1, <4>2 DEF Numbered
    <3> QED BY <3>1, <3>2
  <2>8. \A t, u \in Shells :
          t # u /\ shell'[t].state # "idle" /\ shell'[u].state # "idle" /\ shell'[t].device = shell'[u].device
            => shell'[t].ch # shell'[u].ch
    <3>1. /\ shell'[s].device = devices /\ shell'[s].ch = device[devices].next
          /\ \A t \in Shells : t # s =>
               shell'[t].state = shell[t].state /\ shell'[t].device = shell[t].device /\ shell'[t].ch = shell[t].ch
      BY <2>2
    <3>2. \A t \in Shells : t # s /\ shell'[t].state # "idle" /\ shell'[t].device = devices
                              => shell'[t].ch # device[devices].next
      BY <2>5, <2>6, <3>1 DEF Numbered
    <3> QED BY <3>1, <3>2 DEF Numbered
  <2> QED BY <2>2, <2>7, <2>8 DEF Numbered
<1> QED BY <1>1, <1>2, <1>3

-----------------------------------------------------------------------------
(* Where a frame on its way comes from.                                      *)

\* Frame f, on connection c, is about a terminal of that connection's device.
About(f, c) ==
  /\ f.for \in Shells /\ shell[f.for].state # "idle"
  /\ shell[f.for].ch = f.ch /\ shell[f.for].device = conn[c].device

\* What a step can add to the frames for the agent.
AddedToAgent(f, c) ==
  \/ f.t = "open" /\ About(f, c)' /\ shell'[f.for].listed
  \/ f.t = "close" /\ About(f, c)' /\ shell'[f.for].state = "over"
  \/ f.t = "kill" /\ KillDevice /\ c = device[devices].socket

NewToAgent == \A c \in Conns : \A f \in In(conn'[c].toAgent) : f \in In(conn[c].toAgent) \/ AddedToAgent(f, c)

LEMMA NoneToAgent ==
  ASSUME conn \in ConnTable,
         \A x \in Conns : \/ conn'[x].toAgent = conn[x].toAgent
                          \/ conn'[x].toAgent = <<>>
                          \/ conn[x].toAgent # <<>> /\ conn'[x].toAgent = Tail(conn[x].toAgent)
  PROVE  NewToAgent
<1> SUFFICES ASSUME NEW x \in Conns, NEW f \in In(conn'[x].toAgent)
             PROVE  f \in In(conn[x].toAgent)
  BY DEF NewToAgent
<1>1. conn[x].toAgent \in Seq(Frames)
  BY DEF ConnTable, Connection
<1>2. CASE conn'[x].toAgent = <<>>
  BY <1>2, InEmpty
<1>3. CASE conn[x].toAgent # <<>> /\ conn'[x].toAgent = Tail(conn[x].toAgent)
  BY <1>1, <1>3, InTail
<1> QED BY <1>2, <1>3

LEMMA FramesToAgent ==
  ASSUME Typed, Wired, Numbered, [Next]_vars
  PROVE  NewToAgent
<1>0. /\ conn \in ConnTable /\ tunnel \in Conns \cup {0} /\ devices \in Conns \cup {0}
      /\ device \in [Conns -> Device] /\ shell \in [Shells -> Terminal]
  BY TypesOf DEF Typed
<1>1. CASE UNCHANGED conn
  BY <1>0, <1>1, NoneToAgent
<1>2. CASE UNCHANGED vars
  BY <1>1, <1>2 DEF vars
<1>3. CASE DialFails
  BY <1>0, <1>3, DialFailsFields, NoneToAgent
<1>4. CASE AgentRestarts
  BY <1>0, <1>4, AgentRestartsFields, NoneToAgent
<1>5. CASE GatewayRestarts
  BY <1>0, <1>5, GatewayRestartsFields, NoneToAgent
<1>6. ASSUME NEW c \in Conns, Dial(c)
      PROVE  NewToAgent
  BY <1>0, <1>6, DialFields, NoneToAgent
<1>7. ASSUME NEW c \in Conns, Connected(c)
      PROVE  NewToAgent
  BY <1>0, <1>7, ConnectedFields, NoneToAgent
<1>8. ASSUME NEW c \in Conns, AgentSeesClose(c)
      PROVE  NewToAgent
  BY <1>0, <1>8, AgentSeesCloseFields, NoneToAgent
<1>9. ASSUME NEW c \in Conns, Accept(c)
      PROVE  NewToAgent
  BY <1>0, <1>9, AcceptFields, NoneToAgent
<1>10. ASSUME NEW c \in Conns, GatewaySeesClose(c)
       PROVE  NewToAgent
  BY <1>0, <1>10, GatewaySeesCloseFields, NoneToAgent
<1>11. ASSUME NEW c \in Conns, GatewayGraceFires(c)
       PROVE  NewToAgent
  BY <1>1, <1>11 DEF GatewayGraceFires
<1>12. ASSUME NEW c \in Conns, RecvOpened(c)
       PROVE  NewToAgent
  BY <1>0, <1>12, RecvOpenedFields, NoneToAgent
<1>13. ASSUME NEW c \in Conns, RecvOpenedAndExit(c)
       PROVE  NewToAgent
  BY <1>0, <1>13, RecvOpenedAndExitFields, NoneToAgent
<1>14. ASSUME NEW c \in Conns, RecvError(c)
       PROVE  NewToAgent
  BY <1>0, <1>14, RecvErrorFields, NoneToAgent
<1>15. ASSUME NEW c \in Conns, RecvExit(c)
       PROVE  NewToAgent
  BY <1>0, <1>15, RecvExitFields, NoneToAgent
<1>16. ASSUME NEW c \in Conns, RecvOpenHeld(c)
       PROVE  NewToAgent
  BY <1>0, <1>16, RecvOpenHeldEffect, NoneToAgent, Zenon
<1>17. ASSUME NEW c \in Conns, RecvOpenRefused(c)
       PROVE  NewToAgent
  BY <1>0, <1>17, RecvOpenRefusedEffect, NoneToAgent
<1>18. ASSUME NEW c \in Conns, RecvClose(c)
       PROVE  NewToAgent
  BY <1>0, <1>18, RecvCloseFields, NoneToAgent
<1>19. ASSUME NEW c \in Conns, RecvKill(c)
       PROVE  NewToAgent
  BY <1>0, <1>19, RecvKillFields, NoneToAgent
<1>20. ASSUME NEW c \in Conns, NEW p \in Ptys, RecvOpenNew(c, p)
       PROVE  NewToAgent
  BY <1>0, <1>20, RecvOpenNewFields, NoneToAgent
<1>21. ASSUME NEW s \in Shells, OpenTimesOut(s)
       PROVE  NewToAgent
  BY <1>1, <1>21 DEF OpenTimesOut
<1>22. ASSUME NEW p \in Ptys, Spawned(p)
       PROVE  NewToAgent
  BY <1>0, <1>22, SpawnedFields, NoneToAgent
<1>23. ASSUME NEW p \in Ptys, SpawnFails(p)
       PROVE  NewToAgent
  BY <1>0, <1>23, SpawnFailsFields, NoneToAgent
<1>24. ASSUME NEW p \in Ptys, PtyExits(p)
       PROVE  NewToAgent
  BY <1>0, <1>24, PtyExitsFields, NoneToAgent
<1>25. ASSUME NEW p \in Ptys, AgentGraceFires(p)
       PROVE  NewToAgent
  BY <1>1, <1>25 DEF AgentGraceFires
<1>26. CASE KillDevice
  <2> SUFFICES ASSUME NEW x \in Conns, NEW f \in In(conn'[x].toAgent), f \notin In(conn[x].toAgent)
               PROVE  AddedToAgent(f, x)
    BY DEF NewToAgent
  <2>1. \/ conn'[x].toAgent = conn[x].toAgent
        \/ /\ x = device[devices].socket
           /\ conn'[x].toAgent = IF conn[x].agent = "closed" THEN conn[x].toAgent
                                 ELSE Append(conn[x].toAgent, Frame("kill", 0, NoShell))
    BY <1>26, KillDeviceEffect, Zenon
  <2>2. x = device[devices].socket /\ conn'[x].toAgent = Append(conn[x].toAgent, Frame("kill", 0, NoShell))
    BY <2>1
  <2>3. Frame("kill", 0, NoShell) \in Frames /\ Frame("kill", 0, NoShell).t = "kill"
    BY FrameType, CardType
  <2>4. conn[x].toAgent \in Seq(Frames)
    BY <1>0 DEF ConnTable, Connection
  <2>5. f = Frame("kill", 0, NoShell)
    BY <2>2, <2>3, <2>4, InAppend
  <2> QED BY <1>26, <2>2, <2>3, <2>5 DEF AddedToAgent
<1>27. ASSUME NEW s \in Shells, OpenShell(s)
       PROVE  NewToAgent
  <2> DEFINE g == Frame("open", device[devices].next, s)
  <2> SUFFICES ASSUME NEW x \in Conns, NEW f \in In(conn'[x].toAgent), f \notin In(conn[x].toAgent)
               PROVE  AddedToAgent(f, x)
    BY DEF NewToAgent
  <2>1. /\ g \in Frames /\ g.t = "open" /\ g.ch = device[devices].next /\ g.for = s
        /\ \A y \in Conns :
             /\ conn'[y].agent = conn[y].agent
             /\ conn'[y].gateway = conn[y].gateway
             /\ conn'[y].device = conn[y].device
             /\ conn'[y].toAgent = (IF y = device[devices].socket /\ conn[y].gateway = "open" /\ conn[y].agent # "closed" THEN Append(conn[y].toAgent, g) ELSE conn[y].toAgent)
             /\ conn'[y].toGateway = conn[y].toGateway
        /\ \A t \in Shells :
             /\ shell'[t].state = (IF t = s THEN "opening" ELSE shell[t].state)
             /\ shell'[t].device = (IF t = s THEN devices ELSE shell[t].device)
             /\ shell'[t].ch = (IF t = s THEN device[devices].next ELSE shell[t].ch)
             /\ shell'[t].listed = (IF t = s THEN TRUE ELSE shell[t].listed)
    BY <1>27, OpenShellFields, Zenon
  <2> HIDE DEF g
  <2>2. x = device[devices].socket /\ conn'[x].toAgent = Append(conn[x].toAgent, g)
    BY <2>1
  <2>3. conn[x].toAgent \in Seq(Frames)
    BY <1>0 DEF ConnTable, Connection
  <2>a. g \in Frames
    BY <2>1
  <2>b. In(Append(conn[x].toAgent, g)) = In(conn[x].toAgent) \cup {g}
    BY <2>3, <2>a, InAppend
  <2>4. f = g
    BY <2>2, <2>b
  <2>5. devices \in Conns
    BY <1>0, <1>27 DEF OpenShell
  <2>6. conn[x].device = devices
    BY <2>2, <2>5, ConnNotZero DEF Wired, Sockets
  <2>7. /\ f.t = "open" /\ f.for = s /\ f.ch = device[devices].next
        /\ shell'[s].state = "opening" /\ shell'[s].device = devices
        /\ shell'[s].ch = device[devices].next /\ shell'[s].listed
        /\ conn'[x].device = devices
    BY <2>1, <2>4, <2>6
  <2> QED BY <2>7 DEF AddedToAgent, About
<1>28. ASSUME NEW s \in Shells, EndShell(s)
       PROVE  NewToAgent
  <2> DEFINE g == Frame("close", shell[s].ch, s)
  <2> SUFFICES ASSUME NEW x \in Conns, NEW f \in In(conn'[x].toAgent), f \notin In(conn[x].toAgent)
               PROVE  AddedToAgent(f, x)
    BY DEF NewToAgent
  <2>1. /\ shell[s].device \in Conns
        /\ g \in Frames /\ g.t = "close" /\ g.ch = shell[s].ch /\ g.for = s
        /\ \A y \in Conns :
             /\ conn'[y].agent = conn[y].agent
             /\ conn'[y].gateway = conn[y].gateway
             /\ conn'[y].device = conn[y].device
             /\ conn'[y].toAgent = (IF shell[s].listed /\ y = device[shell[s].device].socket /\ conn[y].gateway = "open" /\ conn[y].agent # "closed" THEN Append(conn[y].toAgent, g) ELSE conn[y].toAgent)
             /\ conn'[y].toGateway = conn[y].toGateway
        /\ \A t \in Shells :
             /\ shell'[t].state = (IF t = s THEN "over" ELSE shell[t].state)
             /\ shell'[t].device = shell[t].device
             /\ shell'[t].ch = shell[t].ch
             /\ shell'[t].listed = (IF t = s THEN FALSE ELSE shell[t].listed)
    BY <1>28, EndShellFields, Zenon
  <2> HIDE DEF g
  <2>2. x = device[shell[s].device].socket /\ conn'[x].toAgent = Append(conn[x].toAgent, g)
    BY <2>1
  <2>3. conn[x].toAgent \in Seq(Frames)
    BY <1>0 DEF ConnTable, Connection
  <2>a. g \in Frames
    BY <2>1
  <2>b. In(Append(conn[x].toAgent, g)) = In(conn[x].toAgent) \cup {g}
    BY <2>3, <2>a, InAppend
  <2>4. f = g
    BY <2>2, <2>b, Zenon
  <2>6. conn[x].device = shell[s].device
    BY <2>1, <2>2, ConnNotZero, Zenon DEF Wired, Sockets
  <2>7. /\ f.t = "close" /\ f.for = s /\ f.ch = shell[s].ch
        /\ shell'[s].state = "over" /\ shell'[s].device = shell[s].device
        /\ shell'[s].ch = shell[s].ch /\ conn'[x].device = shell[s].device
    BY <2>1, <2>4, <2>6
  <2> QED BY <2>7 DEF AddedToAgent, About
<1>29. ASSUME NEW c \in Conns, RecvHello(c)
       PROVE  NewToAgent
  <2> DEFINE d == conn[c].device
  <2> SUFFICES ASSUME NEW x \in Conns, NEW f \in In(conn'[x].toAgent), f \notin In(conn[x].toAgent)
               PROVE  AddedToAgent(f, x)
    BY DEF NewToAgent
  <2>1. /\ d \in Conns
        /\ \E ids \in InOrder(ListedIds(d)) :
             \A y \in Conns :
               /\ conn'[y].agent = conn[y].agent /\ conn'[y].gateway = conn[y].gateway
               /\ conn'[y].device = conn[y].device
               /\ conn'[y].toGateway = IF y = c THEN Tail(conn[y].toGateway) ELSE conn[y].toGateway
               /\ conn'[y].toAgent =
                    IF y = device[d].socket /\ conn[y].gateway = "open" /\ conn[y].agent # "closed"
                    THEN conn[y].toAgent \o ResumeFrames(d, ids) ELSE conn[y].toAgent
    BY <1>29, RecvHelloEffect, Zenon
  <2> HIDE DEF d
  <2>2. PICK ids \in InOrder(ListedIds(d)) :
          \A y \in Conns :
            /\ conn'[y].device = conn[y].device
            /\ conn'[y].toAgent =
                 IF y = device[d].socket /\ conn[y].gateway = "open" /\ conn[y].agent # "closed"
                 THEN conn[y].toAgent \o ResumeFrames(d, ids) ELSE conn[y].toAgent
    BY <2>1
  <2> DEFINE q == ResumeFrames(d, ids)
  <2>3. /\ q \in Seq(Frames)
        /\ \A i \in 1 .. Len(q) : q[i].t = "open" /\ q[i].for \in Listed(d) /\ q[i].ch = shell[q[i].for].ch
    BY <1>0, ResumeFramesEffect
  <2>4. x = device[d].socket /\ conn'[x].toAgent = conn[x].toAgent \o q
    BY <2>2
  <2>5. conn[x].toAgent \in Seq(Frames)
    BY <1>0 DEF ConnTable, Connection
  <2> HIDE DEF q
  <2>6. f \in In(q)
    BY <2>3, <2>4, <2>5, InConcat
  <2>7. PICK i \in 1 .. Len(q) : f = q[i]
    BY <2>3, <2>6 DEF In
  <2>8. f.t = "open" /\ f.for \in Listed(d) /\ f.ch = shell[f.for].ch
    BY <2>3, <2>7
  <2>9. f.for \in Shells /\ shell[f.for].listed /\ shell[f.for].device = d /\ shell[f.for].state # "idle"
    BY <2>8 DEF Listed, Numbered
  <2>10. conn[x].device = d /\ conn'[x].device = d /\ UNCHANGED shell
    BY <1>29, <2>1, <2>2, <2>4, ConnNotZero, ZenonT(40) DEF Wired, Sockets, RecvHello
  <2> QED BY <2>8, <2>9, <2>10 DEF AddedToAgent, About
<1> QED
  BY <1>2, <1>3, <1>4, <1>5, <1>6, <1>7, <1>8, <1>9, <1>10, <1>11, <1>12, <1>13, <1>14, <1>15, <1>16, <1>17, <1>18, <1>19, <1>20, <1>21, <1>22, <1>23, <1>24, <1>25, <1>26, <1>27, <1>28, <1>29 DEF Next

-----------------------------------------------------------------------------
(* What the frames on their way say.                                         *)

\* A frame for the agent opens or closes a terminal of the connection's device
\* under its own id, a close only once the terminal is over; one that is to
\* kill them all finds none listed any more.
ForAgent(f, c) ==
  /\ f.t \in {"open", "close", "kill"}
  /\ f.t # "kill" => About(f, c)
  /\ f.t = "close" => shell[f.for].state = "over"
  /\ f.t = "kill" => "kill" \in raced /\ Listed(conn[c].device) = {} /\ devices # conn[c].device

\* An answer carries an id that was given out; hello comes first.
ForGateway(q) ==
  /\ \A f \in In(q) : f.t \in {"hello", "opened", "error", "exit"} /\ (f.t # "hello" => f.ch \in ChannelIds)
  /\ \A i \in DOMAIN q : q[i].t = "hello" => i = 1

Addressed ==
  /\ \A c \in Conns : \A f \in In(conn[c].toAgent) : ForAgent(f, c)
  /\ \A c \in Conns : ForGateway(conn[c].toGateway)

LEMMA ForGatewayEmpty == ForGateway(<<>>)
BY InEmpty DEF ForGateway

LEMMA ForGatewayTail ==
  ASSUME NEW q \in Seq(Frames), q # <<>>, ForGateway(q)
  PROVE  ForGateway(Tail(q)) /\ (\A f \in In(Tail(q)) : f.t # "hello") /\ Tail(q) \in Seq(Frames)
<1>1. /\ In(Tail(q)) \subseteq In(q) /\ Tail(q) \in Seq(Frames)
      /\ \A i \in DOMAIN Tail(q) : i + 1 \in DOMAIN q /\ Tail(q)[i] = q[i + 1]
  BY InTail
<1>2. \A i \in DOMAIN Tail(q) : i \in Nat /\ i # 0
  BY <1>1, LenProperties
<1>3. \A i \in DOMAIN Tail(q) : Tail(q)[i].t # "hello"
  BY <1>1, <1>2 DEF ForGateway
<1> QED BY <1>1, <1>3 DEF ForGateway, In

LEMMA ForGatewayAppend ==
  ASSUME NEW q \in Seq(Frames), ForGateway(q), NEW f \in Frames,
         f.t \in {"opened", "error", "exit"}, f.ch \in ChannelIds
  PROVE  ForGateway(Append(q, f))
<1>1. /\ In(Append(q, f)) = In(q) \cup {f}
      /\ DOMAIN Append(q, f) = 1 .. (Len(q) + 1) /\ Len(q) \in Nat /\ DOMAIN q = 1 .. Len(q)
      /\ \A i \in DOMAIN q : Append(q, f)[i] = q[i]
      /\ Append(q, f)[Len(q) + 1] = f
  BY InAppend
<1>2. \A i \in DOMAIN Append(q, f) : Append(q, f)[i].t = "hello" => i = 1
  BY <1>1 DEF ForGateway
<1> QED BY <1>1, <1>2 DEF ForGateway

LEMMA ForGatewayHello ==
  ASSUME NEW f \in Frames, f.t = "hello"
  PROVE  ForGateway(Append(<<>>, f))
<1>1. /\ In(Append(<<>>, f)) = In(<<>>) \cup {f} /\ DOMAIN Append(<<>>, f) = 1 .. (Len(<<>>) + 1)
  BY Blank, InAppend
<1>2. Len(<<>>) = 0
  OBVIOUS
<1> QED BY <1>1, <1>2, InEmpty DEF ForGateway

\* Every process is, or was, of a terminal that had its id; a pty that is being
\* spawned serves the terminal it is for.
Served ==
  \A p \in Ptys : pty[p].state # "free" =>
    /\ pty[p].owner \in Shells /\ shell[pty[p].owner].state # "idle" /\ shell[pty[p].owner].ch = pty[p].ch
    /\ pty[p].bound \in Shells /\ shell[pty[p].bound].state # "idle" /\ shell[pty[p].bound].ch = pty[p].ch
    /\ pty[p].state = "spawning" => pty[p].owner = pty[p].bound

LEMMA AddressedToAgentStep ==
  ASSUME Typed, Wired, Wired', Numbered, Addressed, [Next]_vars
  PROVE  \A c \in Conns : \A f \in In(conn'[c].toAgent) : ForAgent(f, c)'
<1>0. /\ conn \in ConnTable /\ tunnel \in Conns \cup {0} /\ devices \in Conns \cup {0}
      /\ device \in [Conns -> Device] /\ shell \in [Shells -> Terminal]
  BY TypesOf DEF Typed
<1> SUFFICES ASSUME NEW c \in Conns, NEW f \in In(conn'[c].toAgent)
             PROVE  ForAgent(f, c)'
  OBVIOUS
<1>1. f \in In(conn[c].toAgent) \/ AddedToAgent(f, c)
  BY FramesToAgent DEF NewToAgent
<1>2. raced \subseteq raced'
  BY RacedGrows
<1>3. CASE f \in In(conn[c].toAgent)
  <2>0. ForAgent(f, c)
    BY <1>3 DEF Addressed
  <2>1. conn[c].gateway # "none" /\ conn[c].device \in Conns
    BY <1>3, InEmpty DEF Wired, Ends, Typed, Placed
  <2>2. CASE (\A x \in Conns : ~Accept(x)) /\ (\A s \in Shells : ~OpenShell(s))
    <3>1. SamePlaces
      BY <2>2, PlacesKept
    <3>2. conn'[c].device = conn[c].device
      BY <2>1, <3>1 DEF SamePlaces
    <3>3. f.t # "kill" => About(f, c)'
      BY <2>0, <3>1, <3>2 DEF ForAgent, About, SamePlaces
    <3>4. f.t = "close" => shell'[f.for].state = "over"
      BY <2>0, <3>1 DEF ForAgent, About, SamePlaces
    <3>5. f.t = "kill" => "kill" \in raced' /\ Listed(conn[c].device)' = {} /\ devices' # conn'[c].device
      BY <1>2, <2>0, <2>1, <3>1, <3>2, ConnNotZero DEF ForAgent, Listed, SamePlaces
    <3> QED BY <2>0, <3>3, <3>4, <3>5 DEF ForAgent, Listed
  <2>3. ASSUME NEW x \in Conns, Accept(x)
        PROVE  ForAgent(f, c)'
    <3>1. UNCHANGED shell /\ conn[x].gateway = "none" /\ x # c
      BY <2>1, <2>3 DEF Accept
    <3>2. devices' = (IF devices = 0 THEN x ELSE devices) /\ conn'[c].device = conn[c].device
      BY <2>3, <3>1, AcceptFields
    <3>3. conn[c].device # x
      BY <2>1, <3>1, ConnNotZero DEF Wired, Sockets
    <3> QED BY <1>2, <2>0, <3>1, <3>2, <3>3 DEF ForAgent, About, Listed
  <2>4. ASSUME NEW s \in Shells, OpenShell(s)
        PROVE  ForAgent(f, c)'
    <3>1. /\ shell[s].state = "idle" /\ UNCHANGED devices
          /\ \A t \in Shells : t # s => shell'[t] = shell[t]
          /\ shell'[s].device = devices
      BY <1>0, <2>4 DEF OpenShell
    <3>2. conn'[c].device = conn[c].device
      BY <2>4, OpenShellFields
    <3>3. f.t # "kill" => f.for # s /\ About(f, c)'
      BY <2>0, <3>1, <3>2 DEF ForAgent, About
    <3>4. f.t = "kill" => Listed(conn[c].device)' = {}
      BY <2>0, <3>1, <3>2 DEF ForAgent, Listed
    <3>5. f.t = "close" => shell'[f.for].state = "over"
      BY <2>0, <3>1, <3>3 DEF ForAgent, About
    <3>6. f.t = "kill" => "kill" \in raced' /\ devices' # conn'[c].device
      BY <1>2, <2>0, <3>1, <3>2 DEF ForAgent
    <3> QED BY <2>0, <3>3, <3>4, <3>5, <3>6 DEF ForAgent
  <2> QED BY <2>2, <2>3, <2>4
<1>4. CASE f.t = "kill" /\ KillDevice /\ c = device[devices].socket
  <2>1. /\ devices \in Conns /\ devices' = 0 /\ "kill" \in raced'
        /\ \A s \in Shells : s \in Listed(devices) => ~shell'[s].listed
    BY <1>0, <1>4, KillDeviceEffect, Zenon DEF Terminal
  <2>2. conn[c].device = devices /\ conn'[c].device = devices
    <3>1. conn'[c].device = conn[c].device
      BY <1>4, KillDeviceEffect, Zenon
    <3>2. device[devices].socket # 0
      BY <1>4, ConnNotZero
    <3> QED BY <1>4, <2>1, <3>1, <3>2 DEF Wired, Sockets
  <2>3. \A s \in Shells : shell'[s].listed => shell[s].listed /\ shell'[s].device = shell[s].device
    BY <1>4, KillDeviceFields
  <2>4. Listed(conn[c].device)' = {}
    BY <2>1, <2>2, <2>3 DEF Listed
  <2> QED BY <1>4, <2>1, <2>2, <2>4, ConnNotZero DEF ForAgent
<1> QED BY <1>1, <1>3, <1>4 DEF AddedToAgent, ForAgent

\* What a step does to the frames for the gateway: an answer is added, or the
\* first is read.
Answering ==
  \A x \in Conns :
    \/ conn'[x].toGateway = conn[x].toGateway
    \/ conn'[x].toGateway = <<>>
    \/ conn[x].toGateway # <<>> /\ conn'[x].toGateway = Tail(conn[x].toGateway)
    \/ \E f \in Frames : /\ f.t \in {"opened", "error", "exit"} /\ f.ch \in ChannelIds
                         /\ conn'[x].toGateway = Append(conn[x].toGateway, f)

LEMMA AnsweringKeeps ==
  ASSUME Typed, Addressed, Answering
  PROVE  \A c \in Conns : ForGateway(conn'[c].toGateway)
<1> SUFFICES ASSUME NEW c \in Conns
             PROVE  ForGateway(conn'[c].toGateway)
  OBVIOUS
<1>1. conn[c].toGateway \in Seq(Frames) /\ ForGateway(conn[c].toGateway)
  BY TypesOf DEF Typed, ConnTable, Connection, Addressed
<1>2. CASE conn'[c].toGateway = <<>>
  BY <1>2, ForGatewayEmpty
<1>3. CASE conn[c].toGateway # <<>> /\ conn'[c].toGateway = Tail(conn[c].toGateway)
  BY <1>1, <1>3, ForGatewayTail
<1>4. ASSUME NEW f \in Frames, f.t \in {"opened", "error", "exit"}, f.ch \in ChannelIds,
             conn'[c].toGateway = Append(conn[c].toGateway, f)
      PROVE  ForGateway(conn'[c].toGateway)
  BY <1>1, <1>4, ForGatewayAppend
<1> QED BY <1>1, <1>2, <1>3, <1>4 DEF Answering

LEMMA OpenIsNumbered ==
  ASSUME Typed, Numbered, Addressed, NEW c \in Conns, conn[c].toAgent # <<>>,
         Head(conn[c].toAgent).t # "kill"
  PROVE  /\ About(Head(conn[c].toAgent), c) /\ Head(conn[c].toAgent).ch \in ChannelIds
         /\ Head(conn[c].toAgent) \in In(conn[c].toAgent)
<1>1. conn[c].toAgent \in Seq(Frames)
  BY TypesOf DEF Typed, ConnTable, Connection
<1>2. Head(conn[c].toAgent) \in In(conn[c].toAgent)
  BY <1>1, InTail
<1>3. About(Head(conn[c].toAgent), c)
  BY <1>2 DEF Addressed, ForAgent
<1> QED BY <1>2, <1>3 DEF About, Numbered

LEMMA PtyIsNumbered ==
  ASSUME Numbered, Served, NEW p \in Ptys, pty[p].state # "free"
  PROVE  pty[p].ch \in ChannelIds
BY DEF Numbered, Served

LEMMA AddressedToGatewayStep ==
  ASSUME Typed, Wired, Numbered, Addressed, Served, [Next]_vars
  PROVE  \A c \in Conns : ForGateway(conn'[c].toGateway)
<1>0. conn \in ConnTable /\ tunnel \in Conns \cup {0}
  BY TypesOf DEF Typed
<1>1. CASE UNCHANGED vars \/ UNCHANGED conn
  BY <1>1, AnsweringKeeps DEF vars, Answering
<1>2. CASE DialFails
  BY <1>2, DialFailsFields, AnsweringKeeps DEF Answering
<1>3. CASE AgentRestarts
  BY <1>3, AgentRestartsFields, AnsweringKeeps DEF Answering
<1>4. CASE KillDevice
  BY <1>4, KillDeviceEffect, AnsweringKeeps, Zenon DEF Answering
<1>5. CASE GatewayRestarts
  BY <1>5, GatewayRestartsFields, AnsweringKeeps DEF Answering
<1>6. ASSUME NEW c \in Conns, Dial(c)
      PROVE  \A x \in Conns : ForGateway(conn'[x].toGateway)
  BY <1>6, DialFields, AnsweringKeeps DEF Answering
<1>7. ASSUME NEW c \in Conns, Connected(c)
      PROVE  \A x \in Conns : ForGateway(conn'[x].toGateway)
  <2>1. conn[c].toGateway = <<>>
    BY <1>7 DEF Connected, Wired, Ends
  <2>2. /\ Frame("hello", 0, NoShell) \in Frames
        /\ \A x \in Conns : conn'[x].toGateway =
             (IF x = c THEN IF conn[x].gateway = "closed" THEN conn[x].toGateway ELSE Append(conn[x].toGateway, Frame("hello", 0, NoShell)) ELSE conn[x].toGateway)
    BY <1>7, ConnectedFields
  <2>3. Frame("hello", 0, NoShell).t = "hello"
    BY DEF Frame
  <2>4. ForGateway(Append(<<>>, Frame("hello", 0, NoShell)))
    BY <2>2, <2>3, ForGatewayHello
  <2> QED BY <2>1, <2>2, <2>4 DEF Addressed
<1>8. ASSUME NEW c \in Conns, AgentSeesClose(c)
      PROVE  \A x \in Conns : ForGateway(conn'[x].toGateway)
  BY <1>8, AgentSeesCloseFields, AnsweringKeeps DEF Answering
<1>9. ASSUME NEW c \in Conns, Accept(c)
      PROVE  \A x \in Conns : ForGateway(conn'[x].toGateway)
  BY <1>9, AcceptFields, AnsweringKeeps DEF Answering
<1>10. ASSUME NEW c \in Conns, GatewaySeesClose(c)
       PROVE  \A x \in Conns : ForGateway(conn'[x].toGateway)
  BY <1>10, GatewaySeesCloseFields, AnsweringKeeps DEF Answering
<1>11. ASSUME NEW c \in Conns, GatewayGraceFires(c)
       PROVE  \A x \in Conns : ForGateway(conn'[x].toGateway)
  BY <1>1, <1>11 DEF GatewayGraceFires
<1>12. ASSUME NEW c \in Conns, RecvHello(c)
       PROVE  \A x \in Conns : ForGateway(conn'[x].toGateway)
  BY <1>12, RecvHelloEffect, AnsweringKeeps DEF Answering
<1>13. ASSUME NEW c \in Conns, RecvOpened(c)
       PROVE  \A x \in Conns : ForGateway(conn'[x].toGateway)
  BY <1>13, RecvOpenedFields, AnsweringKeeps DEF Answering
<1>14. ASSUME NEW c \in Conns, RecvOpenedAndExit(c)
       PROVE  \A x \in Conns : ForGateway(conn'[x].toGateway)
  <2>1. /\ conn[c].toGateway # <<>> /\ Tail(conn[c].toGateway) # <<>>
        /\ \A x \in Conns : conn'[x].toGateway = (IF x = c THEN Tail(Tail(conn[c].toGateway)) ELSE conn[x].toGateway)
    BY <1>14, RecvOpenedAndExitFields
  <2>2. conn[c].toGateway \in Seq(Frames) /\ ForGateway(conn[c].toGateway)
    BY <1>0 DEF ConnTable, Connection, Addressed
  <2>3. ForGateway(Tail(conn[c].toGateway)) /\ Tail(conn[c].toGateway) \in Seq(Frames)
    BY <2>1, <2>2, ForGatewayTail
  <2>4. ForGateway(Tail(Tail(conn[c].toGateway)))
    BY <2>1, <2>3, ForGatewayTail
  <2> QED BY <2>1, <2>4 DEF Addressed
<1>15. ASSUME NEW c \in Conns, RecvError(c)
       PROVE  \A x \in Conns : ForGateway(conn'[x].toGateway)
  BY <1>15, RecvErrorFields, AnsweringKeeps DEF Answering
<1>16. ASSUME NEW c \in Conns, RecvExit(c)
       PROVE  \A x \in Conns : ForGateway(conn'[x].toGateway)
  BY <1>16, RecvExitFields, AnsweringKeeps DEF Answering
<1>17. ASSUME NEW c \in Conns, RecvOpenHeld(c)
       PROVE  \A x \in Conns : ForGateway(conn'[x].toGateway)
  <2> DEFINE f == Head(conn[c].toAgent)
             g == Frame(IF pty[channels[f.ch]].attached THEN "error" ELSE "opened", f.ch, f.for)
  <2>1. /\ conn[c].toAgent # <<>> /\ f.t = "open" /\ g \in Frames
        /\ g.t = (IF pty[channels[f.ch]].attached THEN "error" ELSE "opened") /\ g.ch = f.ch
        /\ \A x \in Conns :
             conn'[x].toGateway = IF x = tunnel /\ conn[x].agent = "open" /\ conn[x].gateway # "closed"
                                  THEN Append(conn[x].toGateway, g) ELSE conn[x].toGateway
    BY <1>17, RecvOpenHeldEffect, Zenon
  <2>2. f.ch \in ChannelIds
    BY <2>1, OpenIsNumbered, Zenon
  <2> HIDE DEF g, f
  <2>3. g.t \in {"opened", "error", "exit"} /\ g.ch \in ChannelIds
    BY <2>1, <2>2
  <2> QED BY <2>1, <2>3, AnsweringKeeps DEF Answering
<1>18. ASSUME NEW c \in Conns, RecvOpenRefused(c)
       PROVE  \A x \in Conns : ForGateway(conn'[x].toGateway)
  <2> DEFINE f == Head(conn[c].toAgent)
             g == Frame("error", f.ch, f.for)
  <2>1. /\ conn[c].toAgent # <<>> /\ f.t = "open" /\ g \in Frames /\ g.t = "error" /\ g.ch = f.ch
        /\ \A x \in Conns :
             conn'[x].toGateway = IF x = tunnel /\ conn[x].agent = "open" /\ conn[x].gateway # "closed"
                                  THEN Append(conn[x].toGateway, g) ELSE conn[x].toGateway
    BY <1>18, RecvOpenRefusedEffect
  <2>2. f.ch \in ChannelIds
    BY <2>1, OpenIsNumbered
  <2> HIDE DEF g, f
  <2> QED BY <2>1, <2>2, AnsweringKeeps DEF Answering
<1>19. ASSUME NEW c \in Conns, RecvClose(c)
       PROVE  \A x \in Conns : ForGateway(conn'[x].toGateway)
  BY <1>19, RecvCloseFields, AnsweringKeeps DEF Answering
<1>20. ASSUME NEW c \in Conns, RecvKill(c)
       PROVE  \A x \in Conns : ForGateway(conn'[x].toGateway)
  BY <1>20, RecvKillFields, AnsweringKeeps DEF Answering
<1>21. ASSUME NEW c \in Conns, NEW p \in Ptys, RecvOpenNew(c, p)
       PROVE  \A x \in Conns : ForGateway(conn'[x].toGateway)
  BY <1>21, RecvOpenNewFields, AnsweringKeeps DEF Answering
<1>22. ASSUME NEW s \in Shells, OpenShell(s)
       PROVE  \A x \in Conns : ForGateway(conn'[x].toGateway)
  BY <1>22, OpenShellFields, AnsweringKeeps DEF Answering
<1>23. ASSUME NEW s \in Shells, EndShell(s)
       PROVE  \A x \in Conns : ForGateway(conn'[x].toGateway)
  BY <1>23, EndShellFields, AnsweringKeeps DEF Answering
<1>24. ASSUME NEW s \in Shells, OpenTimesOut(s)
       PROVE  \A x \in Conns : ForGateway(conn'[x].toGateway)
  BY <1>1, <1>24 DEF OpenTimesOut
<1>25. ASSUME NEW p \in Ptys, Spawned(p)
       PROVE  \A x \in Conns : ForGateway(conn'[x].toGateway)
  <2> DEFINE g == Frame("opened", pty[p].ch, pty[p].owner)
  <2>1. /\ pty[p].state = "spawning" /\ g \in Frames /\ g.t = "opened" /\ g.ch = pty[p].ch
        /\ \A x \in Conns :
             conn'[x].toGateway = (IF x = tunnel /\ conn[x].agent = "open" /\ conn[x].gateway # "closed" THEN Append(conn[x].toGateway, g) ELSE conn[x].toGateway)
    BY <1>25, SpawnedFields
  <2> HIDE DEF g
  <2> QED BY <2>1, PtyIsNumbered, AnsweringKeeps DEF Answering
<1>26. ASSUME NEW p \in Ptys, SpawnFails(p)
       PROVE  \A x \in Conns : ForGateway(conn'[x].toGateway)
  <2> DEFINE g == Frame("error", pty[p].ch, pty[p].owner)
  <2>1. /\ pty[p].state = "spawning" /\ g \in Frames /\ g.t = "error" /\ g.ch = pty[p].ch
        /\ \A x \in Conns :
             conn'[x].toGateway = (IF x = tunnel /\ conn[x].agent = "open" /\ conn[x].gateway # "closed" THEN Append(conn[x].toGateway, g) ELSE conn[x].toGateway)
    BY <1>26, SpawnFailsFields
  <2> HIDE DEF g
  <2> QED BY <2>1, PtyIsNumbered, AnsweringKeeps DEF Answering
<1>27. ASSUME NEW p \in Ptys, PtyExits(p)
       PROVE  \A x \in Conns : ForGateway(conn'[x].toGateway)
  <2> DEFINE g == Frame("exit", pty[p].ch, pty[p].bound)
  <2>1. /\ pty[p].state \in {"alive", "killed"} /\ g \in Frames /\ g.t = "exit" /\ g.ch = pty[p].ch
        /\ \A x \in Conns :
             conn'[x].toGateway = (IF pty[p].attached /\ x = tunnel /\ conn[x].agent = "open" /\ conn[x].gateway # "closed" THEN Append(conn[x].toGateway, g) ELSE conn[x].toGateway)
    BY <1>27, PtyExitsFields
  <2> HIDE DEF g
  <2> QED BY <2>1, PtyIsNumbered, AnsweringKeeps DEF Answering
<1>28. ASSUME NEW p \in Ptys, AgentGraceFires(p)
       PROVE  \A x \in Conns : ForGateway(conn'[x].toGateway)
  BY <1>1, <1>28 DEF AgentGraceFires
<1> QED
  BY <1>1, <1>2, <1>3, <1>4, <1>5, <1>6, <1>7, <1>8, <1>9, <1>10, <1>11, <1>12, <1>13, <1>14, <1>15, <1>16, <1>17, <1>18, <1>19, <1>20, <1>21, <1>22, <1>23, <1>24, <1>25, <1>26, <1>27, <1>28 DEF Next

-----------------------------------------------------------------------------
(* Whom a process serves, and what it is safe from.                          *)

\* A terminal that was opened keeps its device and its id.
LEMMA TerminalsKept ==
  ASSUME Typed, [Next]_vars
  PROVE  \A s \in Shells : shell[s].state # "idle" =>
           shell'[s].state # "idle" /\ shell'[s].ch = shell[s].ch /\ shell'[s].device = shell[s].device
<1>1. ASSUME NEW c \in Conns, Accept(c)
      PROVE  UNCHANGED shell
  BY <1>1 DEF Accept
<1>2. ASSUME NEW s \in Shells, OpenShell(s)
      PROVE  \A t \in Shells : shell[t].state # "idle" => shell'[t] = shell[t]
  BY <1>2, OpenShellEffect
<1>3. CASE (\A c \in Conns : ~Accept(c)) /\ (\A s \in Shells : ~OpenShell(s))
  <2>1. SamePlaces
    BY <1>3, PlacesKept
  <2> QED BY <2>1 DEF SamePlaces
<1> QED BY <1>1, <1>2, <1>3

\* What most steps leave of the processes.
SameOwners ==
  \A p \in Ptys : pty'[p].state # "free" =>
    /\ pty[p].state # "free"
    /\ pty'[p].ch = pty[p].ch /\ pty'[p].owner = pty[p].owner /\ pty'[p].bound = pty[p].bound
    /\ pty'[p].state = "spawning" => pty[p].state = "spawning"

LEMMA OwnersKept ==
  ASSUME Typed, [Next]_vars,
         \A c \in Conns : ~RecvOpenHeld(c),
         \A c \in Conns, p \in Ptys : ~RecvOpenNew(c, p)
  PROVE  SameOwners
<1>1. CASE UNCHANGED pty
  BY <1>1 DEF SameOwners
<1>2. ASSUME NEW R, Disconnected(R)
      PROVE  SameOwners
  BY <1>2, DisconnectedFields DEF SameOwners
<1>3. CASE UNCHANGED vars \/ KillDevice \/ GatewayRestarts
  BY <1>1, <1>3, Zenon DEF vars, KillDevice, GatewayRestarts
<1>4. CASE DialFails
  BY <1>2, <1>4 DEF DialFails
<1>5. CASE AgentRestarts
  BY <1>5, Zenon DEF AgentRestarts, SameOwners, FreePty
<1>6. ASSUME NEW c \in Conns, AgentSeesClose(c)
      PROVE  SameOwners
  BY <1>2, <1>6 DEF AgentSeesClose
<1>7. ASSUME NEW c \in Conns,
             \/ Dial(c) \/ Connected(c) \/ Accept(c) \/ GatewaySeesClose(c) \/ GatewayGraceFires(c)
             \/ RecvHello(c) \/ RecvOpened(c) \/ RecvOpenedAndExit(c) \/ RecvError(c) \/ RecvExit(c)
             \/ RecvOpenRefused(c)
      PROVE  SameOwners
  BY <1>1, <1>7, Zenon DEF Dial, Connected, Accept, GatewaySeesClose, GatewayGraceFires, RecvHello, RecvOpened, RecvOpenedAndExit, RecvError, RecvExit, RecvOpenRefused
<1>8. ASSUME NEW s \in Shells, OpenShell(s) \/ OpenTimesOut(s) \/ EndShell(s)
      PROVE  SameOwners
  BY <1>1, <1>8 DEF OpenShell, OpenTimesOut, EndShell
<1>9. ASSUME NEW c \in Conns, RecvClose(c)
      PROVE  SameOwners
  <2> DEFINE f == Head(conn[c].toAgent)
  <2>1. \A x \in Ptys :
                  /\ x # channels[f.ch] => pty'[x] = pty[x]
                  /\ x = channels[f.ch] =>
                       /\ pty'[x].state = (IF pty[x].state = "alive" THEN "killed" ELSE pty[x].state)
                       /\ pty'[x].ch = pty[x].ch /\ pty'[x].attached = pty[x].attached
                       /\ pty'[x].timer = FALSE /\ pty'[x].stray = pty[x].stray
                       /\ pty'[x].owner = pty[x].owner /\ pty'[x].bound = pty[x].bound
    BY <1>9, RecvCloseEffect
  <2> HIDE DEF f
  <2> QED BY <2>1 DEF SameOwners
<1>10. ASSUME NEW c \in Conns, RecvKill(c)
       PROVE  SameOwners
  BY <1>10, RecvKillEffect, Zenon DEF SameOwners
<1>11. ASSUME NEW p \in Ptys, Spawned(p)
       PROVE  SameOwners
  BY <1>11, SpawnedFields DEF SameOwners
<1>12. ASSUME NEW p \in Ptys, SpawnFails(p)
       PROVE  SameOwners
  BY <1>12, SpawnFailsFields DEF SameOwners
<1>13. ASSUME NEW p \in Ptys, PtyExits(p)
       PROVE  SameOwners
  <2> DEFINE ch == pty[p].ch
  <2>1. /\ pty[p].state \in {"alive", "killed"}
        /\ \A x \in Ptys :
                  \/ pty'[x] = FreePty /\ (x = p \/ pty[x].state = "dead")
                  \/ /\ pty'[x].state = (IF x = p THEN "dead" ELSE pty[x].state)
                     /\ pty'[x].ch = pty[x].ch /\ pty'[x].attached = pty[x].attached
                     /\ pty'[x].timer = (pty[x].timer /\ x # channels[ch])
                     /\ pty'[x].stray = pty[x].stray
                     /\ pty'[x].owner = pty[x].owner /\ pty'[x].bound = pty[x].bound
    BY <1>13, PtyExitsEffect
  <2>2. FreePty.state = "free"
    BY DEF FreePty
  <2> HIDE DEF ch
  <2> QED BY <2>1, <2>2 DEF SameOwners
<1>14. ASSUME NEW p \in Ptys, AgentGraceFires(p)
       PROVE  SameOwners
  <2>1. \A x \in Ptys :
              \/ pty'[x] = FreePty /\ pty[x].state = "dead"
              \/ /\ pty'[x].state = (IF x = p /\ pty[x].state = "alive" THEN "killed" ELSE pty[x].state)
                 /\ pty'[x].ch = pty[x].ch /\ pty'[x].attached = pty[x].attached
                 /\ x # p => pty'[x].timer = (pty[x].timer /\ x # channels[pty[p].ch])
                 /\ x # p => pty'[x].stray = pty[x].stray
                 /\ pty'[x].owner = pty[x].owner /\ pty'[x].bound = pty[x].bound
                 /\ pty'[x].stray <= pty[x].stray
    BY <1>14, AgentGraceFiresEffect
  <2>2. FreePty.state = "free"
    BY DEF FreePty
  <2> QED BY <2>1, <2>2 DEF SameOwners
<1> QED
  BY <1>3, <1>4, <1>5, <1>6, <1>7, <1>8, <1>9, <1>10, <1>11, <1>12, <1>13, <1>14 DEF Next

\* No timer runs for an attached pty, nor for one that has none yet; a channel
\* id that is held is held by a live pty started under it.
Sheltered ==
  /\ \A p \in Ptys : pty[p].attached => ~pty[p].timer
  /\ \A p \in Ptys : pty[p].state \in {"free", "spawning"} =>
       ~pty[p].attached /\ ~pty[p].timer /\ pty[p].stray = 0
  /\ \A i \in ChannelIds : channels[i] # NoPty =>
       pty[channels[i]].ch = i /\ pty[channels[i]].state = "alive"
  /\ Unraced({"retryFails"}) => \A p \in Ptys : pty[p].stray = 0

LEMMA ServedStep ==
  ASSUME Typed, Numbered, Addressed, Served, Sheltered, [Next]_vars
  PROVE  Served'
<1>s. \A s \in Shells : shell[s].state # "idle" => shell'[s].state # "idle" /\ shell'[s].ch = shell[s].ch
  BY TerminalsKept
<1>1. CASE SameOwners
  BY <1>s, <1>1 DEF SameOwners, Served
<1>2. ASSUME NEW c \in Conns, RecvOpenHeld(c)
      PROVE  Served'
  <2> DEFINE f == Head(conn[c].toAgent)
             p == channels[f.ch]
  <2>1. \A q \in Ptys :
                  /\ pty'[q].state = pty[q].state
                  /\ pty'[q].ch = pty[q].ch
                  /\ pty'[q].attached = (IF q = p /\ ~pty[p].attached THEN TRUE ELSE pty[q].attached)
                  /\ pty'[q].timer = (IF q = p /\ ~pty[p].attached THEN FALSE ELSE pty[q].timer)
                  /\ pty'[q].stray = pty[q].stray
                  /\ pty'[q].owner = pty[q].owner
                  /\ pty'[q].bound = (IF q = p /\ ~pty[p].attached THEN f.for ELSE pty[q].bound)
    BY <1>2, RecvOpenHeldFields, Zenon
  <2>2. conn[c].toAgent # <<>> /\ f.t = "open"
    BY <1>2 DEF RecvOpenHeld, Reaches
  <2>3. f.for \in Shells /\ shell[f.for].state # "idle" /\ shell[f.for].ch = f.ch /\ f.ch \in ChannelIds
    BY <2>2, OpenIsNumbered DEF About
  <2>4. p \in Ptys => pty[p].ch = f.ch /\ pty[p].state = "alive"
    <3>1. NoPty \notin Ptys
      BY NoValueAssumption
    <3> QED BY <2>3, <3>1 DEF Sheltered
  <2> HIDE DEF p, f
  <2> SUFFICES ASSUME NEW q \in Ptys, pty'[q].state # "free"
               PROVE  /\ pty'[q].owner \in Shells /\ shell'[pty'[q].owner].state # "idle" /\ shell'[pty'[q].owner].ch = pty'[q].ch
                      /\ pty'[q].bound \in Shells /\ shell'[pty'[q].bound].state # "idle" /\ shell'[pty'[q].bound].ch = pty'[q].ch
                      /\ pty'[q].state = "spawning" => pty'[q].owner = pty'[q].bound
    BY DEF Served
  <2>5. pty'[q].state = pty[q].state /\ pty'[q].ch = pty[q].ch /\ pty'[q].owner = pty[q].owner
    BY <2>1
  <2>6. \/ pty'[q].bound = pty[q].bound
        \/ pty'[q].bound = f.for /\ pty[q].ch = f.ch /\ pty[q].state = "alive"
    BY <2>1, <2>4
  <2> QED BY <1>s, <2>3, <2>5, <2>6 DEF Served
<1>3. ASSUME NEW c \in Conns, NEW p \in Ptys, RecvOpenNew(c, p)
      PROVE  Served'
  <2> DEFINE f == Head(conn[c].toAgent)
  <2>1. \A q \in Ptys :
                  /\ pty'[q].state = (IF q = p THEN "spawning" ELSE pty[q].state)
                  /\ pty'[q].ch = (IF q = p THEN f.ch ELSE pty[q].ch)
                  /\ pty'[q].attached = (IF q = p THEN FALSE ELSE pty[q].attached)
                  /\ pty'[q].timer = (IF q = p THEN FALSE ELSE pty[q].timer)
                  /\ pty'[q].stray = (IF q = p THEN 0 ELSE pty[q].stray)
                  /\ pty'[q].owner = (IF q = p THEN f.for ELSE pty[q].owner)
                  /\ pty'[q].bound = (IF q = p THEN f.for ELSE pty[q].bound)
    BY <1>3, RecvOpenNewFields, Zenon
  <2>2. conn[c].toAgent # <<>> /\ f.t = "open"
    BY <1>3 DEF RecvOpenNew, Reaches
  <2>3. f.for \in Shells /\ shell[f.for].state # "idle" /\ shell[f.for].ch = f.ch /\ f.ch \in ChannelIds
    BY <2>2, OpenIsNumbered DEF About
  <2> HIDE DEF f
  <2> SUFFICES ASSUME NEW q \in Ptys, pty'[q].state # "free"
               PROVE  /\ pty'[q].owner \in Shells /\ shell'[pty'[q].owner].state # "idle" /\ shell'[pty'[q].owner].ch = pty'[q].ch
                      /\ pty'[q].bound \in Shells /\ shell'[pty'[q].bound].state # "idle" /\ shell'[pty'[q].bound].ch = pty'[q].ch
                      /\ pty'[q].state = "spawning" => pty'[q].owner = pty'[q].bound
    BY DEF Served
  <2>4. CASE q = p
    <3>1. pty'[q].ch = f.ch /\ pty'[q].owner = f.for /\ pty'[q].bound = f.for
      BY <2>1, <2>4
    <3> QED BY <1>s, <2>3, <3>1
  <2>5. CASE q # p
    <3>1. pty'[q].state = pty[q].state /\ pty'[q].ch = pty[q].ch /\ pty'[q].owner = pty[q].owner /\ pty'[q].bound = pty[q].bound
      BY <2>1, <2>5
    <3> QED BY <1>s, <3>1 DEF Served
  <2> QED BY <2>4, <2>5
<1> QED BY <1>1, <1>2, <1>3, OwnersKept

LEMMA ShelteredStep ==
  ASSUME Typed, Numbered, Addressed, Served, Sheltered, [Next]_vars
  PROVE  Sheltered'
<1>0. Unraced({"retryFails"})' => Unraced({"retryFails"})
  BY RacedGrows
<1>t. pty \in [Ptys -> Process] /\ channels \in [ChannelIds -> Ptys \cup {NoPty}] /\ NoPty \notin Ptys
  BY TypesOf, NoValueAssumption DEF Typed
<1>1. ASSUME UNCHANGED <<pty, channels>>
      PROVE  Sheltered'
  BY <1>0, <1>1 DEF Sheltered
<1>2. ASSUME NEW R, Disconnected(R), UNCHANGED channels
      PROVE  Sheltered'
  <2>1. \A q \in Ptys :
           /\ pty'[q].state = pty[q].state
           /\ pty'[q].ch = pty[q].ch
           /\ pty'[q].attached = (pty[q].attached /\ q \notin Held)
           /\ pty'[q].timer = (pty[q].timer \/ q \in Held)
           /\ pty'[q].stray = (IF q \in Held /\ pty[q].timer THEN pty[q].stray + 1 ELSE pty[q].stray)
    BY <1>2, DisconnectedFields
  <2>2. (\E p \in Held : pty[p].timer) => "retryFails" \in raced'
    BY <1>2, DisconnectedFields
  <2>3. \A q \in Ptys : q \in Held => pty[q].state = "alive"
    BY DEF Sheltered, Held
  <2>4. \A q \in Ptys : pty'[q].attached => ~pty'[q].timer
    BY <2>1 DEF Sheltered
  <2>5. \A q \in Ptys : pty'[q].state \in {"free", "spawning"} =>
          ~pty'[q].attached /\ ~pty'[q].timer /\ pty'[q].stray = 0
    <3> SUFFICES ASSUME NEW q \in Ptys, pty'[q].state \in {"free", "spawning"}
                 PROVE  ~pty'[q].attached /\ ~pty'[q].timer /\ pty'[q].stray = 0
      OBVIOUS
    <3>1. pty[q].state \in {"free", "spawning"}
      BY <2>1
    <3>2. ~pty[q].attached /\ ~pty[q].timer /\ pty[q].stray = 0 /\ q \notin Held
      BY <2>3, <3>1 DEF Sheltered
    <3> QED BY <2>1, <3>2
  <2>6. \A i \in ChannelIds : channels'[i] # NoPty =>
          pty'[channels'[i]].ch = i /\ pty'[channels'[i]].state = "alive"
    BY <1>2, <1>t, <2>1 DEF Sheltered
  <2>7. Unraced({"retryFails"})' => \A q \in Ptys : pty'[q].stray = 0
    BY <1>0, <2>1, <2>2 DEF Sheltered, Unraced
  <2> QED BY <2>4, <2>5, <2>6, <2>7 DEF Sheltered
<1>3. CASE UNCHANGED vars
  BY <1>1, <1>3 DEF vars
<1>4. CASE KillDevice
  BY <1>1, <1>4 DEF KillDevice
<1>5. CASE GatewayRestarts
  BY <1>1, <1>5, Zenon DEF GatewayRestarts
<1>6. CASE DialFails
  BY <1>2, <1>6 DEF DialFails
<1>7. CASE AgentRestarts
  <2>1. pty' = [p \in Ptys |-> FreePty] /\ channels' = [i \in ChannelIds |-> NoPty]
    BY <1>7, Zenon DEF AgentRestarts
  <2> QED BY <2>1 DEF Sheltered, FreePty
<1>8. ASSUME NEW c \in Conns, AgentSeesClose(c)
      PROVE  Sheltered'
  <2>1. UNCHANGED channels
    BY <1>8 DEF AgentSeesClose
  <2>2. PICK R : Disconnected(R)
    BY <1>8, Zenon DEF AgentSeesClose
  <2> QED BY <1>2, <2>1, <2>2
<1>9. ASSUME NEW c \in Conns,
             \/ Dial(c) \/ Connected(c) \/ Accept(c) \/ GatewaySeesClose(c) \/ GatewayGraceFires(c)
      PROVE  Sheltered'
  <2>1. UNCHANGED <<pty, channels>>
    BY <1>9, Zenon DEF Dial, Connected, Accept, GatewaySeesClose, GatewayGraceFires
  <2> QED BY <1>1, <2>1
<1>10. ASSUME NEW c \in Conns,
              \/ RecvHello(c) \/ RecvOpened(c) \/ RecvOpenedAndExit(c) \/ RecvError(c) \/ RecvExit(c)
              \/ RecvOpenRefused(c)
       PROVE  Sheltered'
  <2>1. UNCHANGED <<pty, channels>>
    BY <1>10, Zenon DEF RecvHello, RecvOpened, RecvOpenedAndExit, RecvError, RecvExit, RecvOpenRefused
  <2> QED BY <1>1, <2>1
<1>11. ASSUME NEW s \in Shells, OpenShell(s) \/ OpenTimesOut(s) \/ EndShell(s)
       PROVE  Sheltered'
  <2>1. UNCHANGED <<pty, channels>>
    BY <1>11, Zenon DEF OpenShell, OpenTimesOut, EndShell
  <2> QED BY <1>1, <2>1
<1>12. ASSUME NEW c \in Conns, RecvOpenHeld(c)
       PROVE  Sheltered'
  <2> DEFINE f == Head(conn[c].toAgent)
             p == channels[f.ch]
  <2>1. \A q \in Ptys :
                  /\ pty'[q].state = pty[q].state
                  /\ pty'[q].ch = pty[q].ch
                  /\ pty'[q].attached = (IF q = p /\ ~pty[p].attached THEN TRUE ELSE pty[q].attached)
                  /\ pty'[q].timer = (IF q = p /\ ~pty[p].attached THEN FALSE ELSE pty[q].timer)
                  /\ pty'[q].stray = pty[q].stray
                  /\ pty'[q].owner = pty[q].owner
                  /\ pty'[q].bound = (IF q = p /\ ~pty[p].attached THEN f.for ELSE pty[q].bound)
    BY <1>12, RecvOpenHeldFields, Zenon
  <2>2. conn[c].toAgent # <<>> /\ f.t = "open" /\ UNCHANGED channels
    BY <1>12 DEF RecvOpenHeld, Reaches
  <2>3. f.ch \in ChannelIds
    BY <2>2, OpenIsNumbered
  <2>4. p \in Ptys => pty[p].state = "alive"
    BY <1>t, <2>3 DEF Sheltered
  <2> HIDE DEF p, f
  <2>5. \A q \in Ptys : pty'[q].attached => ~pty'[q].timer
    BY <2>1 DEF Sheltered
  <2>6. \A q \in Ptys : pty'[q].state \in {"free", "spawning"} =>
          ~pty'[q].attached /\ ~pty'[q].timer /\ pty'[q].stray = 0
    <3> SUFFICES ASSUME NEW q \in Ptys, pty'[q].state \in {"free", "spawning"}
                 PROVE  ~pty'[q].attached /\ ~pty'[q].timer /\ pty'[q].stray = 0
      OBVIOUS
    <3>1. pty[q].state \in {"free", "spawning"}
      BY <2>1
    <3>2. ~pty[q].attached /\ ~pty[q].timer /\ pty[q].stray = 0 /\ q # p
      BY <2>4, <3>1 DEF Sheltered
    <3> QED BY <2>1, <3>2
  <2>7. \A i \in ChannelIds : channels'[i] # NoPty =>
          pty'[channels'[i]].ch = i /\ pty'[channels'[i]].state = "alive"
    <3> SUFFICES ASSUME NEW i \in ChannelIds, channels'[i] # NoPty
                 PROVE  pty'[channels'[i]].ch = i /\ pty'[channels'[i]].state = "alive"
      OBVIOUS
    <3>1. channels'[i] = channels[i] /\ channels[i] \in Ptys
      BY <1>t, <2>2
    <3>2. pty[channels[i]].ch = i /\ pty[channels[i]].state = "alive"
      BY <3>1 DEF Sheltered
    <3>3. pty'[channels[i]].ch = pty[channels[i]].ch /\ pty'[channels[i]].state = pty[channels[i]].state
      BY <2>1, <3>1, <3>2
    <3> QED BY <3>1, <3>2, <3>3
  <2>8. Unraced({"retryFails"})' => \A q \in Ptys : pty'[q].stray = 0
    BY <1>0, <2>1 DEF Sheltered
  <2> QED BY <2>5, <2>6, <2>7, <2>8 DEF Sheltered
<1>13. ASSUME NEW c \in Conns, NEW p \in Ptys, RecvOpenNew(c, p)
       PROVE  Sheltered'
  <2> DEFINE f == Head(conn[c].toAgent)
  <2>1. \A q \in Ptys :
                  /\ pty'[q].state = (IF q = p THEN "spawning" ELSE pty[q].state)
                  /\ pty'[q].ch = (IF q = p THEN f.ch ELSE pty[q].ch)
                  /\ pty'[q].attached = (IF q = p THEN FALSE ELSE pty[q].attached)
                  /\ pty'[q].timer = (IF q = p THEN FALSE ELSE pty[q].timer)
                  /\ pty'[q].stray = (IF q = p THEN 0 ELSE pty[q].stray)
                  /\ pty'[q].owner = (IF q = p THEN f.for ELSE pty[q].owner)
                  /\ pty'[q].bound = (IF q = p THEN f.for ELSE pty[q].bound)
    BY <1>13, RecvOpenNewFields, Zenon
  <2>2. UNCHANGED channels /\ pty[p].state = "free"
    BY <1>13 DEF RecvOpenNew
  <2> HIDE DEF f
  <2>5. \A q \in Ptys : pty'[q].attached => ~pty'[q].timer
    BY <2>1 DEF Sheltered
  <2>6. \A q \in Ptys : pty'[q].state \in {"free", "spawning"} =>
          ~pty'[q].attached /\ ~pty'[q].timer /\ pty'[q].stray = 0
    BY <2>1, ZenonT(60) DEF Sheltered
  <2>7. \A i \in ChannelIds : channels'[i] # NoPty =>
          pty'[channels'[i]].ch = i /\ pty'[channels'[i]].state = "alive"
    <3> SUFFICES ASSUME NEW i \in ChannelIds, channels'[i] # NoPty
                 PROVE  pty'[channels'[i]].ch = i /\ pty'[channels'[i]].state = "alive"
      OBVIOUS
    <3>1. channels'[i] = channels[i] /\ channels[i] \in Ptys
      BY <1>t, <2>2
    <3>2. pty[channels[i]].ch = i /\ pty[channels[i]].state = "alive" /\ channels[i] # p
      BY <2>2, <3>1 DEF Sheltered
    <3>3. pty'[channels[i]].ch = pty[channels[i]].ch /\ pty'[channels[i]].state = pty[channels[i]].state
      BY <2>1, <3>1, <3>2
    <3> QED BY <3>1, <3>2, <3>3
  <2>8. Unraced({"retryFails"})' => \A q \in Ptys : pty'[q].stray = 0
    BY <1>0, <2>1 DEF Sheltered
  <2> QED BY <2>5, <2>6, <2>7, <2>8 DEF Sheltered
<1>14. ASSUME NEW c \in Conns, RecvClose(c)
       PROVE  Sheltered'
  <2> DEFINE f == Head(conn[c].toAgent)
  <2>1. \A x \in Ptys :
                  /\ x # channels[f.ch] => pty'[x] = pty[x]
                  /\ x = channels[f.ch] =>
                       /\ pty'[x].state = (IF pty[x].state = "alive" THEN "killed" ELSE pty[x].state)
                       /\ pty'[x].ch = pty[x].ch /\ pty'[x].attached = pty[x].attached
                       /\ pty'[x].timer = FALSE /\ pty'[x].stray = pty[x].stray
                       /\ pty'[x].owner = pty[x].owner /\ pty'[x].bound = pty[x].bound
    BY <1>14, RecvCloseEffect
  <2>2. conn[c].toAgent # <<>> /\ f.t = "close"
    BY <1>14 DEF RecvClose, Reaches
  <2>3. f.ch \in ChannelIds
    BY <2>2, OpenIsNumbered
  <2>4. \A i \in ChannelIds : channels'[i] = IF i = f.ch THEN NoPty ELSE channels[i]
    BY <1>14, RecvCloseEffect
  <2> HIDE DEF f
  <2>5. \A q \in Ptys : pty'[q].attached => ~pty'[q].timer
    BY <2>1 DEF Sheltered
  <2>6. \A q \in Ptys : pty'[q].state \in {"free", "spawning"} =>
          ~pty'[q].attached /\ ~pty'[q].timer /\ pty'[q].stray = 0
    BY <2>1 DEF Sheltered
  <2>7. \A i \in ChannelIds : channels'[i] # NoPty =>
          pty'[channels'[i]].ch = i /\ pty'[channels'[i]].state = "alive"
    <3> SUFFICES ASSUME NEW i \in ChannelIds, channels'[i] # NoPty
                 PROVE  pty'[channels'[i]].ch = i /\ pty'[channels'[i]].state = "alive"
      OBVIOUS
    <3>1. i # f.ch /\ channels'[i] = channels[i] /\ channels[i] \in Ptys
      BY <1>t, <2>4
    <3>2. pty[channels[i]].ch = i /\ pty[channels[i]].state = "alive" /\ channels[i] # channels[f.ch]
      BY <1>t, <2>3, <3>1 DEF Sheltered
    <3> QED BY <2>1, <3>1, <3>2
  <2>8. Unraced({"retryFails"})' => \A q \in Ptys : pty'[q].stray = 0
    BY <1>0, <2>1 DEF Sheltered
  <2> QED BY <2>5, <2>6, <2>7, <2>8 DEF Sheltered
<1>15. ASSUME NEW c \in Conns, RecvKill(c)
       PROVE  Sheltered'
  <2>1. \A x \in Ptys :
              /\ x \notin Held => pty'[x] = pty[x]
              /\ x \in Held =>
                   /\ pty'[x].state = (IF pty[x].state = "alive" THEN "killed" ELSE pty[x].state)
                   /\ pty'[x].ch = pty[x].ch /\ pty'[x].attached = pty[x].attached
                   /\ pty'[x].timer = FALSE /\ pty'[x].stray = pty[x].stray
                   /\ pty'[x].owner = pty[x].owner /\ pty'[x].bound = pty[x].bound
    BY <1>15, RecvKillEffect, Zenon
  <2>2. \A i \in ChannelIds : channels'[i] = NoPty
    BY <1>15, RecvKillEffect, Zenon
  <2>5. \A q \in Ptys : pty'[q].attached => ~pty'[q].timer
    BY <2>1 DEF Sheltered
  <2>6. \A q \in Ptys : pty'[q].state \in {"free", "spawning"} =>
          ~pty'[q].attached /\ ~pty'[q].timer /\ pty'[q].stray = 0
    BY <2>1 DEF Sheltered
  <2>8. Unraced({"retryFails"})' => \A q \in Ptys : pty'[q].stray = 0
    BY <1>0, <2>1 DEF Sheltered
  <2> QED BY <2>2, <2>5, <2>6, <2>8 DEF Sheltered
<1>16. ASSUME NEW p \in Ptys, Spawned(p)
       PROVE  Sheltered'
  <2>1. /\ pty[p].state = "spawning"
        /\ \A q \in Ptys :
                  /\ pty'[q].state = (IF q = p THEN "alive" ELSE pty[q].state)
                  /\ pty'[q].ch = pty[q].ch
                  /\ pty'[q].attached = (IF q = p THEN TRUE ELSE pty[q].attached)
                  /\ pty'[q].timer = pty[q].timer
                  /\ pty'[q].stray = pty[q].stray
                  /\ pty'[q].owner = pty[q].owner
                  /\ pty'[q].bound = pty[q].bound
    BY <1>16, SpawnedFields
  <2>2. pty[p].ch \in ChannelIds
    BY <2>1, PtyIsNumbered
  <2>3. channels' = [channels EXCEPT ![pty[p].ch] = p]
    BY <1>16 DEF Spawned
  <2>4. \A i \in ChannelIds : channels'[i] = IF i = pty[p].ch THEN p ELSE channels[i]
    BY <1>t, <2>3
  <2>5. \A q \in Ptys : pty'[q].attached => ~pty'[q].timer
    BY <2>1 DEF Sheltered
  <2>6. \A q \in Ptys : pty'[q].state \in {"free", "spawning"} =>
          ~pty'[q].attached /\ ~pty'[q].timer /\ pty'[q].stray = 0
    BY <2>1, ZenonT(40) DEF Sheltered
  <2>7. \A i \in ChannelIds : channels'[i] # NoPty =>
          pty'[channels'[i]].ch = i /\ pty'[channels'[i]].state = "alive"
    <3> SUFFICES ASSUME NEW i \in ChannelIds, channels'[i] # NoPty
                 PROVE  pty'[channels'[i]].ch = i /\ pty'[channels'[i]].state = "alive"
      OBVIOUS
    <3>1. CASE i = pty[p].ch
      <4>1. channels'[i] = p /\ pty'[p].ch = i /\ pty'[p].state = "alive"
        BY <2>1, <2>4, <3>1
      <4> QED BY <4>1
    <3>2. CASE i # pty[p].ch
      <4>1. channels'[i] = channels[i] /\ channels[i] \in Ptys
        BY <1>t, <2>4, <3>2
      <4>2. pty[channels[i]].ch = i /\ pty[channels[i]].state = "alive" /\ channels[i] # p
        BY <2>1, <4>1 DEF Sheltered
      <4>3. pty'[channels[i]].ch = pty[channels[i]].ch /\ pty'[channels[i]].state = pty[channels[i]].state
        BY <2>1, <4>1, <4>2
      <4> QED BY <4>1, <4>2, <4>3
    <3> QED BY <3>1, <3>2
  <2>8. Unraced({"retryFails"})' => \A q \in Ptys : pty'[q].stray = 0
    BY <1>0, <2>1, ZenonT(60) DEF Sheltered
  <2> QED BY <2>5, <2>6, <2>7, <2>8 DEF Sheltered
<1>17. ASSUME NEW p \in Ptys, SpawnFails(p)
       PROVE  Sheltered'
  <2>1. /\ pty[p].state = "spawning"
        /\ \A q \in Ptys :
                  /\ pty'[q].state = (IF q = p THEN "free" ELSE pty[q].state)
                  /\ pty'[q].ch = (IF q = p THEN 0 ELSE pty[q].ch)
                  /\ pty'[q].attached = (IF q = p THEN FALSE ELSE pty[q].attached)
                  /\ pty'[q].timer = (IF q = p THEN FALSE ELSE pty[q].timer)
                  /\ pty'[q].stray = (IF q = p THEN 0 ELSE pty[q].stray)
                  /\ pty'[q].owner = (IF q = p THEN NoShell ELSE pty[q].owner)
                  /\ pty'[q].bound = (IF q = p THEN NoShell ELSE pty[q].bound)
    BY <1>17, SpawnFailsFields
  <2>2. UNCHANGED channels
    BY <1>17 DEF SpawnFails
  <2>5. \A q \in Ptys : pty'[q].attached => ~pty'[q].timer
    BY <2>1 DEF Sheltered
  <2>6. \A q \in Ptys : pty'[q].state \in {"free", "spawning"} =>
          ~pty'[q].attached /\ ~pty'[q].timer /\ pty'[q].stray = 0
    BY <2>1, ZenonT(40) DEF Sheltered
  <2>7. \A i \in ChannelIds : channels'[i] # NoPty =>
          pty'[channels'[i]].ch = i /\ pty'[channels'[i]].state = "alive"
    <3> SUFFICES ASSUME NEW i \in ChannelIds, channels'[i] # NoPty
                 PROVE  pty'[channels'[i]].ch = i /\ pty'[channels'[i]].state = "alive"
      OBVIOUS
    <3>1. channels'[i] = channels[i] /\ channels[i] \in Ptys
      BY <1>t, <2>2
    <3>2. pty[channels[i]].ch = i /\ pty[channels[i]].state = "alive" /\ channels[i] # p
      BY <2>1, <3>1 DEF Sheltered
    <3>3. pty'[channels[i]].ch = pty[channels[i]].ch /\ pty'[channels[i]].state = pty[channels[i]].state
      BY <2>1, <3>1, <3>2
    <3> QED BY <3>1, <3>2, <3>3
  <2>8. Unraced({"retryFails"})' => \A q \in Ptys : pty'[q].stray = 0
    BY <1>0, <2>1 DEF Sheltered
  <2> QED BY <2>5, <2>6, <2>7, <2>8 DEF Sheltered
<1>18. ASSUME NEW p \in Ptys, PtyExits(p)
       PROVE  Sheltered'
  <2> DEFINE ch == pty[p].ch
  <2>1. /\ pty[p].state \in {"alive", "killed"}
        /\ \A x \in Ptys :
                  \/ pty'[x] = FreePty /\ (x = p \/ pty[x].state = "dead")
                  \/ /\ pty'[x].state = (IF x = p THEN "dead" ELSE pty[x].state)
                     /\ pty'[x].ch = pty[x].ch /\ pty'[x].attached = pty[x].attached
                     /\ pty'[x].timer = (pty[x].timer /\ x # channels[ch])
                     /\ pty'[x].stray = pty[x].stray
                     /\ pty'[x].owner = pty[x].owner /\ pty'[x].bound = pty[x].bound
    BY <1>18, PtyExitsEffect
  <2>2. FreePty.state = "free" /\ ~FreePty.attached /\ ~FreePty.timer /\ FreePty.stray = 0
    BY DEF FreePty
  <2>3. \A i \in ChannelIds : channels'[i] = IF i = ch THEN NoPty ELSE channels[i]
    BY <1>18, PtyExitsEffect
  <2>5. \A q \in Ptys : pty'[q].attached => ~pty'[q].timer
    BY <2>1, <2>2 DEF Sheltered
  <2>6. \A q \in Ptys : pty'[q].state \in {"free", "spawning"} =>
          ~pty'[q].attached /\ ~pty'[q].timer /\ pty'[q].stray = 0
    BY <2>1, <2>2, ZenonT(40) DEF Sheltered
  <2>7. \A i \in ChannelIds : channels'[i] # NoPty =>
          pty'[channels'[i]].ch = i /\ pty'[channels'[i]].state = "alive"
    <3> SUFFICES ASSUME NEW i \in ChannelIds, channels'[i] # NoPty
                 PROVE  pty'[channels'[i]].ch = i /\ pty'[channels'[i]].state = "alive"
      OBVIOUS
    <3>1. i # ch /\ channels'[i] = channels[i] /\ channels[i] \in Ptys
      BY <1>t, <2>3
    <3>2. pty[channels[i]].ch = i /\ pty[channels[i]].state = "alive" /\ channels[i] # p
      BY <3>1 DEF Sheltered
    <3> QED BY <2>1, <3>1, <3>2
  <2>8. Unraced({"retryFails"})' => \A q \in Ptys : pty'[q].stray = 0
    BY <1>0, <2>1, <2>2 DEF Sheltered
  <2> QED BY <2>5, <2>6, <2>7, <2>8 DEF Sheltered
<1>19. ASSUME NEW p \in Ptys, AgentGraceFires(p)
       PROVE  Sheltered'
  <2>1. \A x \in Ptys :
              \/ pty'[x] = FreePty /\ pty[x].state = "dead"
              \/ /\ pty'[x].state = (IF x = p /\ pty[x].state = "alive" THEN "killed" ELSE pty[x].state)
                 /\ pty'[x].ch = pty[x].ch /\ pty'[x].attached = pty[x].attached
                 /\ x # p => pty'[x].timer = (pty[x].timer /\ x # channels[pty[p].ch])
                 /\ x # p => pty'[x].stray = pty[x].stray
                 /\ pty'[x].owner = pty[x].owner /\ pty'[x].bound = pty[x].bound
                 /\ pty'[x].stray <= pty[x].stray
                 /\ pty'[x].timer => pty[x].timer
                 /\ x = p /\ pty[p].stray = 0 => ~pty'[x].timer
    BY <1>19, AgentGraceFiresEffect
  <2>2. FreePty.state = "free" /\ ~FreePty.attached /\ ~FreePty.timer /\ FreePty.stray = 0
    BY DEF FreePty
  <2>3. \A i \in ChannelIds : channels'[i] = IF i = pty[p].ch THEN NoPty ELSE channels[i]
    BY <1>19, AgentGraceFiresEffect
  <2>t. pty' \in [Ptys -> Process] /\ (pty[p].timer \/ pty[p].stray > 0)
    BY <1>19, AgentGraceFiresEffect, TypesOfNext
  <2>4. pty[p].state \notin {"free", "spawning"}
    BY <1>t, <2>t DEF Sheltered
  <2>5. \A q \in Ptys : pty'[q].attached => ~pty'[q].timer
    BY <2>1, <2>2 DEF Sheltered
  <2>6. \A q \in Ptys : pty'[q].state \in {"free", "spawning"} =>
          ~pty'[q].attached /\ ~pty'[q].timer /\ pty'[q].stray = 0
    BY <2>1, <2>2, <2>4 DEF Sheltered
  <2>7. \A i \in ChannelIds : channels'[i] # NoPty =>
          pty'[channels'[i]].ch = i /\ pty'[channels'[i]].state = "alive"
    <3> SUFFICES ASSUME NEW i \in ChannelIds, channels'[i] # NoPty
                 PROVE  pty'[channels'[i]].ch = i /\ pty'[channels'[i]].state = "alive"
      OBVIOUS
    <3>1. i # pty[p].ch /\ channels'[i] = channels[i] /\ channels[i] \in Ptys
      BY <1>t, <2>3
    <3>2. pty[channels[i]].ch = i /\ pty[channels[i]].state = "alive" /\ channels[i] # p
      BY <3>1 DEF Sheltered
    <3> QED BY <2>1, <3>1, <3>2
  <2>8. Unraced({"retryFails"})' => \A q \in Ptys : pty'[q].stray = 0
    <3> SUFFICES ASSUME Unraced({"retryFails"}), NEW q \in Ptys
                 PROVE  pty'[q].stray = 0
      BY <1>0
    <3>1. pty[q].stray = 0
      BY DEF Sheltered
    <3>2. pty'[q].stray \in 0 .. MaxStray /\ (pty'[q] = FreePty \/ pty'[q].stray <= pty[q].stray)
      BY <2>1, <2>t DEF Process
    <3> QED BY <2>2, <3>1, <3>2, BoundsAssumption
  <2> QED BY <2>5, <2>6, <2>7, <2>8 DEF Sheltered
<1> QED
  BY <1>3, <1>4, <1>5, <1>6, <1>7, <1>8, <1>9, <1>10, <1>11, <1>12, <1>13, <1>14, <1>15, <1>16, <1>17, <1>18, <1>19 DEF Next

\* What every behaviour of the two ends keeps, whatever has gone wrong.
Base == Typed /\ Registered /\ Wired /\ Numbered /\ Addressed /\ Served /\ Sheltered

LEMMA BaseAtStart ==
  ASSUME Init
  PROVE  Base
<1>1. Typed
  BY TypedAtStart
<1>2. Registered
  BY DEF Init, Registered, FreshDevice
<1>3. /\ \A c \in Conns : conn[c] = Unused
      /\ tunnel = 0 /\ devices = 0
      /\ \A d \in Conns : device[d] = FreshDevice(0)
      /\ \A s \in Shells : shell[s] = UnopenedShell
      /\ \A i \in ChannelIds : channels[i] = NoPty
      /\ \A p \in Ptys : pty[p] = FreePty
  BY DEF Init
<1>4. Ends
  BY <1>3, ConnNotZero DEF Ends, Unused
<1>5. Sockets
  BY <1>3 DEF Sockets, Unused, FreshDevice
<1>6. Numbered
  BY <1>3 DEF Numbered, UnopenedShell
<1>7. Addressed
  BY <1>3, InEmpty, ForGatewayEmpty DEF Addressed, Unused
<1>8. Served
  BY <1>3 DEF Served, FreePty
<1>9. Sheltered
  BY <1>3 DEF Sheltered, FreePty
<1> QED BY <1>1, <1>2, <1>4, <1>5, <1>6, <1>7, <1>8, <1>9 DEF Base, Wired

LEMMA BaseStep ==
  ASSUME Base, [Next]_vars
  PROVE  Base'
<1>1. Typed'
  BY TypedStep DEF Base
<1>2. Registered'
  BY RegisteredStep DEF Base
<1>3. Wired'
  BY <1>1, WiredStep DEF Base
<1>4. Numbered'
  BY NumberedStep DEF Base
<1>5. Addressed'
  <2>1. \A c \in Conns : \A f \in In(conn'[c].toAgent) : ForAgent(f, c)'
    BY <1>3, AddressedToAgentStep DEF Base
  <2>2. \A c \in Conns : ForGateway(conn'[c].toGateway)
    BY AddressedToGatewayStep DEF Base
  <2> QED BY <2>1, <2>2 DEF Addressed
<1>6. Served'
  BY ServedStep DEF Base
<1>7. Sheltered'
  BY ShelteredStep DEF Base
<1> QED BY <1>1, <1>2, <1>3, <1>4, <1>5, <1>6, <1>7 DEF Base

LEMMA KilledStep ==
  ASSUME Base, [Next]_vars, Unraced({"retryFails"}), NEW p \in Ptys,
         pty[p].state = "alive", pty[p].attached, pty'[p].state = "killed"
  PROVE  conn' # conn
<1>0. conn \in ConnTable
  BY TypesOf DEF Base, Typed
<1>1. pty' # pty
  OBVIOUS
<1>2. ASSUME NEW R, Disconnected(R)
      PROVE  FALSE
  BY <1>2, DisconnectedFields DEF Base
<1>3. CASE UNCHANGED vars
  BY <1>1, <1>3 DEF vars
<1>4. CASE KillDevice
  BY <1>1, <1>4 DEF KillDevice
<1>5. CASE GatewayRestarts
  BY <1>1, <1>5, Zenon DEF GatewayRestarts
<1>6. CASE DialFails
  BY <1>2, <1>6 DEF DialFails
<1>7. CASE AgentRestarts
  BY <1>7, Zenon DEF AgentRestarts, FreePty
<1>8. ASSUME NEW c \in Conns, AgentSeesClose(c)
      PROVE  FALSE
  <2>1. PICK R : Disconnected(R)
    BY <1>8, Zenon DEF AgentSeesClose
  <2> QED BY <1>2, <2>1
<1>9. ASSUME NEW c \in Conns,
             \/ Dial(c) \/ Connected(c) \/ Accept(c) \/ GatewaySeesClose(c) \/ GatewayGraceFires(c)
      PROVE  FALSE
  <2>1. UNCHANGED pty
    BY <1>9, Zenon DEF Dial, Connected, Accept, GatewaySeesClose, GatewayGraceFires
  <2> QED BY <1>1, <2>1
<1>10. ASSUME NEW c \in Conns,
              \/ RecvHello(c) \/ RecvOpened(c) \/ RecvOpenedAndExit(c) \/ RecvError(c) \/ RecvExit(c)
              \/ RecvOpenRefused(c)
       PROVE  FALSE
  <2>1. UNCHANGED pty
    BY <1>10, Zenon DEF RecvHello, RecvOpened, RecvOpenedAndExit, RecvError, RecvExit, RecvOpenRefused
  <2> QED BY <1>1, <2>1
<1>11. ASSUME NEW s \in Shells, OpenShell(s) \/ OpenTimesOut(s) \/ EndShell(s)
       PROVE  FALSE
  <2>1. UNCHANGED pty
    BY <1>11, Zenon DEF OpenShell, OpenTimesOut, EndShell
  <2> QED BY <1>1, <2>1
<1>12. ASSUME NEW c \in Conns, RecvOpenHeld(c)
       PROVE  FALSE
  BY <1>12, RecvOpenHeldFields DEF Base
<1>13. ASSUME NEW c \in Conns, NEW q \in Ptys, RecvOpenNew(c, q)
       PROVE  FALSE
  BY <1>13, RecvOpenNewFields DEF Base
<1>14. ASSUME NEW c \in Conns, RecvClose(c)
       PROVE  conn' # conn
  <2>1. conn[c].toAgent # <<>> /\ conn'[c].toAgent = Tail(conn[c].toAgent)
    BY <1>14, RecvCloseFields DEF Base
  <2>2. conn[c].toAgent \in Seq(Frames)
    BY <1>0 DEF ConnTable, Connection
  <2>3. \A q \in Seq(Frames) : q # <<>> => Tail(q) # q
    <3> SUFFICES ASSUME NEW q \in Seq(Frames), q # <<>>, Tail(q) = q
                 PROVE  FALSE
      OBVIOUS
    <3>1. Len(q) = Len(q) - 1 /\ Len(q) \in Nat
      BY HeadTailProperties, LenProperties, Zenon
    <3> QED BY <3>1
  <2> QED BY <2>1, <2>2, <2>3
<1>15. ASSUME NEW c \in Conns, RecvKill(c)
       PROVE  conn' # conn
  BY <1>15, RecvKillFields DEF Base
<1>16. ASSUME NEW q \in Ptys, Spawned(q)
       PROVE  FALSE
  BY <1>16, SpawnedFields DEF Base
<1>17. ASSUME NEW q \in Ptys, SpawnFails(q)
       PROVE  FALSE
  BY <1>17, SpawnFailsFields DEF Base
<1>18. ASSUME NEW q \in Ptys, PtyExits(q)
       PROVE  FALSE
  <2>1. \/ pty'[p] = FreePty
        \/ pty'[p].state = (IF p = q THEN "dead" ELSE pty[p].state)
    BY <1>18, PtyExitsEffect DEF Base
  <2> QED BY <2>1 DEF FreePty
<1>19. ASSUME NEW q \in Ptys, AgentGraceFires(q)
       PROVE  FALSE
  <2>1. /\ pty[q].timer \/ pty[q].stray > 0
        /\ \/ pty'[p] = FreePty
           \/ pty'[p].state = (IF p = q /\ pty[p].state = "alive" THEN "killed" ELSE pty[p].state)
    BY <1>19, AgentGraceFiresEffect DEF Base
  <2>2. p = q
    BY <2>1 DEF FreePty
  <2>3. ~pty[p].timer /\ pty[p].stray = 0
    BY DEF Base, Sheltered
  <2> QED BY <2>1, <2>2, <2>3
<1> QED
  BY <1>3, <1>4, <1>5, <1>6, <1>7, <1>8, <1>9, <1>10, <1>11, <1>12, <1>13, <1>14, <1>15, <1>16, <1>17, <1>18, <1>19 DEF Next

\* While a process is attached nothing but a close or a kill of the gateway has
\* the agent kill it, unless a failed retry has left a timer that runs on
\* (channels.ts detachAll, resume, close, closeAll).
THEOREM ResumedShellSurvivesHolds == Spec => ResumedShellSurvivesUnlessRaced
<1>1. Init => Base
  BY BaseAtStart
<1>2. Base /\ [Next]_vars => Base'
  BY BaseStep
<1>3. Base /\ [Next]_vars => [Unraced({"retryFails"}) => KilledOnRequest]_vars
  BY KilledStep DEF KilledOnRequest, Alive
<1> QED BY <1>1, <1>2, <1>3, PTL DEF Spec, ResumedShellSurvivesUnlessRaced

=============================================================================
