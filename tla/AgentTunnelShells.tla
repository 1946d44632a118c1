-------------------------- MODULE AgentTunnelShells --------------------------
(***************************************************************************)
(* More theorems about AgentTunnel: which frames wait for whom, which      *)
(* process is behind a terminal, and what ends without the other.          *)
(***************************************************************************)
EXTENDS AgentTunnelProofs

-----------------------------------------------------------------------------
(* What a step does to the two queues of a connection.                       *)

\* The agent reads a frame of connection x.
Takes(x) ==
  \/ RecvOpenHeld(x) \/ RecvOpenRefused(x) \/ RecvClose(x) \/ RecvKill(x)
  \/ \E p \in Ptys : RecvOpenNew(x, p)
\* Nothing is sent: the agent reads a frame, or its end of the connection goes.
ReadByAgent(x) ==
  \/ conn'[x].toAgent = conn[x].toAgent
  \/ conn'[x].toAgent = <<>> /\ conn'[x].agent \in {"closed", "unused"}
  \/ /\ Takes(x) /\ conn[x].agent = "open" /\ conn[x].toAgent # <<>>
     /\ conn'[x].toAgent = Tail(conn[x].toAgent)

SentKill(x) ==
  /\ KillDevice /\ x = device[devices].socket
  /\ \E f \in Frames : f.t = "kill" /\ conn'[x].toAgent = Append(conn[x].toAgent, f)
SentClose(x, s) ==
  /\ EndShell(s) /\ shell[s].listed /\ x = device[shell[s].device].socket
  /\ \E f \in Frames : /\ f.t = "close" /\ f.ch = shell[s].ch /\ f.for = s
                       /\ conn'[x].toAgent = Append(conn[x].toAgent, f)
SentOpen(x, s) ==
  /\ OpenShell(s) /\ x = device[devices].socket
  /\ \E f \in Frames : /\ f.t = "open" /\ f.ch = device[devices].next /\ f.for = s
                       /\ conn'[x].toAgent = Append(conn[x].toAgent, f)
SentResume(x, c) ==
  /\ RecvHello(c) /\ x = device[conn[c].device].socket
  /\ \E ids \in InOrder(ListedIds(conn[c].device)) :
       conn'[x].toAgent = conn[x].toAgent \o ResumeFrames(conn[c].device, ids)

LEMMA ToAgentStep ==
  ASSUME Typed, [Next]_vars
  PROVE  \A x \in Conns :
           \/ ReadByAgent(x) \/ SentKill(x)
           \/ \E s \in Shells : SentClose(x, s) \/ SentOpen(x, s)
           \/ \E c \in Conns : SentResume(x, c)
<1> DEFINE Quietly == \A x \in Conns : ReadByAgent(x)
<1>1. CASE UNCHANGED conn
  BY <1>1 DEF ReadByAgent
<1>2. CASE UNCHANGED vars
  BY <1>1, <1>2 DEF vars
<1>3. CASE DialFails
  BY <1>3, DialFailsFields DEF ReadByAgent
<1>4. CASE AgentRestarts
  BY <1>4, AgentRestartsFields DEF ReadByAgent
<1>5. CASE GatewayRestarts
  BY <1>5, GatewayRestartsFields DEF ReadByAgent
<1>6. ASSUME NEW c \in Conns, Dial(c)
      PROVE  Quietly
  BY <1>6, DialFields DEF ReadByAgent
<1>7. ASSUME NEW c \in Conns, Connected(c)
      PROVE  Quietly
  BY <1>7, ConnectedFields DEF ReadByAgent
<1>8. ASSUME NEW c \in Conns, AgentSeesClose(c)
      PROVE  Quietly
  BY <1>8, AgentSeesCloseFields DEF ReadByAgent
<1>9. ASSUME NEW c \in Conns, Accept(c)
      PROVE  Quietly
  BY <1>9, AcceptFields DEF ReadByAgent
<1>10. ASSUME NEW c \in Conns, GatewaySeesClose(c)
       PROVE  Quietly
  BY <1>10, GatewaySeesCloseFields DEF ReadByAgent
<1>11. ASSUME NEW c \in Conns, GatewayGraceFires(c)
       PROVE  Quietly
  BY <1>1, <1>11 DEF GatewayGraceFires, ReadByAgent
<1>12. ASSUME NEW c \in Conns, RecvOpened(c)
       PROVE  Quietly
  BY <1>12, RecvOpenedFields DEF ReadByAgent
<1>13. ASSUME NEW c \in Conns, RecvOpenedAndExit(c)
       PROVE  Quietly
  BY <1>13, RecvOpenedAndExitFields DEF ReadByAgent
<1>14. ASSUME NEW c \in Conns, RecvError(c)
       PROVE  Quietly
  BY <1>14, RecvErrorFields DEF ReadByAgent
<1>15. ASSUME NEW c \in Conns, RecvExit(c)
       PROVE  Quietly
  BY <1>15, RecvExitFields DEF ReadByAgent
<1>16. ASSUME NEW c \in Conns, RecvOpenHeld(c)
       PROVE  Quietly
  BY <1>16, RecvOpenHeldEffect, Zenon DEF ReadByAgent, Takes
<1>17. ASSUME NEW c \in Conns, RecvOpenRefused(c)
       PROVE  Quietly
  BY <1>17, RecvOpenRefusedEffect DEF ReadByAgent, Takes
<1>18. ASSUME NEW c \in Conns, RecvClose(c)
       PROVE  Quietly
  BY <1>18, RecvCloseFields DEF ReadByAgent, Takes
<1>19. ASSUME NEW c \in Conns, RecvKill(c)
       PROVE  Quietly
  BY <1>19, RecvKillFields DEF ReadByAgent, Takes
<1>20. ASSUME NEW c \in Conns, NEW p \in Ptys, RecvOpenNew(c, p)
       PROVE  Quietly
  BY <1>20, RecvOpenNewFields DEF ReadByAgent, Takes
<1>21. ASSUME NEW s \in Shells, OpenTimesOut(s)
       PROVE  Quietly
  BY <1>1, <1>21 DEF OpenTimesOut, ReadByAgent
<1>22. ASSUME NEW p \in Ptys, Spawned(p)
       PROVE  Quietly
  BY <1>22, SpawnedFields DEF ReadByAgent
<1>23. ASSUME NEW p \in Ptys, SpawnFails(p)
       PROVE  Quietly
  BY <1>23, SpawnFailsFields DEF ReadByAgent
<1>24. ASSUME NEW p \in Ptys, PtyExits(p)
       PROVE  Quietly
  BY <1>24, PtyExitsFields DEF ReadByAgent
<1>25. ASSUME NEW p \in Ptys, AgentGraceFires(p)
       PROVE  Quietly
  BY <1>1, <1>25 DEF AgentGraceFires, ReadByAgent
<1>26. CASE KillDevice
  <2>1. \A x \in Conns :
          \/ conn'[x].toAgent = conn[x].toAgent
          \/ /\ x = device[devices].socket
             /\ conn'[x].toAgent = IF conn[x].agent = "closed" THEN conn[x].toAgent
                                   ELSE Append(conn[x].toAgent, Frame("kill", 0, NoShell))
    BY <1>26, KillDeviceEffect, Zenon
  <2>2. Frame("kill", 0, NoShell) \in Frames /\ Frame("kill", 0, NoShell).t = "kill"
    BY FrameType, CardType
  <2> DEFINE g == Frame("kill", 0, NoShell)
  <2> HIDE DEF g
  <2>3. \A x \in Conns :
          \/ conn'[x].toAgent = conn[x].toAgent
          \/ x = device[devices].socket /\ conn'[x].toAgent = Append(conn[x].toAgent, g)
    BY <2>1 DEF g
  <2>4. g \in Frames /\ g.t = "kill"
    BY <2>2 DEF g
  <2> QED BY <1>26, <2>3, <2>4 DEF ReadByAgent, SentKill
<1>27. ASSUME NEW s \in Shells, OpenShell(s)
       PROVE  \A x \in Conns : ReadByAgent(x) \/ SentOpen(x, s)
  <2> DEFINE g == Frame("open", device[devices].next, s)
  <2>1. /\ g \in Frames /\ g.t = "open" /\ g.ch = device[devices].next /\ g.for = s
        /\ \A y \in Conns :
             /\ conn'[y].agent = conn[y].agent
             /\ conn'[y].gateway = conn[y].gateway
             /\ conn'[y].device = conn[y].device
             /\ conn'[y].toAgent = (IF y = device[devices].socket /\ conn[y].gateway = "open" /\ conn[y].agent # "closed" THEN Append(conn[y].toAgent, g) ELSE conn[y].toAgent)
             /\ conn'[y].toGateway = conn[y].toGateway
    BY <1>27, OpenShellFields, Zenon
  <2> HIDE DEF g
  <2> QED BY <1>27, <2>1 DEF ReadByAgent, SentOpen
<1>28. ASSUME NEW s \in Shells, EndShell(s)
       PROVE  \A x \in Conns : ReadByAgent(x) \/ SentClose(x, s)
  <2> DEFINE g == Frame("close", shell[s].ch, s)
  <2>1. /\ g \in Frames /\ g.t = "close" /\ g.ch = shell[s].ch /\ g.for = s
        /\ \A y \in Conns :
             /\ conn'[y].agent = conn[y].agent
             /\ conn'[y].gateway = conn[y].gateway
             /\ conn'[y].device = conn[y].device
             /\ conn'[y].toAgent = (IF shell[s].listed /\ y = device[shell[s].device].socket /\ conn[y].gateway = "open" /\ conn[y].agent # "closed" THEN Append(conn[y].toAgent, g) ELSE conn[y].toAgent)
             /\ conn'[y].toGateway = conn[y].toGateway
    BY <1>28, EndShellFields, Zenon
  <2> HIDE DEF g
  <2> QED BY <1>28, <2>1 DEF ReadByAgent, SentClose
<1>29. ASSUME NEW c \in Conns, RecvHello(c)
       PROVE  \A x \in Conns : ReadByAgent(x) \/ SentResume(x, c)
  <2> DEFINE d == conn[c].device
  <2>1. \E ids \in InOrder(ListedIds(d)) :
          \A y \in Conns :
            /\ conn'[y].agent = conn[y].agent /\ conn'[y].gateway = conn[y].gateway
            /\ conn'[y].device = conn[y].device
            /\ conn'[y].toGateway = IF y = c THEN Tail(conn[y].toGateway) ELSE conn[y].toGateway
            /\ conn'[y].toAgent =
                 IF y = device[d].socket /\ conn[y].gateway = "open" /\ conn[y].agent # "closed"
                 THEN conn[y].toAgent \o ResumeFrames(d, ids) ELSE conn[y].toAgent
    BY <1>29, RecvHelloEffect, Zenon
  <2>2. PICK ids \in InOrder(ListedIds(d)) :
          \A y \in Conns :
            \/ conn'[y].toAgent = conn[y].toAgent
            \/ y = device[d].socket /\ conn'[y].toAgent = conn[y].toAgent \o ResumeFrames(d, ids)
    <3> HIDE DEF d
    <3> QED BY <2>1
  <2> QED BY <1>29, <2>2, Zenon DEF ReadByAgent, SentResume
<1> QED
  BY <1>2, <1>3, <1>4, <1>5, <1>6, <1>7, <1>8, <1>9, <1>10, <1>11, <1>12, <1>13, <1>14, <1>15, <1>16, <1>17, <1>18, <1>19, <1>20, <1>21, <1>22, <1>23, <1>24, <1>25, <1>26, <1>27, <1>28, <1>29 DEF Next

\* The gateway reads a frame of connection x.
Reads(x) == RecvHello(x) \/ RecvOpened(x) \/ RecvOpenedAndExit(x) \/ RecvError(x) \/ RecvExit(x)
\* Nothing is sent: the gateway reads a frame, or its end of the connection goes.
ReadByGateway(x) ==
  \/ conn'[x].toGateway = conn[x].toGateway
  \/ conn'[x].toGateway = <<>> /\ conn'[x].gateway \in {"closed", "none"}
  \/ /\ Reads(x) /\ conn[x].toGateway # <<>>
     /\ \/ conn'[x].toGateway = Tail(conn[x].toGateway)
        \/ /\ Tail(conn[x].toGateway) # <<>>
           /\ conn'[x].toGateway = Tail(Tail(conn[x].toGateway))

SentHello(x) ==
  /\ Connected(x)
  /\ \E f \in Frames : f.t = "hello" /\ conn'[x].toGateway = Append(conn[x].toGateway, f)
\* Frame f answers the open that connection c brings, or says what became of p.
AnswersOpen(c, f) ==
  /\ f.ch = Head(conn[c].toAgent).ch
  /\ \/ RecvOpenHeld(c) /\ f.t = (IF pty[channels[f.ch]].attached THEN "error" ELSE "opened")
     \/ RecvOpenRefused(c) /\ f.t = "error"
AnswersFor(p, f) ==
  /\ f.ch = pty[p].ch
  /\ \/ Spawned(p) /\ f.t = "opened"
     \/ SpawnFails(p) /\ f.t = "error"
     \/ PtyExits(p) /\ pty[p].attached /\ f.t = "exit"
Answers(f) == (\E c \in Conns : AnswersOpen(c, f)) \/ (\E p \in Ptys : AnswersFor(p, f))
SentAnswer(x) ==
  /\ x = tunnel /\ conn[x].agent = "open" /\ conn[x].gateway # "closed"
  /\ \E f \in Frames : Answers(f) /\ conn'[x].toGateway = Append(conn[x].toGateway, f)

LEMMA ToGatewayStep ==
  ASSUME Typed, [Next]_vars
  PROVE  \A x \in Conns : ReadByGateway(x) \/ SentHello(x) \/ SentAnswer(x)
<1> DEFINE Quietly == \A x \in Conns : ReadByGateway(x)
<1>1. CASE UNCHANGED conn
  BY <1>1 DEF ReadByGateway
<1>2. CASE UNCHANGED vars
  BY <1>1, <1>2 DEF vars
<1>3. CASE DialFails
  BY <1>3, DialFailsFields DEF ReadByGateway
<1>4. CASE AgentRestarts
  BY <1>4, AgentRestartsFields DEF ReadByGateway
<1>5. CASE GatewayRestarts
  BY <1>5, GatewayRestartsFields DEF ReadByGateway
<1>6. CASE KillDevice
  BY <1>6, KillDeviceEffect, Zenon DEF ReadByGateway
<1>7. ASSUME NEW c \in Conns, Dial(c)
      PROVE  Quietly
  BY <1>7, DialFields DEF ReadByGateway
<1>8. ASSUME NEW c \in Conns, AgentSeesClose(c)
      PROVE  Quietly
  BY <1>8, AgentSeesCloseFields DEF ReadByGateway
<1>9. ASSUME NEW c \in Conns, Accept(c)
      PROVE  Quietly
  BY <1>9, AcceptFields DEF ReadByGateway
<1>10. ASSUME NEW c \in Conns, GatewaySeesClose(c)
       PROVE  Quietly
  BY <1>10, GatewaySeesCloseFields DEF ReadByGateway
<1>11. ASSUME NEW c \in Conns, GatewayGraceFires(c)
       PROVE  Quietly
  BY <1>1, <1>11 DEF GatewayGraceFires, ReadByGateway
<1>12. ASSUME NEW c \in Conns, RecvOpened(c)
       PROVE  Quietly
  BY <1>12, RecvOpenedFields DEF ReadByGateway, Reads
<1>13. ASSUME NEW c \in Conns, RecvOpenedAndExit(c)
       PROVE  Quietly
  BY <1>13, RecvOpenedAndExitFields DEF ReadByGateway, Reads
<1>14. ASSUME NEW c \in Conns, RecvError(c)
       PROVE  Quietly
  BY <1>14, RecvErrorFields DEF ReadByGateway, Reads
<1>15. ASSUME NEW c \in Conns, RecvExit(c)
       PROVE  Quietly
  BY <1>15, RecvExitFields DEF ReadByGateway, Reads
<1>16. ASSUME NEW c \in Conns, RecvClose(c)
       PROVE  Quietly
  BY <1>16, RecvCloseFields DEF ReadByGateway
<1>17. ASSUME NEW c \in Conns, RecvKill(c)
       PROVE  Quietly
  BY <1>17, RecvKillFields DEF ReadByGateway
<1>18. ASSUME NEW c \in Conns, NEW p \in Ptys, RecvOpenNew(c, p)
       PROVE  Quietly
  BY <1>18, RecvOpenNewFields DEF ReadByGateway
<1>19. ASSUME NEW s \in Shells, OpenShell(s)
       PROVE  Quietly
  BY <1>19, OpenShellFields DEF ReadByGateway
<1>20. ASSUME NEW s \in Shells, EndShell(s)
       PROVE  Quietly
  BY <1>20, EndShellFields DEF ReadByGateway
<1>21. ASSUME NEW s \in Shells, OpenTimesOut(s)
       PROVE  Quietly
  BY <1>1, <1>21 DEF OpenTimesOut, ReadByGateway
<1>22. ASSUME NEW p \in Ptys, AgentGraceFires(p)
       PROVE  Quietly
  BY <1>1, <1>22 DEF AgentGraceFires, ReadByGateway
<1>23. ASSUME NEW c \in Conns, RecvHello(c)
       PROVE  Quietly
  <2>1. /\ conn[c].toGateway # <<>>
        /\ \A x \in Conns : conn'[x].toGateway = IF x = c THEN Tail(conn[x].toGateway) ELSE conn[x].toGateway
    BY <1>23, RecvHelloEffect
  <2> QED BY <1>23, <2>1 DEF ReadByGateway, Reads
<1>24. ASSUME NEW c \in Conns, Connected(c)
       PROVE  \A x \in Conns : ReadByGateway(x) \/ SentHello(x)
  <2> DEFINE g == Frame("hello", 0, NoShell)
  <2>1. /\ g \in Frames
        /\ \A x \in Conns : conn'[x].toGateway = (IF x = c THEN IF conn[x].gateway = "closed" THEN conn[x].toGateway ELSE Append(conn[x].toGateway, g) ELSE conn[x].toGateway)
    BY <1>24, ConnectedFields
  <2>2. g.t = "hello"
    BY DEF Frame
  <2> HIDE DEF g
  <2> QED BY <1>24, <2>1, <2>2 DEF ReadByGateway, SentHello
<1>25. ASSUME NEW c \in Conns, RecvOpenHeld(c)
       PROVE  \A x \in Conns : ReadByGateway(x) \/ SentAnswer(x)
  <2> DEFINE f == Head(conn[c].toAgent)
             g == Frame(IF pty[channels[f.ch]].attached THEN "error" ELSE "opened", f.ch, f.for)
  <2>1. /\ g \in Frames
        /\ \A x \in Conns :
             \/ conn'[x].toGateway = conn[x].toGateway
             \/ /\ x = tunnel /\ conn[x].agent = "open" /\ conn[x].gateway # "closed"
                /\ conn'[x].toGateway = Append(conn[x].toGateway, g)
    BY <1>25, RecvOpenHeldEffect, Zenon
  <2>2. AnswersOpen(c, g)
    BY <1>25, RecvOpenHeldEffect DEF AnswersOpen
  <2> HIDE DEF g
  <2> QED BY <2>1, <2>2 DEF ReadByGateway, SentAnswer, Answers
<1>26. ASSUME NEW c \in Conns, RecvOpenRefused(c)
       PROVE  \A x \in Conns : ReadByGateway(x) \/ SentAnswer(x)
  <2> DEFINE f == Head(conn[c].toAgent)
             g == Frame("error", f.ch, f.for)
  <2>1. /\ g \in Frames
        /\ \A x \in Conns :
             \/ conn'[x].toGateway = conn[x].toGateway
             \/ /\ x = tunnel /\ conn[x].agent = "open" /\ conn[x].gateway # "closed"
                /\ conn'[x].toGateway = Append(conn[x].toGateway, g)
    BY <1>26, RecvOpenRefusedEffect
  <2>2. AnswersOpen(c, g)
    BY <1>26, RecvOpenRefusedEffect DEF AnswersOpen
  <2> HIDE DEF g
  <2> QED BY <2>1, <2>2 DEF ReadByGateway, SentAnswer, Answers
<1>27. ASSUME NEW p \in Ptys, Spawned(p)
       PROVE  \A x \in Conns : ReadByGateway(x) \/ SentAnswer(x)
  <2> DEFINE g == Frame("opened", pty[p].ch, pty[p].owner)
  <2>1. /\ g \in Frames
        /\ \A x \in Conns :
             \/ conn'[x].toGateway = conn[x].toGateway
             \/ /\ x = tunnel /\ conn[x].agent = "open" /\ conn[x].gateway # "closed"
                /\ conn'[x].toGateway = Append(conn[x].toGateway, g)
    BY <1>27, SpawnedFields
  <2>2. AnswersFor(p, g)
    BY <1>27, SpawnedFields DEF AnswersFor
  <2> HIDE DEF g
  <2> QED BY <2>1, <2>2 DEF ReadByGateway, SentAnswer, Answers
<1>28. ASSUME NEW p \in Ptys, SpawnFails(p)
       PROVE  \A x \in Conns : ReadByGateway(x) \/ SentAnswer(x)
  <2> DEFINE g == Frame("error", pty[p].ch, pty[p].owner)
  <2>1. /\ g \in Frames
        /\ \A x \in Conns :
             \/ conn'[x].toGateway = conn[x].toGateway
             \/ /\ x = tunnel /\ conn[x].agent = "open" /\ conn[x].gateway # "closed"
                /\ conn'[x].toGateway = Append(conn[x].toGateway, g)
    BY <1>28, SpawnFailsFields
  <2>2. AnswersFor(p, g)
    BY <1>28, SpawnFailsFields DEF AnswersFor
  <2> HIDE DEF g
  <2> QED BY <2>1, <2>2 DEF ReadByGateway, SentAnswer, Answers
<1>29. ASSUME NEW p \in Ptys, PtyExits(p)
       PROVE  \A x \in Conns : ReadByGateway(x) \/ SentAnswer(x)
  <2> DEFINE g == Frame("exit", pty[p].ch, pty[p].bound)
  <2>1. /\ g \in Frames
        /\ \A x \in Conns :
             \/ conn'[x].toGateway = conn[x].toGateway
             \/ /\ pty[p].attached /\ x = tunnel /\ conn[x].agent = "open" /\ conn[x].gateway # "closed"
                /\ conn'[x].toGateway = Append(conn[x].toGateway, g)
    BY <1>29, PtyExitsFields
  <2>2. pty[p].attached => AnswersFor(p, g)
    BY <1>29, PtyExitsFields DEF AnswersFor
  <2> HIDE DEF g
  <2> QED BY <2>1, <2>2 DEF ReadByGateway, SentAnswer, Answers
<1> QED
  BY <1>2, <1>3, <1>4, <1>5, <1>6, <1>7, <1>8, <1>9, <1>10, <1>11, <1>12, <1>13, <1>14, <1>15, <1>16, <1>17, <1>18, <1>19, <1>20, <1>21, <1>22, <1>23, <1>24, <1>25, <1>26, <1>27, <1>28, <1>29 DEF Next

\* What a step does to the agent's end of a connection, and to its device.
AgentEndChange(x) ==
  \/ conn'[x].agent = conn[x].agent
  \/ conn'[x].agent = "closed"
  \/ Dial(x) /\ conn'[x].agent = "dialing"
  \/ Connected(x) /\ conn'[x].agent = "open"
  \/ RecvKill(x) /\ conn'[x].agent = "closing"
  \/ DialFails /\ x = tunnel /\ conn'[x].agent = "unused"
DeviceOfChange(x) ==
  \/ conn'[x].device = conn[x].device
  \/ Accept(x)
  \/ DialFails /\ x = tunnel

LEMMA AgentEndStep ==
  ASSUME Typed, [Next]_vars
  PROVE  \A x \in Conns : AgentEndChange(x) /\ DeviceOfChange(x)
<1> DEFINE Goal == \A x \in Conns : AgentEndChange(x) /\ DeviceOfChange(x)
<1>1. CASE UNCHANGED conn
  BY <1>1 DEF AgentEndChange, DeviceOfChange
<1>2. CASE UNCHANGED vars
  BY <1>1, <1>2 DEF vars
<1>3. ASSUME DialFails
      PROVE  Goal
  BY <1>3, DialFailsFields DEF AgentEndChange, DeviceOfChange
<1>4. ASSUME AgentRestarts
      PROVE  Goal
  BY <1>4, AgentRestartsFields DEF AgentEndChange, DeviceOfChange
<1>5. ASSUME KillDevice
      PROVE  Goal
  BY <1>5, KillDeviceEffect, Zenon DEF AgentEndChange, DeviceOfChange
<1>6. ASSUME GatewayRestarts
      PROVE  Goal
  BY <1>6, GatewayRestartsFields DEF AgentEndChange, DeviceOfChange
<1>7. ASSUME NEW c \in Conns, Dial(c)
      PROVE  Goal
  BY <1>7, DialFields DEF AgentEndChange, DeviceOfChange
<1>8. ASSUME NEW c \in Conns, Connected(c)
      PROVE  Goal
  BY <1>8, ConnectedFields DEF AgentEndChange, DeviceOfChange
<1>9. ASSUME NEW c \in Conns, AgentSeesClose(c)
      PROVE  Goal
  BY <1>9, AgentSeesCloseFields DEF AgentEndChange, DeviceOfChange
<1>10. ASSUME NEW c \in Conns, Accept(c)
       PROVE  Goal
  BY <1>10, AcceptFields DEF AgentEndChange, DeviceOfChange
<1>11. ASSUME NEW c \in Conns, GatewaySeesClose(c)
       PROVE  Goal
  BY <1>11, GatewaySeesCloseFields DEF AgentEndChange, DeviceOfChange
<1>12. ASSUME NEW c \in Conns, GatewayGraceFires(c)
       PROVE  Goal
  BY <1>1, <1>12 DEF GatewayGraceFires
<1>13. ASSUME NEW c \in Conns, RecvHello(c)
       PROVE  Goal
  BY <1>13, RecvHelloEffect DEF AgentEndChange, DeviceOfChange
<1>14. ASSUME NEW c \in Conns, RecvOpened(c)
       PROVE  Goal
  BY <1>14, RecvOpenedFields DEF AgentEndChange, DeviceOfChange
<1>15. ASSUME NEW c \in Conns, RecvOpenedAndExit(c)
       PROVE  Goal
  BY <1>15, RecvOpenedAndExitFields DEF AgentEndChange, DeviceOfChange
<1>16. ASSUME NEW c \in Conns, RecvError(c)
       PROVE  Goal
  BY <1>16, RecvErrorFields DEF AgentEndChange, DeviceOfChange
<1>17. ASSUME NEW c \in Conns, RecvExit(c)
       PROVE  Goal
  BY <1>17, RecvExitFields DEF AgentEndChange, DeviceOfChange
<1>18. ASSUME NEW c \in Conns, RecvOpenHeld(c)
       PROVE  Goal
  BY <1>18, RecvOpenHeldEffect, Zenon DEF AgentEndChange, DeviceOfChange
<1>19. ASSUME NEW c \in Conns, RecvOpenRefused(c)
       PROVE  Goal
  BY <1>19, RecvOpenRefusedEffect DEF AgentEndChange, DeviceOfChange
<1>20. ASSUME NEW c \in Conns, RecvClose(c)
       PROVE  Goal
  BY <1>20, RecvCloseFields DEF AgentEndChange, DeviceOfChange
<1>21. ASSUME NEW c \in Conns, RecvKill(c)
       PROVE  Goal
  BY <1>21, RecvKillFields DEF AgentEndChange, DeviceOfChange
<1>22. ASSUME NEW c \in Conns, NEW p \in Ptys, RecvOpenNew(c, p)
       PROVE  Goal
  BY <1>22, RecvOpenNewFields DEF AgentEndChange, DeviceOfChange
<1>23. ASSUME NEW s \in Shells, OpenShell(s)
       PROVE  Goal
  BY <1>23, OpenShellFields, ZenonT(40) DEF AgentEndChange, DeviceOfChange
<1>24. ASSUME NEW s \in Shells, OpenTimesOut(s)
       PROVE  Goal
  BY <1>1, <1>24 DEF OpenTimesOut
<1>25. ASSUME NEW s \in Shells, EndShell(s)
       PROVE  Goal
  BY <1>25, EndShellFields, ZenonT(40) DEF AgentEndChange, DeviceOfChange
<1>26. ASSUME NEW p \in Ptys, Spawned(p)
       PROVE  Goal
  BY <1>26, SpawnedFields DEF AgentEndChange, DeviceOfChange
<1>27. ASSUME NEW p \in Ptys, SpawnFails(p)
       PROVE  Goal
  BY <1>27, SpawnFailsFields DEF AgentEndChange, DeviceOfChange
<1>28. ASSUME NEW p \in Ptys, PtyExits(p)
       PROVE  Goal
  BY <1>28, PtyExitsFields DEF AgentEndChange, DeviceOfChange
<1>29. ASSUME NEW p \in Ptys, AgentGraceFires(p)
       PROVE  Goal
  BY <1>1, <1>29 DEF AgentGraceFires
<1> QED
  BY <1>2, <1>3, <1>4, <1>5, <1>6, <1>7, <1>8, <1>9, <1>10, <1>11, <1>12, <1>13, <1>14, <1>15, <1>16, <1>17, <1>18, <1>19, <1>20, <1>21, <1>22, <1>23, <1>24, <1>25, <1>26, <1>27, <1>28, <1>29 DEF Next

\* What a step does to the connection a device has had hello over.
LEMMA HelloStep ==
  ASSUME Typed, [Next]_vars
  PROVE  \A d \in Conns : \/ device'[d].hello \in {0, device[d].hello}
                          \/ \E c \in Conns : RecvHello(c) /\ d = conn[c].device /\ device'[d].hello = c
<1> DEFINE Goal == \A d \in Conns : device'[d].hello \in {0, device[d].hello}
<1>1. CASE UNCHANGED device
  BY <1>1
<1>2. CASE UNCHANGED vars
  BY <1>1, <1>2 DEF vars
<1>3. ASSUME DialFails
      PROVE  Goal
  BY <1>1, <1>3 DEF DialFails
<1>4. ASSUME AgentRestarts
      PROVE  Goal
  BY <1>1, <1>4, Zenon DEF AgentRestarts
<1>5. ASSUME KillDevice
      PROVE  Goal
  BY <1>1, <1>5 DEF KillDevice
<1>6. ASSUME GatewayRestarts
      PROVE  Goal
  BY <1>6, GatewayRestartsFields
<1>7. ASSUME NEW c \in Conns, Dial(c)
      PROVE  Goal
  BY <1>1, <1>7 DEF Dial
<1>8. ASSUME NEW c \in Conns, Connected(c)
      PROVE  Goal
  BY <1>1, <1>8 DEF Connected
<1>9. ASSUME NEW c \in Conns, AgentSeesClose(c)
      PROVE  Goal
  BY <1>1, <1>9 DEF AgentSeesClose
<1>10. ASSUME NEW c \in Conns, Accept(c)
       PROVE  Goal
  BY <1>10, AcceptFields
<1>11. ASSUME NEW c \in Conns, GatewaySeesClose(c)
       PROVE  Goal
  BY <1>11, GatewaySeesCloseFields
<1>12. ASSUME NEW c \in Conns, GatewayGraceFires(c)
       PROVE  Goal
  BY <1>12, GatewayGraceFiresFields
<1>13. ASSUME NEW c \in Conns, RecvOpened(c)
       PROVE  Goal
  BY <1>1, <1>13 DEF RecvOpened
<1>14. ASSUME NEW c \in Conns, RecvOpenedAndExit(c)
       PROVE  Goal
  BY <1>1, <1>14, Zenon DEF RecvOpenedAndExit
<1>15. ASSUME NEW c \in Conns, RecvError(c)
       PROVE  Goal
  BY <1>1, <1>15, Zenon DEF RecvError
<1>16. ASSUME NEW c \in Conns, RecvExit(c)
       PROVE  Goal
  BY <1>1, <1>16 DEF RecvExit
<1>17. ASSUME NEW c \in Conns, RecvOpenHeld(c)
       PROVE  Goal
  BY <1>1, <1>17 DEF RecvOpenHeld
<1>18. ASSUME NEW c \in Conns, RecvOpenRefused(c)
       PROVE  Goal
  BY <1>1, <1>18 DEF RecvOpenRefused
<1>19. ASSUME NEW c \in Conns, RecvClose(c)
       PROVE  Goal
  BY <1>1, <1>19 DEF RecvClose
<1>20. ASSUME NEW c \in Conns, RecvKill(c)
       PROVE  Goal
  BY <1>1, <1>20 DEF RecvKill
<1>21. ASSUME NEW c \in Conns, NEW p \in Ptys, RecvOpenNew(c, p)
       PROVE  Goal
  BY <1>1, <1>21 DEF RecvOpenNew
<1>22. ASSUME NEW s \in Shells, OpenShell(s)
       PROVE  Goal
  BY <1>22, OpenShellFields
<1>23. ASSUME NEW s \in Shells, OpenTimesOut(s)
       PROVE  Goal
  BY <1>1, <1>23 DEF OpenTimesOut
<1>24. ASSUME NEW s \in Shells, EndShell(s)
       PROVE  Goal
  BY <1>1, <1>24 DEF EndShell
<1>25. ASSUME NEW p \in Ptys, Spawned(p)
       PROVE  Goal
  BY <1>1, <1>25 DEF Spawned
<1>26. ASSUME NEW p \in Ptys, SpawnFails(p)
       PROVE  Goal
  BY <1>1, <1>26 DEF SpawnFails
<1>27. ASSUME NEW p \in Ptys, PtyExits(p)
       PROVE  Goal
  BY <1>1, <1>27 DEF PtyExits
<1>28. ASSUME NEW p \in Ptys, AgentGraceFires(p)
       PROVE  Goal
  BY <1>1, <1>28 DEF AgentGraceFires
<1>29. ASSUME NEW c \in Conns, RecvHello(c)
       PROVE  \A d \in Conns : device'[d].hello = (IF d = conn[c].device THEN c ELSE device[d].hello)
  BY <1>29, RecvHelloFields
<1> QED
  BY <1>2, <1>3, <1>4, <1>5, <1>6, <1>7, <1>8, <1>9, <1>10, <1>11, <1>12, <1>13, <1>14, <1>15, <1>16, <1>17, <1>18, <1>19, <1>20, <1>21, <1>22, <1>23, <1>24, <1>25, <1>26, <1>27, <1>28, <1>29 DEF Next

\* What a step does to the connection the agent has.
LEMMA TunnelStep ==
  ASSUME Typed, Wired, [Next]_vars
  PROVE  \/ tunnel' = tunnel
         \/ tunnel = 0 /\ tunnel' \in Conns /\ Dial(tunnel')
         \/ tunnel' = 0 /\ (DialFails \/ AgentRestarts \/ \E c \in Conns : AgentSeesClose(c))
<1> DEFINE Goal == \/ tunnel' = tunnel
                   \/ tunnel = 0 /\ tunnel' \in Conns /\ Dial(tunnel')
                   \/ tunnel' = 0 /\ (DialFails \/ AgentRestarts \/ \E c \in Conns : AgentSeesClose(c))
<1>1. CASE UNCHANGED vars
  BY <1>1 DEF vars
<1>2. CASE UNCHANGED tunnel
  BY <1>2
<1>3. ASSUME DialFails
      PROVE  Goal
  BY <1>3, DialFailsFields
<1>4. ASSUME AgentRestarts
      PROVE  Goal
  BY <1>4, Zenon DEF AgentRestarts
<1>5. ASSUME KillDevice
      PROVE  Goal
  BY <1>5 DEF KillDevice
<1>6. ASSUME GatewayRestarts
      PROVE  Goal
  BY <1>6, Zenon DEF GatewayRestarts
<1>7. ASSUME NEW c \in Conns, Dial(c)
      PROVE  Goal
  BY <1>7 DEF Dial
<1>8. ASSUME NEW c \in Conns, Connected(c)
      PROVE  Goal
  BY <1>8 DEF Connected
<1>9. ASSUME NEW c \in Conns, AgentSeesClose(c)
      PROVE  Goal
  BY <1>9, AgentSeesCloseFields
<1>10. ASSUME NEW c \in Conns, Accept(c)
       PROVE  Goal
  BY <1>10 DEF Accept
<1>11. ASSUME NEW c \in Conns, GatewaySeesClose(c)
       PROVE  Goal
  BY <1>11, Zenon DEF GatewaySeesClose
<1>12. ASSUME NEW c \in Conns, GatewayGraceFires(c)
       PROVE  Goal
  BY <1>12 DEF GatewayGraceFires
<1>13. ASSUME NEW c \in Conns, RecvHello(c)
       PROVE  Goal
  BY <1>13 DEF RecvHello
<1>14. ASSUME NEW c \in Conns, RecvOpened(c)
       PROVE  Goal
  BY <1>14 DEF RecvOpened
<1>15. ASSUME NEW c \in Conns, RecvOpenedAndExit(c)
       PROVE  Goal
  BY <1>15, Zenon DEF RecvOpenedAndExit
<1>16. ASSUME NEW c \in Conns, RecvError(c)
       PROVE  Goal
  BY <1>16, Zenon DEF RecvError
<1>17. ASSUME NEW c \in Conns, RecvExit(c)
       PROVE  Goal
  BY <1>17 DEF RecvExit
<1>18. ASSUME NEW c \in Conns, RecvOpenHeld(c)
       PROVE  Goal
  BY <1>18 DEF RecvOpenHeld
<1>19. ASSUME NEW c \in Conns, RecvOpenRefused(c)
       PROVE  Goal
  BY <1>19 DEF RecvOpenRefused
<1>20. ASSUME NEW c \in Conns, RecvClose(c)
       PROVE  Goal
  BY <1>20 DEF RecvClose
<1>21. ASSUME NEW c \in Conns, RecvKill(c)
       PROVE  Goal
  BY <1>21 DEF RecvKill
<1>22. ASSUME NEW c \in Conns, NEW p \in Ptys, RecvOpenNew(c, p)
       PROVE  Goal
  BY <1>22 DEF RecvOpenNew
<1>23. ASSUME NEW s \in Shells, OpenShell(s)
       PROVE  Goal
  BY <1>23 DEF OpenShell
<1>24. ASSUME NEW s \in Shells, OpenTimesOut(s)
       PROVE  Goal
  BY <1>24 DEF OpenTimesOut
<1>25. ASSUME NEW s \in Shells, EndShell(s)
       PROVE  Goal
  BY <1>25 DEF EndShell
<1>26. ASSUME NEW p \in Ptys, Spawned(p)
       PROVE  Goal
  BY <1>26 DEF Spawned
<1>27. ASSUME NEW p \in Ptys, SpawnFails(p)
       PROVE  Goal
  BY <1>27 DEF SpawnFails
<1>28. ASSUME NEW p \in Ptys, PtyExits(p)
       PROVE  Goal
  BY <1>28 DEF PtyExits
<1>29. ASSUME NEW p \in Ptys, AgentGraceFires(p)
       PROVE  Goal
  BY <1>29 DEF AgentGraceFires
<1> QED
  BY <1>1, <1>3, <1>4, <1>5, <1>6, <1>7, <1>8, <1>9, <1>10, <1>11, <1>12, <1>13, <1>14, <1>15, <1>16, <1>17, <1>18, <1>19, <1>20, <1>21, <1>22, <1>23, <1>24, <1>25, <1>26, <1>27, <1>28, <1>29 DEF Next

-----------------------------------------------------------------------------
(* What counts down when the tunnel is gone.                                 *)

Drops == {"retryFails", "spawnAcrossDrop", "lateExit", "staleSocket"}

\* A process a terminal is being opened on, or is attached to.
Busy(p) == pty[p].state = "spawning" \/ (pty[p].state = "alive" /\ pty[p].attached)

\* The gateway has yet to read hello from connection c.
Hello(q) == \E f \in In(q) : f.t = "hello"
Greeting(c) == conn[c].agent = "dialing" \/ Hello(conn[c].toGateway)

Opening(q, ch) == \E f \in In(q) : f.t = "open" /\ f.ch = ch
Distinct(q) ==
  \A i, j \in DOMAIN q : i # j /\ q[i].t = "open" /\ q[j].t = "open" => q[i].ch # q[j].ch

\* A live process is held under its id, attached or on a countdown, and no
\* other is being spawned under it.
Counting ==
  /\ \A p \in Ptys : pty[p].state = "alive" => channels[pty[p].ch] = p /\ (pty[p].attached <=> ~pty[p].timer)
  /\ \A p \in Ptys : pty[p].timer => pty[p].state = "alive"
  /\ \A p, q \in Ptys : p # q /\ pty[p].state = "spawning" /\ pty[q].state \in {"spawning", "alive"}
                          => pty[p].ch # pty[q].ch

\* A busy process serves a terminal of the device at the other end, which has
\* had hello.
Tended ==
  \A p \in Ptys : Busy(p) =>
    /\ tunnel # 0 /\ ~Greeting(tunnel)
    /\ shell[pty[p].bound].device = conn[tunnel].device

\* Of the terminals the agent is still to open none is asked for twice, none has
\* a busy process, and there are none before hello.
Orderly ==
  tunnel # 0 =>
    /\ Greeting(tunnel) => \A ch \in ChannelIds : ~Opening(conn[tunnel].toAgent, ch)
    /\ Distinct(conn[tunnel].toAgent)
    /\ \A p \in Ptys : Busy(p) => ~Opening(conn[tunnel].toAgent, pty[p].ch)

\* A connection that a device has had hello over has said it.
Met == \A d \in Conns : device[d].hello # 0 => ~Greeting(device[d].hello) /\ conn[device[d].hello].agent # "unused"

Counted == Unraced(Drops) => Counting /\ Tended /\ Orderly /\ Met

LEMMA UnracedDrops ==
  ASSUME Base, [Next]_vars, Unraced(Drops)'
  PROVE  /\ Unraced(Drops) /\ \A p \in Ptys : pty[p].stray = 0
         /\ "retryFails" \notin raced' /\ "spawnAcrossDrop" \notin raced'
         /\ "lateExit" \notin raced' /\ "staleSocket" \notin raced'
<1>1. Unraced(Drops)
  BY RacedGrows
<1>2. Unraced({"retryFails"})
  BY <1>1 DEF Unraced, Drops
<1> QED BY <1>1, <1>2 DEF Base, Sheltered, Unraced, Drops

\* The agent's connection goes: every process is on a countdown.
LEMMA DropCounts ==
  ASSUME Base, Counting, [Next]_vars, Unraced(Drops)', NEW R, Disconnected(R), UNCHANGED channels
  PROVE  Counting' /\ \A p \in Ptys : ~Busy(p)'
<1>1. \A q \in Ptys :
              /\ pty'[q].state = pty[q].state
              /\ pty'[q].ch = pty[q].ch
              /\ pty'[q].attached = (pty[q].attached /\ q \notin Held)
              /\ pty'[q].timer = (pty[q].timer \/ q \in Held)
  BY DisconnectedFields DEF Base
<1>2. /\ (\E p \in Held : pty[p].timer) => "retryFails" \in raced'
      /\ (\E p \in Ptys : pty[p].state = "spawning") => "spawnAcrossDrop" \in raced'
  BY DisconnectedFields DEF Base
<1>3. \A p \in Ptys : pty[p].state # "spawning"
  BY <1>2, UnracedDrops
<1>4. \A p \in Ptys : pty[p].ch \in ChannelIds \/ pty[p].state = "free"
  BY PtyIsNumbered DEF Base
<1>5. \A p \in Ptys : p \in Held <=> pty[p].state = "alive"
  <2>1. ASSUME NEW p \in Ptys, p \in Held
        PROVE  pty[p].state = "alive"
    BY <2>1 DEF Base, Sheltered, Held
  <2>2. ASSUME NEW p \in Ptys, pty[p].state = "alive"
        PROVE  p \in Held
    BY <1>4, <2>2, NoValueAssumption DEF Counting, Held
  <2> QED BY <2>1, <2>2
<1>6. \A p \in Ptys : ~Busy(p)'
  BY <1>1, <1>3, <1>5 DEF Busy
<1>7. \A p \in Ptys : pty'[p].state = "alive" => channels'[pty'[p].ch] = p /\ (pty'[p].attached <=> ~pty'[p].timer)
  <2> SUFFICES ASSUME NEW p \in Ptys, pty'[p].state = "alive"
               PROVE  channels'[pty'[p].ch] = p /\ (pty'[p].attached <=> ~pty'[p].timer)
    OBVIOUS
  <2>1. pty[p].state = "alive" /\ p \in Held
    BY <1>1, <1>5
  <2>2. ~pty'[p].attached /\ pty'[p].timer
    BY <1>1, <2>1
  <2>3. channels[pty[p].ch] = p
    BY <2>1 DEF Counting
  <2> QED BY <1>1, <2>2, <2>3
<1>8. \A p \in Ptys : pty'[p].timer => pty'[p].state = "alive"
  BY <1>1, <1>5, ZenonT(60) DEF Counting
<1> QED BY <1>1, <1>3, <1>6, <1>7, <1>8 DEF Counting

\* The open the agent reads is for an id with no busy process.
LEMMA OpenFindsNoneBusy ==
  ASSUME Base, Orderly, NEW c \in Conns, Reaches(c, "open")
  PROVE  LET f == Head(conn[c].toAgent)
         IN  /\ c = tunnel /\ conn[c].agent = "open" /\ conn[c].toAgent # <<>> /\ f.t = "open"
             /\ f.ch \in ChannelIds /\ About(f, c)
             /\ ~Greeting(c)
             /\ \A p \in Ptys : Busy(p) => pty[p].ch # f.ch
             /\ ~Opening(Tail(conn[c].toAgent), f.ch)
<1> DEFINE f == Head(conn[c].toAgent)
<1>1. conn[c].agent = "open" /\ conn[c].toAgent # <<>> /\ f.t = "open"
  BY DEF Reaches
<1>2. c = tunnel /\ tunnel # 0
  BY <1>1, ConnNotZero DEF Base, Wired, Ends
<1>3. f.ch \in ChannelIds /\ About(f, c) /\ f \in In(conn[c].toAgent)
  BY <1>1, OpenIsNumbered DEF Base
<1>4. conn[c].toAgent \in Seq(Frames)
  BY TypesOf DEF Base, Typed, ConnTable, Connection
<1>5. Opening(conn[c].toAgent, f.ch)
  BY <1>1, <1>3 DEF Opening
<1>6. ~Greeting(c) /\ \A p \in Ptys : Busy(p) => pty[p].ch # f.ch
  BY <1>2, <1>3, <1>5 DEF Orderly
<1>7. ~Opening(Tail(conn[c].toAgent), f.ch)
  <2> SUFFICES ASSUME Opening(Tail(conn[c].toAgent), f.ch)
               PROVE  FALSE
    OBVIOUS
  <2>1. PICK i \in DOMAIN Tail(conn[c].toAgent) : Tail(conn[c].toAgent)[i].t = "open" /\ Tail(conn[c].toAgent)[i].ch = f.ch
    BY DEF Opening, In
  <2>2. i + 1 \in DOMAIN conn[c].toAgent /\ Tail(conn[c].toAgent)[i] = conn[c].toAgent[i + 1]
    BY <1>1, <1>4, <2>1, InTail
  <2>3. f = conn[c].toAgent[1] /\ 1 \in DOMAIN conn[c].toAgent /\ i \in Nat /\ i # 0
    <3>1. \A q \in Seq(Frames) : q # <<>> => Head(q) = q[1] /\ 1 \in DOMAIN q
      BY HeadTailProperties, LenProperties, EmptySeq
    <3>2. Tail(conn[c].toAgent) \in Seq(Frames)
      BY <1>1, <1>4, InTail
    <3>3. \A q \in Seq(Frames) : \A k \in DOMAIN q : k \in Nat /\ k # 0
      BY LenProperties
    <3> QED BY <1>1, <1>4, <2>1, <3>1, <3>2, <3>3
  <2>4. i + 1 # 1
    BY <2>3
  <2>5. Distinct(conn[c].toAgent)
    BY <1>2 DEF Orderly
  <2> QED BY <1>1, <2>1, <2>2, <2>3, <2>4, <2>5 DEF Distinct
<1> QED BY <1>1, <1>2, <1>3, <1>6, <1>7

\* The steps that touch the agent's processes.
Handles ==
  \/ DialFails \/ AgentRestarts
  \/ \E c \in Conns : \/ AgentSeesClose(c) \/ RecvOpenHeld(c) \/ RecvClose(c) \/ RecvKill(c)
                      \/ \E p \in Ptys : RecvOpenNew(c, p)
  \/ \E p \in Ptys : Spawned(p) \/ SpawnFails(p) \/ PtyExits(p) \/ AgentGraceFires(p)

LEMMA HandlesOrRests ==
  ASSUME [Next]_vars
  PROVE  Handles \/ UNCHANGED <<channels, pty>>
<1>1. CASE UNCHANGED vars
  BY <1>1 DEF vars
<1>2. ASSUME DialFails
      PROVE  Handles \/ UNCHANGED <<channels, pty>>
  BY <1>2, Zenon DEF Handles
<1>3. ASSUME AgentRestarts
      PROVE  Handles \/ UNCHANGED <<channels, pty>>
  BY <1>3, Zenon DEF Handles
<1>4. ASSUME KillDevice
      PROVE  Handles \/ UNCHANGED <<channels, pty>>
  BY <1>4, Zenon DEF KillDevice
<1>5. ASSUME GatewayRestarts
      PROVE  Handles \/ UNCHANGED <<channels, pty>>
  BY <1>5, Zenon DEF GatewayRestarts
<1>6. ASSUME NEW c \in Conns, Dial(c)
      PROVE  Handles \/ UNCHANGED <<channels, pty>>
  BY <1>6, Zenon DEF Dial
<1>7. ASSUME NEW c \in Conns, Connected(c)
      PROVE  Handles \/ UNCHANGED <<channels, pty>>
  BY <1>7, Zenon DEF Connected
<1>8. ASSUME NEW c \in Conns, AgentSeesClose(c)
      PROVE  Handles \/ UNCHANGED <<channels, pty>>
  BY <1>8, Zenon DEF Handles
<1>9. ASSUME NEW c \in Conns, Accept(c)
      PROVE  Handles \/ UNCHANGED <<channels, pty>>
  BY <1>9, Zenon DEF Accept
<1>10. ASSUME NEW c \in Conns, GatewaySeesClose(c)
       PROVE  Handles \/ UNCHANGED <<channels, pty>>
  BY <1>10, Zenon DEF GatewaySeesClose
<1>11. ASSUME NEW c \in Conns, GatewayGraceFires(c)
       PROVE  Handles \/ UNCHANGED <<channels, pty>>
  BY <1>11, Zenon DEF GatewayGraceFires
<1>12. ASSUME NEW c \in Conns, RecvHello(c)
       PROVE  Handles \/ UNCHANGED <<channels, pty>>
  BY <1>12, Zenon DEF RecvHello
<1>13. ASSUME NEW c \in Conns, RecvOpened(c)
       PROVE  Handles \/ UNCHANGED <<channels, pty>>
  BY <1>13, Zenon DEF RecvOpened
<1>14. ASSUME NEW c \in Conns, RecvOpenedAndExit(c)
       PROVE  Handles \/ UNCHANGED <<channels, pty>>
  BY <1>14, Zenon DEF RecvOpenedAndExit
<1>15. ASSUME NEW c \in Conns, RecvError(c)
       PROVE  Handles \/ UNCHANGED <<channels, pty>>
  BY <1>15, Zenon DEF RecvError
<1>16. ASSUME NEW c \in Conns, RecvExit(c)
       PROVE  Handles \/ UNCHANGED <<channels, pty>>
  BY <1>16, Zenon DEF RecvExit
<1>17. ASSUME NEW c \in Conns, RecvOpenHeld(c)
       PROVE  Handles \/ UNCHANGED <<channels, pty>>
  BY <1>17, Zenon DEF Handles
<1>18. ASSUME NEW c \in Conns, RecvOpenRefused(c)
       PROVE  Handles \/ UNCHANGED <<channels, pty>>
  BY <1>18, Zenon DEF RecvOpenRefused
<1>19. ASSUME NEW c \in Conns, RecvClose(c)
       PROVE  Handles \/ UNCHANGED <<channels, pty>>
  BY <1>19, Zenon DEF Handles
<1>20. ASSUME NEW c \in Conns, RecvKill(c)
       PROVE  Handles \/ UNCHANGED <<channels, pty>>
  BY <1>20, Zenon DEF Handles
<1>21. ASSUME NEW c \in Conns, NEW p \in Ptys, RecvOpenNew(c, p)
       PROVE  Handles \/ UNCHANGED <<channels, pty>>
  BY <1>21, Zenon DEF Handles
<1>22. ASSUME NEW s \in Shells, OpenShell(s)
       PROVE  Handles \/ UNCHANGED <<channels, pty>>
  BY <1>22, Zenon DEF OpenShell
<1>23. ASSUME NEW s \in Shells, OpenTimesOut(s)
       PROVE  Handles \/ UNCHANGED <<channels, pty>>
  BY <1>23, Zenon DEF OpenTimesOut
<1>24. ASSUME NEW s \in Shells, EndShell(s)
       PROVE  Handles \/ UNCHANGED <<channels, pty>>
  BY <1>24, Zenon DEF EndShell
<1>25. ASSUME NEW p \in Ptys, Spawned(p)
       PROVE  Handles \/ UNCHANGED <<channels, pty>>
  BY <1>25, Zenon DEF Handles
<1>26. ASSUME NEW p \in Ptys, SpawnFails(p)
       PROVE  Handles \/ UNCHANGED <<channels, pty>>
  BY <1>26, Zenon DEF Handles
<1>27. ASSUME NEW p \in Ptys, PtyExits(p)
       PROVE  Handles \/ UNCHANGED <<channels, pty>>
  BY <1>27, Zenon DEF Handles
<1>28. ASSUME NEW p \in Ptys, AgentGraceFires(p)
       PROVE  Handles \/ UNCHANGED <<channels, pty>>
  BY <1>28, Zenon DEF Handles
<1> QED
  BY <1>1, <1>2, <1>3, <1>4, <1>5, <1>6, <1>7, <1>8, <1>9, <1>10, <1>11, <1>12, <1>13, <1>14, <1>15, <1>16, <1>17, <1>18, <1>19, <1>20, <1>21, <1>22, <1>23, <1>24, <1>25, <1>26, <1>27, <1>28, Zenon DEF Next

LEMMA HelloOf ==
  ASSUME NEW q \in Seq(Frames)
  PROVE  /\ \A f \in Frames : Hello(Append(q, f)) <=> Hello(q) \/ f.t = "hello"
         /\ q # <<>> /\ Hello(Tail(q)) => Hello(q)
         /\ q # <<>> /\ Tail(q) # <<>> /\ Hello(Tail(Tail(q))) => Hello(q)
         /\ ~Hello(<<>>)
<1>1. \A f \in Frames : Hello(Append(q, f)) <=> Hello(q) \/ f.t = "hello"
  BY InAppend DEF Hello
<1>2. \A r \in Seq(Frames) : r # <<>> /\ Hello(Tail(r)) => Hello(r)
  BY InTail DEF Hello
<1>3. q # <<>> => Tail(q) \in Seq(Frames)
  BY InTail
<1>4. ~Hello(<<>>)
  BY InEmpty DEF Hello
<1> QED BY <1>1, <1>2, <1>3, <1>4

LEMMA OpeningOf ==
  ASSUME NEW q \in Seq(Frames), NEW ch
  PROVE  /\ \A f \in Frames : Opening(Append(q, f), ch) <=> Opening(q, ch) \/ (f.t = "open" /\ f.ch = ch)
         /\ \A r \in Seq(Frames) : Opening(q \o r, ch) <=> Opening(q, ch) \/ Opening(r, ch)
         /\ q # <<>> /\ Opening(Tail(q), ch) => Opening(q, ch)
         /\ ~Opening(<<>>, ch)
<1>1. \A f \in Frames : Opening(Append(q, f), ch) <=> Opening(q, ch) \/ (f.t = "open" /\ f.ch = ch)
  BY InAppend DEF Opening
<1>2. q # <<>> /\ Opening(Tail(q), ch) => Opening(q, ch)
  BY InTail DEF Opening
<1>3. \A r \in Seq(Frames) : Opening(q \o r, ch) <=> Opening(q, ch) \/ Opening(r, ch)
  BY InConcat DEF Opening
<1>4. ~Opening(<<>>, ch)
  BY InEmpty DEF Opening
<1> QED BY <1>1, <1>2, <1>3, <1>4

LEMMA DistinctOf ==
  ASSUME NEW q \in Seq(Frames), Distinct(q)
  PROVE  /\ \A f \in Frames : (f.t = "open" => ~Opening(q, f.ch))
                                => Distinct(Append(q, f))
         /\ \A f \in Frames : f.t # "open" => Distinct(Append(q, f))
         /\ q # <<>> => Distinct(Tail(q))
         /\ Distinct(<<>>)
<1>1. ASSUME NEW f \in Frames, f.t = "open" => ~Opening(q, f.ch)
      PROVE  Distinct(Append(q, f))
  <2> DEFINE r == Append(q, f)
             n == Len(q)
  <2>1. /\ DOMAIN r = 1 .. (n + 1) /\ n \in Nat /\ DOMAIN q = 1 .. n
        /\ \A i \in DOMAIN q : r[i] = q[i]
        /\ r[n + 1] = f
    BY InAppend
  <2>2. \A i \in DOMAIN r : i \in DOMAIN q \/ i = n + 1
    BY <2>1
  <2>3. \A i \in DOMAIN q : q[i].t = "open" /\ f.t = "open" => q[i].ch # f.ch
    BY <1>1 DEF Opening, In
  <2> HIDE DEF r, n
  <2>4. \A i, j \in DOMAIN r : i # j /\ r[i].t = "open" /\ r[j].t = "open" => r[i].ch # r[j].ch
    BY <2>1, <2>2, <2>3 DEF Distinct
  <2> QED BY <2>4 DEF Distinct, r
<1>2. ASSUME q # <<>>
      PROVE  Distinct(Tail(q))
  <2>1. \A i \in DOMAIN Tail(q) : i \in Nat /\ i + 1 \in DOMAIN q /\ Tail(q)[i] = q[i + 1]
    <3>1. Tail(q) \in Seq(Frames)
      BY <1>2, InTail
    <3> QED BY <1>2, <3>1, InTail, LenProperties
  <2>2. ASSUME NEW i \in DOMAIN Tail(q), NEW j \in DOMAIN Tail(q), i # j,
               Tail(q)[i].t = "open", Tail(q)[j].t = "open"
        PROVE  Tail(q)[i].ch # Tail(q)[j].ch
    <3>1. i + 1 # j + 1
      BY <2>1, <2>2
    <3> QED BY <2>1, <2>2, <3>1, ZenonT(60) DEF Distinct
  <2> QED BY <2>2, Zenon DEF Distinct
<1>3. Distinct(<<>>)
  BY DEF Distinct
<1> QED BY <1>1, <1>2, <1>3

\* Hello is on its way only once the agent has dialled, until it is read.
LEMMA GreetingStep ==
  ASSUME Base, [Next]_vars, NEW x \in Conns, Greeting(x)'
  PROVE  Greeting(x) \/ Dial(x)
<1>1. conn[x].toGateway \in Seq(Frames)
  BY TypesOf DEF Base, Typed, ConnTable, Connection
<1>2. AgentEndChange(x) /\ DeviceOfChange(x)
  BY AgentEndStep DEF Base
<1>3. ReadByGateway(x) \/ SentHello(x) \/ SentAnswer(x)
  BY ToGatewayStep DEF Base
<1>4. CASE conn'[x].agent = "dialing"
  BY <1>2, <1>4 DEF AgentEndChange, Greeting
<1>5. CASE Hello(conn'[x].toGateway)
  <2>1. ASSUME ReadByGateway(x)
        PROVE  Hello(conn[x].toGateway)
    BY <1>1, <1>5, <2>1, HelloOf DEF ReadByGateway
  <2>2. ASSUME SentHello(x)
        PROVE  conn[x].agent = "dialing"
    BY <2>2 DEF SentHello, Connected
  <2>3. ASSUME SentAnswer(x)
        PROVE  Hello(conn[x].toGateway)
    <3>1. PICK f \in Frames : Answers(f) /\ conn'[x].toGateway = Append(conn[x].toGateway, f)
      BY <2>3 DEF SentAnswer
    <3>2. f.t # "hello"
      BY <3>1 DEF Answers, AnswersOpen, AnswersFor
    <3> QED BY <1>1, <1>5, <3>1, <3>2, HelloOf
  <2> QED BY <1>3, <2>1, <2>2, <2>3 DEF Greeting
<1> QED BY <1>4, <1>5 DEF Greeting

\* Once the gateway has read hello, it is not on its way any more.
LEMMA Greeted ==
  ASSUME Base, NEW c \in Conns, RecvHello(c)
  PROVE  /\ Greeting(c) /\ ~Greeting(c)' /\ conn[c].agent \notin {"unused", "dialing"}
         /\ conn'[c].agent = conn[c].agent /\ conn[c].toGateway # <<>>
         /\ conn[c].gateway \in {"open", "closing"}
<1>1. conn[c].toGateway \in Seq(Frames) /\ conn[c].toGateway # <<>> /\ Head(conn[c].toGateway).t = "hello"
      /\ conn[c].gateway \in {"open", "closing"}
  BY TypesOf DEF RecvHello, Arrives, Base, Typed, ConnTable, Connection
<1>2. conn'[c].agent = conn[c].agent /\ conn'[c].toGateway = Tail(conn[c].toGateway)
  BY RecvHelloEffect DEF Base
<1>3. ForGateway(conn[c].toGateway)
  BY DEF Base, Addressed
<1>4. ~Hello(Tail(conn[c].toGateway)) /\ Hello(conn[c].toGateway)
  BY <1>1, <1>3, ForGatewayTail, InTail DEF Hello
<1>5. conn[c].agent \notin {"unused", "dialing"}
  BY <1>1 DEF Base, Wired, Ends
<1> QED BY <1>1, <1>2, <1>4, <1>5 DEF Greeting

\* A busy process was busy before, for the same terminal, or the agent has just
\* read the open it serves.
StaysBusy(p) == Busy(p) /\ pty'[p].ch = pty[p].ch /\ pty'[p].bound = pty[p].bound
TurnsBusy(p) ==
  LET f == Head(conn[tunnel].toAgent)
  IN  /\ tunnel # 0 /\ Reaches(tunnel, "open")
      /\ pty'[p].ch = f.ch /\ pty'[p].bound = f.for
      /\ conn'[tunnel].toAgent = Tail(conn[tunnel].toAgent)
CountsOn ==
  /\ Counting'
  /\ \A p \in Ptys : Busy(p)' => tunnel' = tunnel /\ (StaysBusy(p) \/ TurnsBusy(p))

\* A held pty is live; a live one is held under its own id.
LEMMA HeldIsAlive ==
  ASSUME Base, Counting
  PROVE  /\ \A p \in Ptys : pty[p].state # "free" => pty[p].ch \in ChannelIds
         /\ \A p \in Ptys : pty[p].state = "alive" <=> p \in Held
         /\ \A i \in ChannelIds : channels[i] # NoPty =>
              channels[i] \in Ptys /\ pty[channels[i]].ch = i /\ pty[channels[i]].state = "alive"
         /\ \A p \in Ptys : pty[p].state = "alive" => channels[pty[p].ch] = p /\ p # NoPty
<1>1. \A p \in Ptys : pty[p].state # "free" => pty[p].ch \in ChannelIds
  BY PtyIsNumbered DEF Base
<1>2. \A i \in ChannelIds : channels[i] # NoPty =>
        channels[i] \in Ptys /\ pty[channels[i]].ch = i /\ pty[channels[i]].state = "alive"
  BY TypesOf DEF Base, Sheltered, Typed
<1>3. \A p \in Ptys : pty[p].state = "alive" => channels[pty[p].ch] = p /\ p # NoPty
  BY NoValueAssumption DEF Counting
<1>4. \A p \in Ptys : pty[p].state = "alive" <=> p \in Held
  BY <1>1, <1>2, <1>3 DEF Held
<1> QED BY <1>1, <1>2, <1>3, <1>4

LEMMA RecvOpenHeldCounts ==
  ASSUME Base, Counting, Orderly, NEW c \in Conns, RecvOpenHeld(c)
  PROVE  CountsOn
<1> DEFINE f == Head(conn[c].toAgent)
           p == channels[f.ch]
<1>1. Reaches(c, "open") /\ p # NoPty
  BY DEF RecvOpenHeld
<1>2. /\ c = tunnel /\ tunnel # 0 /\ conn[c].toAgent # <<>> /\ f.ch \in ChannelIds
      /\ \A q \in Ptys : Busy(q) => pty[q].ch # f.ch
  BY <1>1, OpenFindsNoneBusy, ConnNotZero
<1>3. p \in Ptys /\ pty[p].ch = f.ch /\ pty[p].state = "alive"
  BY <1>1, <1>2, HeldIsAlive
<1>4. ~pty[p].attached
  BY <1>2, <1>3 DEF Busy
<1>5. \A q \in Ptys :
        /\ pty'[q].state = pty[q].state
        /\ pty'[q].ch = pty[q].ch
        /\ pty'[q].attached = (IF q = p /\ ~pty[p].attached THEN TRUE ELSE pty[q].attached)
        /\ pty'[q].timer = (IF q = p /\ ~pty[p].attached THEN FALSE ELSE pty[q].timer)
        /\ pty'[q].stray = pty[q].stray
        /\ pty'[q].owner = pty[q].owner
        /\ pty'[q].bound = (IF q = p /\ ~pty[p].attached THEN f.for ELSE pty[q].bound)
  BY RecvOpenHeldFields DEF Base
<1>6. tunnel' = tunnel /\ channels' = channels
  BY RecvOpenHeldFields DEF Base
<1>7. conn'[tunnel].toAgent = Tail(conn[tunnel].toAgent)
  BY <1>2, RecvOpenHeldEffect, Zenon DEF Base
<1>8. \A q \in Ptys : q # p => /\ pty'[q].attached = pty[q].attached /\ pty'[q].timer = pty[q].timer
                               /\ pty'[q].bound = pty[q].bound
  BY <1>5
<1>9. pty'[p].attached /\ ~pty'[p].timer /\ pty'[p].bound = f.for /\ pty'[p].ch = f.ch
  BY <1>3, <1>4, <1>5, Zenon
<1>10. \A q \in Ptys : pty'[q].state = pty[q].state /\ pty'[q].ch = pty[q].ch
  BY <1>5
<1>11. Reaches(tunnel, "open") /\ f = Head(conn[tunnel].toAgent)
  BY <1>1, <1>2
<1> HIDE DEF p, f
<1>12. Counting'
  BY <1>6, <1>8, <1>9, <1>10 DEF Counting
<1>13. \A q \in Ptys : Busy(q)' => StaysBusy(q) \/ TurnsBusy(q)
  <2> SUFFICES ASSUME NEW q \in Ptys, Busy(q)'
               PROVE  StaysBusy(q) \/ TurnsBusy(q)
    OBVIOUS
  <2>1. CASE q = p
    BY <1>2, <1>7, <1>9, <1>11, <2>1 DEF TurnsBusy
  <2>2. CASE q # p
    BY <1>8, <1>10, <2>2 DEF Busy, StaysBusy
  <2> QED BY <2>1, <2>2
<1> QED BY <1>6, <1>12, <1>13 DEF CountsOn

LEMMA RecvOpenNewCounts ==
  ASSUME Base, Counting, Orderly, NEW c \in Conns, NEW p \in Ptys, RecvOpenNew(c, p)
  PROVE  CountsOn
<1> DEFINE f == Head(conn[c].toAgent)
<1>1. Reaches(c, "open") /\ channels[f.ch] = NoPty /\ pty[p].state = "free"
  BY DEF RecvOpenNew
<1>2. /\ c = tunnel /\ tunnel # 0 /\ conn[c].toAgent # <<>> /\ f.ch \in ChannelIds
      /\ \A q \in Ptys : Busy(q) => pty[q].ch # f.ch
  BY <1>1, OpenFindsNoneBusy, ConnNotZero
<1>3. \A q \in Ptys :
        /\ pty'[q].state = (IF q = p THEN "spawning" ELSE pty[q].state)
        /\ pty'[q].ch = (IF q = p THEN f.ch ELSE pty[q].ch)
        /\ pty'[q].attached = (IF q = p THEN FALSE ELSE pty[q].attached)
        /\ pty'[q].timer = (IF q = p THEN FALSE ELSE pty[q].timer)
        /\ pty'[q].stray = (IF q = p THEN 0 ELSE pty[q].stray)
        /\ pty'[q].owner = (IF q = p THEN f.for ELSE pty[q].owner)
        /\ pty'[q].bound = (IF q = p THEN f.for ELSE pty[q].bound)
  BY RecvOpenNewFields DEF Base
<1>4. tunnel' = tunnel /\ channels' = channels
  BY RecvOpenNewFields DEF Base
<1>5. conn'[tunnel].toAgent = Tail(conn[tunnel].toAgent)
  BY <1>2, RecvOpenNewFields DEF Base
<1>6. \A q \in Ptys : pty[q].state \in {"spawning", "alive"} => pty[q].ch # f.ch
  <2>1. ASSUME NEW q \in Ptys, pty[q].state = "spawning"
        PROVE  pty[q].ch # f.ch
    BY <1>2, <2>1 DEF Busy
  <2>2. ASSUME NEW q \in Ptys, pty[q].state = "alive"
        PROVE  pty[q].ch # f.ch
    BY <1>1, <2>2, HeldIsAlive
  <2> QED BY <2>1, <2>2
<1>7. Reaches(tunnel, "open") /\ f = Head(conn[tunnel].toAgent)
  BY <1>1, <1>2
<1> HIDE DEF f
<1>8. /\ \A q \in Ptys : q # p => /\ pty'[q].state = pty[q].state /\ pty'[q].ch = pty[q].ch
                                  /\ pty'[q].attached = pty[q].attached
                                  /\ pty'[q].timer = pty[q].timer
      /\ pty'[p].state = "spawning" /\ pty'[p].ch = f.ch /\ ~pty'[p].timer
  BY <1>3
<1>9. \A q \in Ptys : pty'[q].timer => pty'[q].state = "alive"
  BY <1>8, ZenonT(60) DEF Counting
<1>10. Counting'
  <2>1. \A q \in Ptys : pty'[q].state = "alive" =>
          channels'[pty'[q].ch] = q /\ (pty'[q].attached <=> ~pty'[q].timer)
    BY <1>4, <1>8 DEF Counting
  <2>2. \A q, r \in Ptys : q # r /\ pty'[q].state = "spawning" /\ pty'[r].state \in {"spawning", "alive"}
                             => pty'[q].ch # pty'[r].ch
    BY <1>6, <1>8 DEF Counting
  <2> QED BY <1>9, <2>1, <2>2 DEF Counting
<1>11. \A q \in Ptys : Busy(q)' => StaysBusy(q) \/ TurnsBusy(q)
  <2> SUFFICES ASSUME NEW q \in Ptys, Busy(q)'
               PROVE  StaysBusy(q) \/ TurnsBusy(q)
    OBVIOUS
  <2>1. CASE q = p
    BY <1>2, <1>3, <1>5, <1>7, <2>1 DEF TurnsBusy
  <2>2. CASE q # p
    BY <1>3, <2>2 DEF Busy, StaysBusy
  <2> QED BY <2>1, <2>2
<1> QED BY <1>4, <1>10, <1>11 DEF CountsOn

LEMMA RecvCloseCounts ==
  ASSUME Base, Counting, NEW c \in Conns, RecvClose(c)
  PROVE  CountsOn
<1> DEFINE f == Head(conn[c].toAgent)
<1>1. conn[c].toAgent # <<>> /\ f.t = "close"
  BY RecvCloseFields DEF Base
<1>2. f.ch \in ChannelIds
  BY <1>1, OpenIsNumbered DEF Base
<1>3. \A x \in Ptys :
        /\ x # channels[f.ch] => pty'[x] = pty[x]
        /\ x = channels[f.ch] =>
             /\ pty'[x].state = (IF pty[x].state = "alive" THEN "killed" ELSE pty[x].state)
             /\ pty'[x].ch = pty[x].ch /\ pty'[x].attached = pty[x].attached
             /\ pty'[x].timer = FALSE /\ pty'[x].stray = pty[x].stray
             /\ pty'[x].owner = pty[x].owner /\ pty'[x].bound = pty[x].bound
  BY RecvCloseEffect DEF Base
<1>4. \A i \in ChannelIds : channels'[i] = IF i = f.ch THEN NoPty ELSE channels[i]
  BY RecvCloseEffect DEF Base
<1>5. tunnel' = tunnel
  BY RecvCloseFields DEF Base
<1> HIDE DEF f
<1>6. \A x \in Ptys : x = channels[f.ch] => pty'[x].state = "killed" /\ ~pty'[x].timer
  BY <1>2, <1>3, HeldIsAlive, NoValueAssumption
<1>7. \A x \in Ptys : pty'[x].state \in {"spawning", "alive"} \/ pty'[x].timer => pty'[x] = pty[x]
  BY <1>3, <1>6
<1>8. \A x \in Ptys : pty'[x].state = "alive" => channels'[pty'[x].ch] = x
  <2> SUFFICES ASSUME NEW x \in Ptys, pty'[x].state = "alive"
               PROVE  channels'[pty'[x].ch] = x
    OBVIOUS
  <2>1. pty'[x] = pty[x]
    BY <1>7
  <2>2. channels[pty[x].ch] = x /\ pty[x].ch \in ChannelIds
    BY <2>1, HeldIsAlive
  <2>3. pty[x].ch # f.ch
    BY <1>6, <2>2
  <2> QED BY <1>4, <2>1, <2>2, <2>3
<1>9. Counting'
  BY <1>7, <1>8 DEF Counting
<1>10. \A x \in Ptys : Busy(x)' => StaysBusy(x)
  BY <1>7 DEF Busy, StaysBusy
<1> QED BY <1>5, <1>9, <1>10 DEF CountsOn

LEMMA RecvKillCounts ==
  ASSUME Base, Counting, NEW c \in Conns, RecvKill(c)
  PROVE  CountsOn
<1>1. \A x \in Ptys :
        /\ x \notin Held => pty'[x] = pty[x]
        /\ x \in Held =>
             /\ pty'[x].state = (IF pty[x].state = "alive" THEN "killed" ELSE pty[x].state)
             /\ pty'[x].ch = pty[x].ch /\ pty'[x].attached = pty[x].attached
             /\ pty'[x].timer = FALSE /\ pty'[x].stray = pty[x].stray
             /\ pty'[x].owner = pty[x].owner /\ pty'[x].bound = pty[x].bound
  BY RecvKillEffect, Zenon DEF Base
<1>2. tunnel' = tunnel
  BY RecvKillFields DEF Base
<1>3. \A x \in Ptys : x \in Held => pty'[x].state = "killed" /\ ~pty'[x].timer
  BY <1>1, HeldIsAlive
<1>4. \A x \in Ptys : pty'[x].state # "alive" /\ ~pty'[x].timer
  BY <1>1, <1>3, HeldIsAlive DEF Counting
<1>5. \A x \in Ptys : pty'[x].state = "spawning" => pty'[x] = pty[x]
  BY <1>1, <1>3
<1>6. Counting'
  BY <1>4, <1>5 DEF Counting
<1>7. \A x \in Ptys : Busy(x)' => StaysBusy(x)
  BY <1>4, <1>5 DEF Busy, StaysBusy
<1> QED BY <1>2, <1>6, <1>7 DEF CountsOn

LEMMA SpawnedCounts ==
  ASSUME Base, Counting, NEW p \in Ptys, Spawned(p)
  PROVE  CountsOn
<1>1. \A q \in Ptys :
        /\ pty'[q].state = (IF q = p THEN "alive" ELSE pty[q].state)
        /\ pty'[q].ch = pty[q].ch
        /\ pty'[q].attached = (IF q = p THEN TRUE ELSE pty[q].attached)
        /\ pty'[q].timer = pty[q].timer
        /\ pty'[q].stray = pty[q].stray
        /\ pty'[q].owner = pty[q].owner
        /\ pty'[q].bound = pty[q].bound
  BY SpawnedFields DEF Base
<1>2. pty[p].state = "spawning" /\ tunnel' = tunnel
  BY SpawnedFields DEF Base
<1>3. \A i \in ChannelIds : channels'[i] = IF i = pty[p].ch THEN p ELSE channels[i]
  BY SpawnedEffect, Zenon DEF Base
<1>4. pty[p].ch \in ChannelIds /\ ~pty[p].timer
  BY <1>2, HeldIsAlive DEF Base, Sheltered
<1>5. \A q \in Ptys : q # p /\ pty[q].state \in {"spawning", "alive"} => pty[q].ch # pty[p].ch
  BY <1>2 DEF Counting
<1>6. \A q \in Ptys : q # p => /\ pty'[q].state = pty[q].state /\ pty'[q].attached = pty[q].attached
  BY <1>1
<1>7. pty'[p].state = "alive" /\ pty'[p].attached
  BY <1>1
<1>8. \A q \in Ptys : pty'[q].ch = pty[q].ch /\ pty'[q].timer = pty[q].timer /\ pty'[q].bound = pty[q].bound
  BY <1>1
<1>9. \A q \in Ptys : pty'[q].state = "alive" =>
        channels'[pty'[q].ch] = q /\ (pty'[q].attached <=> ~pty'[q].timer)
  <2> SUFFICES ASSUME NEW q \in Ptys, pty'[q].state = "alive"
               PROVE  channels'[pty'[q].ch] = q /\ (pty'[q].attached <=> ~pty'[q].timer)
    OBVIOUS
  <2>1. CASE q = p
    BY <1>3, <1>4, <1>7, <1>8, <2>1
  <2>2. CASE q # p
    <3>1. pty[q].state = "alive" /\ pty[q].ch \in ChannelIds /\ channels[pty[q].ch] = q
      BY <1>6, <2>2, HeldIsAlive
    <3>2. pty[q].ch # pty[p].ch
      BY <1>5, <2>2, <3>1
    <3>3. pty'[q].attached <=> ~pty'[q].timer
      BY <1>6, <1>8, <2>2, <3>1 DEF Counting
    <3> QED BY <1>3, <1>8, <3>1, <3>2, <3>3
  <2> QED BY <2>1, <2>2
<1>10. \A q \in Ptys : pty'[q].timer => pty'[q].state = "alive"
  BY <1>4, <1>6, <1>8 DEF Counting
<1>11. \A q, r \in Ptys : q # r /\ pty'[q].state = "spawning" /\ pty'[r].state \in {"spawning", "alive"}
                            => pty'[q].ch # pty'[r].ch
  <2>1. \A q \in Ptys : pty'[q].state = "spawning" => q # p /\ pty[q].state = "spawning"
    BY <1>6, <1>7
  <2>2. \A r \in Ptys : pty'[r].state \in {"spawning", "alive"} => pty[r].state \in {"spawning", "alive"}
    BY <1>2, <1>6
  <2> QED BY <1>8, <2>1, <2>2 DEF Counting
<1>12. Counting'
  BY <1>9, <1>10, <1>11 DEF Counting
<1>13. \A q \in Ptys : Busy(q)' => StaysBusy(q)
  BY <1>2, <1>6, <1>8 DEF Busy, StaysBusy
<1> QED BY <1>2, <1>12, <1>13 DEF CountsOn

LEMMA SpawnFailsCounts ==
  ASSUME Base, Counting, NEW p \in Ptys, SpawnFails(p)
  PROVE  CountsOn
<1>1. \A q \in Ptys : pty'[q] = IF q = p THEN FreePty ELSE pty[q]
  BY SpawnFailsEffect DEF Base
<1>2. tunnel' = tunnel /\ channels' = channels
  BY SpawnFailsFields DEF Base
<1>3. pty'[p].state = "free" /\ ~pty'[p].timer
  BY <1>1 DEF FreePty
<1>4. \A q \in Ptys : pty'[q].state \in {"spawning", "alive"} \/ pty'[q].timer => pty'[q] = pty[q]
  BY <1>1, <1>3
<1>5. Counting'
  BY <1>2, <1>4 DEF Counting
<1>6. \A q \in Ptys : Busy(q)' => StaysBusy(q)
  BY <1>4 DEF Busy, StaysBusy
<1> QED BY <1>2, <1>5, <1>6 DEF CountsOn

LEMMA PtyExitsCounts ==
  ASSUME Base, Counting, [Next]_vars, Unraced(Drops)', NEW p \in Ptys, PtyExits(p)
  PROVE  CountsOn
<1> DEFINE ch == pty[p].ch
<1>1. pty[p].state \in {"alive", "killed"} /\ tunnel' = tunnel
  BY PtyExitsFields DEF Base
<1>2. \A x \in Ptys :
        \/ pty'[x] = FreePty /\ (x = p \/ pty[x].state = "dead")
        \/ /\ pty'[x].state = (IF x = p THEN "dead" ELSE pty[x].state)
           /\ pty'[x].ch = pty[x].ch /\ pty'[x].attached = pty[x].attached
           /\ pty'[x].timer = (pty[x].timer /\ x # channels[ch])
           /\ pty'[x].stray = pty[x].stray
           /\ pty'[x].owner = pty[x].owner /\ pty'[x].bound = pty[x].bound
  BY PtyExitsEffect DEF Base
<1>3. \A i \in ChannelIds : channels'[i] = IF i = ch THEN NoPty ELSE channels[i]
  BY PtyExitsEffect DEF Base
<1>4. ch \in ChannelIds
  BY <1>1, HeldIsAlive
<1>5. pty[p].state = "killed" => channels[ch] = NoPty
  <2>1. raced' = raced \cup Mark("lateExit",
              /\ pty[p].state = "killed"
              /\ \/ channels[ch] # NoPty
                 \/ /\ pty[p].attached
                    /\ tunnel # 0
                    /\ conn[tunnel].device # shell[pty[p].bound].device)
    BY PtyExitsEffect DEF Base
  <2>2. "lateExit" \notin raced'
    BY UnracedDrops
  <2> QED BY <2>1, <2>2 DEF Mark
<1>6. pty[p].state = "alive" => channels[ch] = p
  BY HeldIsAlive
<1>7. pty'[p].state \in {"dead", "free"} /\ ~pty'[p].timer
  <2>1. ~(pty[p].timer /\ p # channels[ch])
    BY <1>1, <1>6 DEF Counting
  <2>2. FreePty.state = "free" /\ ~FreePty.timer
    BY DEF FreePty
  <2>3. CASE pty'[p] = FreePty
    BY <2>2, <2>3
  <2>4. CASE pty'[p] # FreePty
    BY <1>2, <2>1, <2>4
  <2> QED BY <2>3, <2>4
<1>8. \A q \in Ptys : q # p /\ pty[q].state = "alive" => pty[q].ch # ch /\ q # channels[ch]
  <2> SUFFICES ASSUME NEW q \in Ptys, q # p, pty[q].state = "alive"
               PROVE  pty[q].ch # ch /\ q # channels[ch]
    OBVIOUS
  <2>1. channels[pty[q].ch] = q /\ q # NoPty
    BY HeldIsAlive
  <2>2. channels[ch] # q
    BY <1>1, <1>5, <1>6, <2>1
  <2> QED BY <2>1, <2>2
<1> HIDE DEF ch
<1>9. \A q \in Ptys : pty'[q].state \in {"spawning", "alive"} =>
        /\ q # p /\ pty'[q].state = pty[q].state /\ pty'[q].ch = pty[q].ch /\ pty'[q].attached = pty[q].attached
        /\ pty'[q].timer = (pty[q].timer /\ q # channels[ch]) /\ pty'[q].bound = pty[q].bound
  BY <1>2, <1>7 DEF FreePty
<1>10. \A q \in Ptys : pty'[q].timer => pty'[q].state = "alive"
  <2> SUFFICES ASSUME NEW q \in Ptys, pty'[q].timer
               PROVE  pty'[q].state = "alive"
    OBVIOUS
  <2>1. q # p /\ pty'[q] # FreePty
    BY <1>7 DEF FreePty
  <2>2. pty[q].timer /\ pty'[q].state = pty[q].state
    BY <1>2, <2>1
  <2> QED BY <2>2 DEF Counting
<1>11. \A q \in Ptys : pty'[q].state = "alive" =>
         channels'[pty'[q].ch] = q /\ (pty'[q].attached <=> ~pty'[q].timer)
  <2> SUFFICES ASSUME NEW q \in Ptys, pty'[q].state = "alive"
               PROVE  channels'[pty'[q].ch] = q /\ (pty'[q].attached <=> ~pty'[q].timer)
    OBVIOUS
  <2>1. /\ q # p /\ pty[q].state = "alive" /\ pty'[q].ch = pty[q].ch /\ pty'[q].attached = pty[q].attached
        /\ pty'[q].timer = (pty[q].timer /\ q # channels[ch])
    BY <1>9
  <2>2. pty[q].ch # ch /\ q # channels[ch]
    BY <1>8, <2>1
  <2>3. channels[pty[q].ch] = q /\ pty[q].ch \in ChannelIds
    BY <2>1, HeldIsAlive
  <2>4. pty[q].attached <=> ~pty[q].timer
    BY <2>1 DEF Counting
  <2>5. channels'[pty'[q].ch] = q
    BY <1>3, <2>1, <2>2, <2>3
  <2> QED BY <2>1, <2>2, <2>4, <2>5
<1>12. \A q, r \in Ptys : q # r /\ pty'[q].state = "spawning" /\ pty'[r].state \in {"spawning", "alive"}
                            => pty'[q].ch # pty'[r].ch
  <2> SUFFICES ASSUME NEW q \in Ptys, NEW r \in Ptys, q # r, pty'[q].state = "spawning",
                      pty'[r].state \in {"spawning", "alive"}
               PROVE  pty'[q].ch # pty'[r].ch
    OBVIOUS
  <2>1. /\ pty[q].state = "spawning" /\ pty[r].state \in {"spawning", "alive"}
        /\ pty'[q].ch = pty[q].ch /\ pty'[r].ch = pty[r].ch
    BY <1>9
  <2> QED BY <2>1 DEF Counting
<1>13. Counting'
  BY <1>10, <1>11, <1>12 DEF Counting
<1>14. \A q \in Ptys : Busy(q)' => StaysBusy(q)
  BY <1>9 DEF Busy, StaysBusy
<1> QED BY <1>1, <1>13, <1>14 DEF CountsOn

LEMMA AgentGraceFiresCounts ==
  ASSUME Base, Counting, [Next]_vars, Unraced(Drops)', NEW p \in Ptys, AgentGraceFires(p)
  PROVE  CountsOn
<1> DEFINE ch == pty[p].ch
<1>1. pty[p].timer /\ pty[p].stray = 0 /\ pty[p].state = "alive"
  <2>1. pty[p].timer \/ pty[p].stray > 0
    BY AgentGraceFiresEffect DEF Base
  <2>2. pty[p].stray = 0
    BY UnracedDrops
  <2> QED BY <2>1, <2>2 DEF Counting
<1>2. channels[ch] = p /\ ch \in ChannelIds
  BY <1>1, HeldIsAlive
<1>3. \A x \in Ptys :
        \/ pty'[x] = FreePty /\ pty[x].state = "dead"
        \/ /\ pty'[x].state = (IF x = p /\ pty[x].state = "alive" THEN "killed" ELSE pty[x].state)
           /\ pty'[x].ch = pty[x].ch /\ pty'[x].attached = pty[x].attached
           /\ x # p => pty'[x].timer = (pty[x].timer /\ x # channels[pty[p].ch])
           /\ x # p => pty'[x].stray = pty[x].stray
           /\ pty'[x].owner = pty[x].owner /\ pty'[x].bound = pty[x].bound
           /\ pty'[x].stray <= pty[x].stray
           /\ pty'[x].timer => pty[x].timer
           /\ x = p /\ pty[p].stray = 0 => ~pty'[x].timer
  BY AgentGraceFiresEffect DEF Base
<1>4. \A i \in ChannelIds : channels'[i] = IF i = ch THEN NoPty ELSE channels[i]
  BY AgentGraceFiresEffect DEF Base
<1>5. tunnel' = tunnel
  BY DEF AgentGraceFires
<1>6. pty'[p].state = "killed" /\ ~pty'[p].timer
  BY <1>1, <1>3
<1>7. \A q \in Ptys : q # p => \/ pty'[q] = FreePty /\ pty[q].state = "dead"
                               \/ /\ pty'[q].state = pty[q].state /\ pty'[q].ch = pty[q].ch
                                  /\ pty'[q].attached = pty[q].attached /\ pty'[q].bound = pty[q].bound
                                  /\ pty'[q].timer = pty[q].timer
  <2> SUFFICES ASSUME NEW q \in Ptys, q # p, pty'[q] # FreePty \/ pty[q].state # "dead"
               PROVE  /\ pty'[q].state = pty[q].state /\ pty'[q].ch = pty[q].ch
                      /\ pty'[q].attached = pty[q].attached /\ pty'[q].bound = pty[q].bound
                      /\ pty'[q].timer = pty[q].timer
    OBVIOUS
  <2>1. pty'[q].timer = (pty[q].timer /\ q # channels[pty[p].ch])
    BY <1>3
  <2>2. pty'[q].timer \in BOOLEAN /\ pty[q].timer \in BOOLEAN
    <3>1. pty \in [Ptys -> Process] /\ pty' \in [Ptys -> Process]
      BY AgentGraceFiresEffect, TypesOf, TypesOfNext DEF Base, Typed
    <3> QED BY <3>1 DEF Process
  <2>3. pty'[q].timer = pty[q].timer
    BY <1>2, <2>1, <2>2
  <2> QED BY <1>3, <2>3
<1> HIDE DEF ch
<1>8. \A q \in Ptys : pty'[q].state \in {"spawning", "alive"} \/ pty'[q].timer =>
        /\ q # p /\ pty'[q].state = pty[q].state /\ pty'[q].ch = pty[q].ch
        /\ pty'[q].attached = pty[q].attached /\ pty'[q].timer = pty[q].timer /\ pty'[q].bound = pty[q].bound
  BY <1>6, <1>7 DEF FreePty
<1>9. \A q \in Ptys : pty'[q].timer => pty'[q].state = "alive"
  BY <1>8, ZenonT(60) DEF Counting
<1>10. \A q \in Ptys : pty'[q].state = "alive" =>
         channels'[pty'[q].ch] = q /\ (pty'[q].attached <=> ~pty'[q].timer)
  <2> SUFFICES ASSUME NEW q \in Ptys, pty'[q].state = "alive"
               PROVE  channels'[pty'[q].ch] = q /\ (pty'[q].attached <=> ~pty'[q].timer)
    OBVIOUS
  <2>1. /\ q # p /\ pty[q].state = "alive" /\ pty'[q].ch = pty[q].ch
        /\ pty'[q].attached = pty[q].attached /\ pty'[q].timer = pty[q].timer
    BY <1>8
  <2>2. channels[pty[q].ch] = q /\ pty[q].ch \in ChannelIds
    BY <2>1, HeldIsAlive
  <2>3. pty[q].ch # ch
    BY <1>2, <2>1, <2>2
  <2>4. pty[q].attached <=> ~pty[q].timer
    BY <2>1 DEF Counting
  <2>5. channels'[pty'[q].ch] = q
    BY <1>4, <2>1, <2>2, <2>3
  <2> QED BY <2>1, <2>4, <2>5
<1>11. \A q, r \in Ptys : q # r /\ pty'[q].state = "spawning" /\ pty'[r].state \in {"spawning", "alive"}
                            => pty'[q].ch # pty'[r].ch
  <2> SUFFICES ASSUME NEW q \in Ptys, NEW r \in Ptys, q # r, pty'[q].state = "spawning",
                      pty'[r].state \in {"spawning", "alive"}
               PROVE  pty'[q].ch # pty'[r].ch
    OBVIOUS
  <2>1. /\ pty[q].state = "spawning" /\ pty[r].state \in {"spawning", "alive"}
        /\ pty'[q].ch = pty[q].ch /\ pty'[r].ch = pty[r].ch
    BY <1>8
  <2> QED BY <2>1 DEF Counting
<1>12. Counting'
  BY <1>9, <1>10, <1>11 DEF Counting
<1>13. \A q \in Ptys : Busy(q)' => StaysBusy(q)
  BY <1>8 DEF Busy, StaysBusy
<1> QED BY <1>5, <1>12, <1>13 DEF CountsOn

LEMMA CountingStep ==
  ASSUME Base, Counting, Tended, Orderly, [Next]_vars, Unraced(Drops)'
  PROVE  CountsOn
<1>1. CASE ~Handles
  <2>1. UNCHANGED <<channels, pty>>
    BY <1>1, HandlesOrRests
  <2>2. Counting'
    BY <2>1 DEF Counting
  <2>3. tunnel' = tunnel \/ tunnel = 0
    BY <1>1, TunnelStep, Zenon DEF Base, Handles
  <2>4. \A p \in Ptys : Busy(p)' => StaysBusy(p)
    BY <2>1 DEF Busy, StaysBusy
  <2>5. \A p \in Ptys : StaysBusy(p) => tunnel # 0
    BY DEF StaysBusy, Tended
  <2> QED BY <2>2, <2>3, <2>4, <2>5 DEF CountsOn
<1>2. ASSUME DialFails
      PROVE  CountsOn
  <2>1. Disconnected({}) /\ UNCHANGED channels
    BY <1>2, Zenon DEF DialFails
  <2> QED BY <2>1, DropCounts DEF CountsOn
<1>3. ASSUME AgentRestarts
      PROVE  CountsOn
  <2>1. \A p \in Ptys : pty'[p] = FreePty
    BY <1>3, Zenon DEF AgentRestarts
  <2>2. \A p \in Ptys : pty'[p].state = "free" /\ ~pty'[p].timer
    BY <2>1 DEF FreePty
  <2>3. Counting' /\ \A p \in Ptys : ~Busy(p)'
    BY <2>2 DEF Counting, Busy
  <2> QED BY <2>3 DEF CountsOn
<1>4. ASSUME NEW c \in Conns, AgentSeesClose(c)
      PROVE  CountsOn
  <2>1. PICK R : Disconnected(R)
    BY <1>4, Zenon DEF AgentSeesClose
  <2>2. UNCHANGED channels
    BY <1>4, Zenon DEF AgentSeesClose
  <2> QED BY <2>1, <2>2, DropCounts DEF CountsOn
<1>5. ASSUME NEW c \in Conns, RecvOpenHeld(c)
      PROVE  CountsOn
  BY <1>5, RecvOpenHeldCounts
<1>6. ASSUME NEW c \in Conns, RecvClose(c)
      PROVE  CountsOn
  BY <1>6, RecvCloseCounts
<1>7. ASSUME NEW c \in Conns, RecvKill(c)
      PROVE  CountsOn
  BY <1>7, RecvKillCounts
<1>8. ASSUME NEW c \in Conns, NEW p \in Ptys, RecvOpenNew(c, p)
      PROVE  CountsOn
  BY <1>8, RecvOpenNewCounts
<1>9. ASSUME NEW p \in Ptys, Spawned(p)
      PROVE  CountsOn
  BY <1>9, SpawnedCounts
<1>10. ASSUME NEW p \in Ptys, SpawnFails(p)
       PROVE  CountsOn
  BY <1>10, SpawnFailsCounts
<1>11. ASSUME NEW p \in Ptys, PtyExits(p)
       PROVE  CountsOn
  BY <1>11, PtyExitsCounts
<1>12. ASSUME NEW p \in Ptys, AgentGraceFires(p)
       PROVE  CountsOn
  BY <1>12, AgentGraceFiresCounts
<1> QED
  BY <1>1, <1>2, <1>3, <1>4, <1>5, <1>6, <1>7, <1>8, <1>9, <1>10, <1>11, <1>12, Zenon DEF Handles

LEMMA TendedStep ==
  ASSUME Base, Counting, Tended, Orderly, [Next]_vars, Unraced(Drops)'
  PROVE  Tended'
<1> SUFFICES ASSUME NEW p \in Ptys, Busy(p)'
             PROVE  (/\ tunnel # 0 /\ ~Greeting(tunnel)
                     /\ shell[pty[p].bound].device = conn[tunnel].device)'
  BY DEF Tended
<1>0. PICK x \in Conns \cup {0} : x = tunnel
  BY TypesOf DEF Base, Typed
<1> DEFINE f == Head(conn[x].toAgent)
<1>1. tunnel' = x /\ (StaysBusy(p) \/ TurnsBusy(p))
  BY <1>0, CountingStep DEF CountsOn
<1>2. ASSUME StaysBusy(p)
      PROVE  /\ x # 0 /\ ~Greeting(x) /\ shell[pty[p].bound].device = conn[x].device
             /\ pty'[p].bound = pty[p].bound /\ pty[p].bound \in Shells /\ shell[pty[p].bound].state # "idle"
  <2>1. Busy(p) /\ pty'[p].bound = pty[p].bound
    BY <1>2 DEF StaysBusy
  <2>2. pty[p].state # "free"
    BY <2>1 DEF Busy
  <2> QED BY <1>0, <2>1, <2>2 DEF Tended, Base, Served
<1>3. ASSUME TurnsBusy(p)
      PROVE  /\ x # 0 /\ ~Greeting(x) /\ shell[f.for].device = conn[x].device
             /\ pty'[p].bound = f.for /\ f.for \in Shells /\ shell[f.for].state # "idle"
  <2>1. x # 0 /\ Reaches(x, "open") /\ pty'[p].bound = f.for
    BY <1>0, <1>3 DEF TurnsBusy
  <2>2. x \in Conns
    BY <1>0, <2>1
  <2> QED BY <2>1, <2>2, OpenFindsNoneBusy DEF About
<1>4. x # 0 /\ ~Greeting(x) /\ pty'[p].bound \in Shells /\ shell[pty'[p].bound].state # "idle"
      /\ shell[pty'[p].bound].device = conn[x].device
  BY <1>1, <1>2, <1>3
<1>5. x \in Conns
  BY <1>4
<1>6. ~Dial(x) /\ ~Accept(x) /\ ~DialFails
  BY <1>0, <1>4 DEF Dial, Accept, DialFails, Greeting
<1> HIDE DEF f
<1>7. ~Greeting(x)'
  BY <1>4, <1>5, <1>6, GreetingStep
<1>8. conn'[x].device = conn[x].device
  BY <1>5, <1>6, AgentEndStep DEF Base, DeviceOfChange
<1>9. shell'[pty'[p].bound].device = shell[pty'[p].bound].device
  BY <1>4, TerminalsKept DEF Base
<1> QED BY <1>1, <1>4, <1>7, <1>8, <1>9 DEF Greeting

\* A terminal opened over a connection that has said hello; a resume answers it.
LEMMA SentWhen ==
  ASSUME Base, Met, [Next]_vars, Unraced(Drops)', NEW x \in Conns
  PROVE  /\ \A s \in Shells : SentOpen(x, s) =>
              /\ ~Greeting(x) /\ conn[x].device = devices
              /\ \A i \in Shells : shell[i].state # "idle" /\ shell[i].device = devices
                                     => shell[i].ch < device[devices].next
         /\ \A c \in Conns : SentResume(x, c) => x = c /\ Greeting(x) /\ ~Greeting(x)'
<1>1. "staleSocket" \notin raced'
  BY UnracedDrops
<1>2. ASSUME NEW s \in Shells, SentOpen(x, s)
      PROVE  /\ ~Greeting(x) /\ conn[x].device = devices
             /\ \A i \in Shells : shell[i].state # "idle" /\ shell[i].device = devices
                                    => shell[i].ch < device[devices].next
  <2>1. OpenShell(s) /\ x = device[devices].socket
    BY <1>2 DEF SentOpen
  <2>2. devices \in Conns /\ Online(devices) /\ raced' = raced \cup Mark("staleSocket", device[devices].hello # device[devices].socket)
    BY <2>1, OpenShellFields DEF Base
  <2>3. device[devices].hello = x /\ x # 0
    BY <1>1, <2>1, <2>2 DEF Mark, Online
  <2>4. ~Greeting(x)
    BY <2>2, <2>3 DEF Met
  <2>5. conn[x].device = devices
    BY <2>1, <2>2, <2>3 DEF Base, Wired, Sockets
  <2> QED BY <2>4, <2>5 DEF Base, Numbered
<1>3. ASSUME NEW c \in Conns, SentResume(x, c)
      PROVE  x = c /\ Greeting(x) /\ ~Greeting(x)'
  <2>1. RecvHello(c) /\ x = device[conn[c].device].socket
    BY <1>3, Zenon DEF SentResume
  <2>2. raced' = raced \cup Stale(c)
    BY <2>1, RecvHelloFields DEF Base
  <2>3. x = c
    BY <1>1, <2>1, <2>2 DEF Stale, Mark
  <2> QED BY <2>1, <2>3, Greeted
<1> QED BY <1>2, <1>3

\* What the agent is still to open, after a step.
LEMMA OpeningStep ==
  ASSUME Base, Met, [Next]_vars, Unraced(Drops)', NEW x \in Conns, NEW ch, Opening(conn'[x].toAgent, ch)
  PROVE  \/ Opening(conn[x].toAgent, ch)
         \/ ~Greeting(x) /\ ~Greeting(x)' /\ conn[x].device = devices /\ ch = device[devices].next
         \/ Greeting(x) /\ ~Greeting(x)'
<1>1. conn[x].toAgent \in Seq(Frames)
  BY TypesOf DEF Base, Typed, ConnTable, Connection
<1>2. \/ ReadByAgent(x) \/ SentKill(x)
      \/ \E s \in Shells : SentClose(x, s) \/ SentOpen(x, s)
      \/ \E c \in Conns : SentResume(x, c)
  BY ToAgentStep DEF Base
<1>3. ASSUME ReadByAgent(x)
      PROVE  Opening(conn[x].toAgent, ch)
  BY <1>1, <1>3, OpeningOf DEF ReadByAgent
<1>4. ASSUME SentKill(x)
      PROVE  Opening(conn[x].toAgent, ch)
  BY <1>1, <1>4, OpeningOf DEF SentKill
<1>5. ASSUME NEW s \in Shells, SentClose(x, s)
      PROVE  Opening(conn[x].toAgent, ch)
  <2>1. PICK f \in Frames : f.t = "close" /\ conn'[x].toAgent = Append(conn[x].toAgent, f)
    BY <1>5, Zenon DEF SentClose
  <2> QED BY <1>1, <2>1, OpeningOf
<1>6. ASSUME NEW s \in Shells, SentOpen(x, s), ~Opening(conn[x].toAgent, ch)
      PROVE  ~Greeting(x) /\ ~Greeting(x)' /\ conn[x].device = devices /\ ch = device[devices].next
  <2>1. ~Greeting(x) /\ conn[x].device = devices
    BY <1>6, SentWhen
  <2>2. PICK f \in Frames : /\ f.t = "open" /\ f.ch = device[devices].next /\ f.for = s
                            /\ conn'[x].toAgent = Append(conn[x].toAgent, f)
    BY <1>6 DEF SentOpen
  <2>3. ch = device[devices].next
    BY <1>1, <1>6, <2>2, OpeningOf
  <2>4. conn'[x].agent = conn[x].agent /\ conn'[x].toGateway = conn[x].toGateway
    BY <1>6, OpenShellFields, ZenonT(40) DEF SentOpen, Base
  <2>5. ~Greeting(x)'
    BY <2>1, <2>4 DEF Greeting
  <2> QED BY <2>1, <2>3, <2>5
<1>7. ASSUME NEW c \in Conns, SentResume(x, c)
      PROVE  Greeting(x) /\ ~Greeting(x)'
  BY <1>7, SentWhen
<1> QED BY <1>2, <1>3, <1>4, <1>5, <1>6, <1>7

LEMMA ResumeIsDistinct ==
  ASSUME Base, NEW d \in Conns, NEW ids \in InOrder(ListedIds(d)), NEW q \in Seq(Frames),
         Distinct(q), \A ch \in ChannelIds : ~Opening(q, ch),
         \A f \in In(q) : f.t = "open" => f.ch \in ChannelIds
  PROVE  Distinct(q \o ResumeFrames(d, ids))
<1> DEFINE r == ResumeFrames(d, ids)
           n == Len(q)
           m == Len(r)
<1>1. /\ r \in Seq(Frames)
      /\ \A i, j \in 1 .. Len(r) : i < j => r[i].ch < r[j].ch
  BY ResumeFramesEffect, TypesOf DEF Base, Typed
<1>2. /\ n \in Nat /\ m \in Nat /\ DOMAIN q = 1 .. n /\ DOMAIN (q \o r) = 1 .. (n + m)
      /\ \A i \in 1 .. (n + m) : (q \o r)[i] = IF i <= n THEN q[i] ELSE r[i - n]
  BY <1>1, InConcat
<1>3. \A i \in 1 .. n : q[i].t # "open"
  BY <1>2 DEF Opening, In
<1>4. \A i, j \in 1 .. m : i # j => r[i].ch # r[j].ch
  <2> SUFFICES ASSUME NEW i \in 1 .. m, NEW j \in 1 .. m, i < j
               PROVE  r[i].ch # r[j].ch
    BY <1>2
  <2>1. r[i] \in Frames /\ r[j] \in Frames
    BY <1>1, ElementOfSeq
  <2>2. r[i].ch \in Int /\ r[j].ch \in Int
    BY <2>1, CardType DEF Frames
  <2>3. r[i].ch < r[j].ch
    BY <1>1
  <2> QED BY <2>2, <2>3
<1> HIDE DEF r, n, m
<1>5. ASSUME NEW i \in DOMAIN (q \o r), NEW j \in DOMAIN (q \o r), i # j,
             (q \o r)[i].t = "open", (q \o r)[j].t = "open"
      PROVE  (q \o r)[i].ch # (q \o r)[j].ch
  <2>1. i \in 1 .. (n + m) /\ j \in 1 .. (n + m)
    BY <1>2
  <2>2. ~(i <= n) /\ ~(j <= n)
    BY <1>2, <1>3, <1>5, <2>1
  <2>3. (q \o r)[i] = r[i - n] /\ (q \o r)[j] = r[j - n]
    BY <1>2, <2>1, <2>2
  <2>4. i - n \in 1 .. m /\ j - n \in 1 .. m /\ i - n # j - n
    BY <1>2, <1>5, <2>1, <2>2
  <2> QED BY <1>4, <2>3, <2>4
<1> QED BY <1>5 DEF Distinct, r

LEMMA DistinctStep ==
  ASSUME Base, Met, Orderly, [Next]_vars, Unraced(Drops)', NEW x \in Conns, x = tunnel
  PROVE  Distinct(conn'[x].toAgent)
<1>1. conn[x].toAgent \in Seq(Frames)
  BY TypesOf DEF Base, Typed, ConnTable, Connection
<1>2. x # 0
  BY ConnNotZero
<1>3. Distinct(conn[x].toAgent)
  BY <1>2 DEF Orderly
<1>4. \A f \in In(conn[x].toAgent) : f.t = "open" => About(f, x) /\ f.ch \in ChannelIds
  BY DEF Base, Addressed, ForAgent, About, Numbered
<1>5. \/ ReadByAgent(x) \/ SentKill(x)
      \/ \E s \in Shells : SentClose(x, s) \/ SentOpen(x, s)
      \/ \E c \in Conns : SentResume(x, c)
  BY ToAgentStep DEF Base
<1>6. ASSUME ReadByAgent(x)
      PROVE  Distinct(conn'[x].toAgent)
  BY <1>1, <1>3, <1>6, DistinctOf DEF ReadByAgent
<1>7. ASSUME SentKill(x)
      PROVE  Distinct(conn'[x].toAgent)
  BY <1>1, <1>3, <1>7, DistinctOf DEF SentKill
<1>8. ASSUME NEW s \in Shells, SentClose(x, s)
      PROVE  Distinct(conn'[x].toAgent)
  BY <1>1, <1>3, <1>8, DistinctOf, Zenon DEF SentClose
<1>9. ASSUME NEW s \in Shells, SentOpen(x, s)
      PROVE  Distinct(conn'[x].toAgent)
  <2>1. PICK f \in Frames : /\ f.t = "open" /\ f.ch = device[devices].next /\ f.for = s
                            /\ conn'[x].toAgent = Append(conn[x].toAgent, f)
    BY <1>9 DEF SentOpen
  <2>2. ~Opening(conn[x].toAgent, f.ch)
    <3> SUFFICES ASSUME NEW g \in In(conn[x].toAgent), g.t = "open", g.ch = f.ch
                 PROVE  FALSE
      BY DEF Opening
    <3>1. g.for \in Shells /\ shell[g.for].state # "idle" /\ shell[g.for].ch = f.ch /\ shell[g.for].device = devices
      BY <1>4, <1>9, SentWhen DEF About
    <3>2. f.ch < f.ch
      BY <1>9, <2>1, <3>1, SentWhen
    <3>3. f.ch \in Int
      BY CardType DEF Frames
    <3> QED BY <3>2, <3>3
  <2> QED BY <1>1, <1>3, <2>1, <2>2, DistinctOf
<1>10. ASSUME NEW c \in Conns, SentResume(x, c)
       PROVE  Distinct(conn'[x].toAgent)
  <2>1. x = c /\ Greeting(x)
    BY <1>10, SentWhen
  <2>2. \A ch \in ChannelIds : ~Opening(conn[x].toAgent, ch)
    BY <1>2, <2>1 DEF Orderly
  <2>3. PICK ids \in InOrder(ListedIds(conn[c].device)) :
          conn'[x].toAgent = conn[x].toAgent \o ResumeFrames(conn[c].device, ids)
    BY <1>10, Zenon DEF SentResume
  <2>4. conn[c].device \in Conns
    BY <1>10, RecvHelloEffect, Zenon DEF SentResume, Base
  <2> QED BY <1>1, <1>3, <1>4, <2>2, <2>3, <2>4, ResumeIsDistinct
<1> QED BY <1>5, <1>6, <1>7, <1>8, <1>9, <1>10

LEMMA OrderlyStep ==
  ASSUME Base, Counting, Tended, Orderly, Met, [Next]_vars, Unraced(Drops)'
  PROVE  Orderly'
<1> SUFFICES ASSUME tunnel' # 0
             PROVE  (/\ Greeting(tunnel) => \A ch \in ChannelIds : ~Opening(conn[tunnel].toAgent, ch)
                     /\ Distinct(conn[tunnel].toAgent)
                     /\ \A p \in Ptys : Busy(p) => ~Opening(conn[tunnel].toAgent, pty[p].ch))'
  BY DEF Orderly
<1>1. PICK x \in Conns : x = tunnel'
  <2>1. Typed'
    BY TypedStep DEF Base
  <2> QED BY <2>1, TypesOfNext DEF Typed
<1>2. CASE tunnel = 0
  <2>1. Dial(x)
    BY <1>1, <1>2, TunnelStep DEF Base
  <2>2. conn'[x].toAgent = conn[x].toAgent /\ conn[x].toAgent = <<>>
    BY <1>1, <2>1, DialFields DEF Dial, Base, Wired, Ends
  <2>3. \A ch : ~Opening(conn'[x].toAgent, ch)
    BY <2>2, InEmpty DEF Opening
  <2>4. Distinct(conn'[x].toAgent)
    BY <2>2 DEF Distinct
  <2> QED BY <1>1, <2>3, <2>4
<1>3. CASE tunnel # 0
  <2>1. x = tunnel
    BY <1>1, <1>3, TunnelStep DEF Base
  <2>2. ~Dial(x)
    BY <1>3 DEF Dial
  <2>3. Greeting(x) => \A ch \in ChannelIds : ~Opening(conn[x].toAgent, ch)
    BY <1>3, <2>1 DEF Orderly
  <2>4. \A p \in Ptys : Busy(p) => ~Opening(conn[x].toAgent, pty[p].ch) /\ ~Greeting(x)
                                   /\ shell[pty[p].bound].device = conn[x].device
    BY <1>3, <2>1 DEF Orderly, Tended
  <2>5. ASSUME Greeting(x)', NEW ch \in ChannelIds
        PROVE  ~Opening(conn'[x].toAgent, ch)
    <3>1. Greeting(x)
      BY <1>1, <2>2, <2>5, GreetingStep
    <3> QED BY <1>1, <2>3, <2>5, <3>1, OpeningStep
  <2>6. Distinct(conn'[x].toAgent)
    BY <1>1, <2>1, DistinctStep
  <2>7. ASSUME NEW p \in Ptys, Busy(p)'
        PROVE  ~Opening(conn'[x].toAgent, pty'[p].ch)
    <3>1. StaysBusy(p) \/ TurnsBusy(p)
      BY <2>7, CountingStep DEF CountsOn
    <3>2. ASSUME StaysBusy(p)
          PROVE  ~Opening(conn'[x].toAgent, pty'[p].ch)
      <4>1. Busy(p) /\ pty'[p].ch = pty[p].ch
        BY <3>2 DEF StaysBusy
      <4>2. ~Opening(conn[x].toAgent, pty[p].ch) /\ ~Greeting(x) /\ shell[pty[p].bound].device = conn[x].device
        BY <2>4, <4>1
      <4>3. pty[p].state # "free"
        BY <4>1 DEF Busy
      <4>4. pty[p].bound \in Shells /\ shell[pty[p].bound].state # "idle" /\ shell[pty[p].bound].ch = pty[p].ch
        BY <4>3 DEF Base, Served
      <4>5. conn[x].device = devices => pty[p].ch # device[devices].next
        <5> SUFFICES ASSUME conn[x].device = devices
                     PROVE  pty[p].ch # device[devices].next
          OBVIOUS
        <5>1. pty[p].ch < device[devices].next
          BY <4>2, <4>4 DEF Base, Numbered
        <5>2. pty[p].ch \in Int
          BY TypesOf, CardType DEF Base, Typed, Process
        <5> QED BY <5>1, <5>2
      <4> QED BY <1>1, <4>1, <4>2, <4>5, OpeningStep
    <3>3. ASSUME TurnsBusy(p)
          PROVE  ~Opening(conn'[x].toAgent, pty'[p].ch)
      <4>1. /\ Reaches(x, "open") /\ pty'[p].ch = Head(conn[x].toAgent).ch
            /\ conn'[x].toAgent = Tail(conn[x].toAgent)
        BY <2>1, <3>3 DEF TurnsBusy
      <4> QED BY <1>1, <4>1, OpenFindsNoneBusy
    <3> QED BY <3>1, <3>2, <3>3
  <2> QED BY <1>1, <2>5, <2>6, <2>7 DEF Greeting
<1> QED BY <1>2, <1>3

LEMMA MetStep ==
  ASSUME Base, Met, [Next]_vars
  PROVE  Met'
<1> SUFFICES ASSUME NEW d \in Conns, device'[d].hello # 0
             PROVE  (~Greeting(device[d].hello) /\ conn[device[d].hello].agent # "unused")'
  BY DEF Met
<1>0. PICK h \in Conns : h = device'[d].hello
  <2>1. Typed'
    BY TypedStep DEF Base
  <2> QED BY <2>1, TypesOfNext DEF Typed, Device
<1>1. CASE h = device[d].hello
  <2>1. h # 0
    BY ConnNotZero
  <2>2. ~Greeting(h) /\ conn[h].agent # "unused"
    BY <1>1, <2>1 DEF Met
  <2>3. ~Dial(h)
    BY <2>2 DEF Dial
  <2>4. DialFails => h # tunnel
    BY <2>2 DEF DialFails, Greeting
  <2>5. ~Greeting(h)'
    BY <2>2, <2>3, GreetingStep
  <2>6. conn'[h].agent # "unused"
    BY <2>2, <2>4, AgentEndStep DEF AgentEndChange, Base
  <2> QED BY <1>0, <2>5, <2>6 DEF Greeting
<1>2. CASE \E c \in Conns : RecvHello(c) /\ h = c
  <2>1. PICK c \in Conns : RecvHello(c) /\ h = c
    BY <1>2
  <2>2. ~Greeting(c)' /\ conn'[c].agent # "unused"
    BY <2>1, Greeted
  <2> QED BY <1>0, <2>1, <2>2 DEF Greeting
<1>3. h = device[d].hello \/ \E c \in Conns : RecvHello(c) /\ h = c
  BY <1>0, HelloStep DEF Base
<1> QED BY <1>1, <1>2, <1>3

LEMMA CountedAtStart ==
  ASSUME Init
  PROVE  Counting /\ Tended /\ Orderly /\ Met
<1>1. \A p \in Ptys : pty[p].state = "free" /\ ~pty[p].timer
  BY DEF Init, FreePty
<1>2. \A d \in Conns : device[d].hello = 0
  BY DEF Init, FreshDevice
<1>3. tunnel = 0
  BY DEF Init
<1> QED BY <1>1, <1>2, <1>3 DEF Counting, Tended, Orderly, Met, Busy

LEMMA CountedStep ==
  ASSUME Base, Counted, [Next]_vars
  PROVE  Counted'
<1> SUFFICES ASSUME Unraced(Drops)'
             PROVE  Counting' /\ Tended' /\ Orderly' /\ Met'
  BY DEF Counted
<1>1. Counting /\ Tended /\ Orderly /\ Met
  BY UnracedDrops DEF Counted
<1>2. Counting'
  BY <1>1, CountingStep DEF CountsOn
<1> QED BY <1>1, <1>2, TendedStep, OrderlyStep, MetStep

LEMMA HeldWhileAway ==
  ASSUME Counted
  PROVE  HeldOnCountdown
<1> SUFFICES ASSUME Unraced(Drops), tunnel = 0, NEW p \in Ptys, pty[p].state = "alive"
             PROVE  CountedDown(p)
  BY DEF HeldOnCountdown, Alive, Drops
<1>1. ~Busy(p) /\ (pty[p].attached <=> ~pty[p].timer)
  BY DEF Counted, Counting, Tended
<1> QED BY <1>1 DEF Busy, CountedDown

\* Once the agent has no tunnel, every process it keeps is on a countdown to its
\* end, unless a dial failed meanwhile, one was being spawned, or an exit or a
\* frame came late (tunnel.ts onDisconnected, channels.ts detachAll, resume).
THEOREM HeldOnCountdownHolds == Spec => []HeldOnCountdown
<1>1. Init => Base /\ Counted
  BY BaseAtStart, CountedAtStart DEF Counted
<1>2. Base /\ Counted /\ [Next]_vars => (Base /\ Counted)'
  BY BaseStep, CountedStep
<1>3. Counted => HeldOnCountdown
  BY HeldWhileAway
<1> QED BY <1>1, <1>2, <1>3, PTL DEF Spec

-----------------------------------------------------------------------------
(* What the gateway shows has a process, or will hear that it has none.      *)

\* What is on its way to the agent stays so until it is read, or the end is gone.
LEMMA AgentReads ==
  ASSUME Typed, [Next]_vars
  PROVE  \A x \in Conns : \/ Takes(x) \/ In(conn[x].toAgent) \subseteq In(conn'[x].toAgent)
                          \/ conn'[x].agent \in {"closed", "unused"}
<1> SUFFICES ASSUME NEW x \in Conns
             PROVE  \/ Takes(x) \/ In(conn[x].toAgent) \subseteq In(conn'[x].toAgent)
                    \/ conn'[x].agent \in {"closed", "unused"}
  OBVIOUS
<1>1. conn[x].toAgent \in Seq(Frames)
  BY TypesOf DEF Typed, ConnTable, Connection
<1>2. CASE ReadByAgent(x)
  BY <1>2 DEF ReadByAgent
<1>3. ASSUME NEW f \in Frames, conn'[x].toAgent = Append(conn[x].toAgent, f)
      PROVE  In(conn[x].toAgent) \subseteq In(conn'[x].toAgent)
  BY <1>1, <1>3, InAppend
<1>4. ASSUME NEW c \in Conns, SentResume(x, c)
      PROVE  In(conn[x].toAgent) \subseteq In(conn'[x].toAgent)
  <2>1. PICK ids \in InOrder(ListedIds(conn[c].device)) :
          conn'[x].toAgent = conn[x].toAgent \o ResumeFrames(conn[c].device, ids)
    BY <1>4, Zenon DEF SentResume
  <2>2. ResumeFrames(conn[c].device, ids) \in Seq(Frames)
    BY ResumeFramesEffect, TypesOf DEF Typed
  <2> QED BY <1>1, <2>1, <2>2, InConcat
<1>5. \/ ReadByAgent(x)
      \/ \E f \in Frames : conn'[x].toAgent = Append(conn[x].toAgent, f)
      \/ \E c \in Conns : SentResume(x, c)
  BY ToAgentStep, Zenon DEF SentKill, SentClose, SentOpen
<1> QED BY <1>2, <1>3, <1>4, <1>5

\* The same the other way.
LEMMA GatewayReads ==
  ASSUME Typed, [Next]_vars
  PROVE  \A x \in Conns : \/ Reads(x) \/ In(conn[x].toGateway) \subseteq In(conn'[x].toGateway)
                          \/ conn'[x].gateway \in {"closed", "none"}
<1> SUFFICES ASSUME NEW x \in Conns
             PROVE  \/ Reads(x) \/ In(conn[x].toGateway) \subseteq In(conn'[x].toGateway)
                    \/ conn'[x].gateway \in {"closed", "none"}
  OBVIOUS
<1>1. conn[x].toGateway \in Seq(Frames)
  BY TypesOf DEF Typed, ConnTable, Connection
<1>2. CASE ReadByGateway(x)
  BY <1>2 DEF ReadByGateway
<1>3. ASSUME NEW f \in Frames, conn'[x].toGateway = Append(conn[x].toGateway, f)
      PROVE  In(conn[x].toGateway) \subseteq In(conn'[x].toGateway)
  BY <1>1, <1>3, InAppend
<1>4. ReadByGateway(x) \/ \E f \in Frames : conn'[x].toGateway = Append(conn[x].toGateway, f)
  BY ToGatewayStep, Zenon DEF SentHello, SentAnswer
<1> QED BY <1>2, <1>3, <1>4

\* The agent has a process for id ch, or is still to read that it is to open one.
Claimed(ch) ==
  \/ \E p \in Ptys : Busy(p) /\ pty[p].ch = ch
  \/ tunnel # 0 /\ Opening(conn[tunnel].toAgent, ch)
\* The gateway is still to read, from q, that id ch is over.
Denying(q, ch) == \E f \in In(q) : f.t \in {"error", "exit"} /\ f.ch = ch

\* The terminals are used over connection c: it has said hello.
Talking(c) == conn[c].agent = "open" /\ conn[c].gateway = "open" /\ ~Greeting(c)

\* Over such a connection every terminal of the device is claimed or denied.
Shown ==
  \A c \in Conns : Talking(c) =>
    \A s \in Listed(conn[c].device) :
      Claimed(shell[s].ch) \/ Denying(conn[c].toGateway, shell[s].ch)

Known == Unraced(Drops) => Counting /\ Tended /\ Orderly /\ Met /\ Shown

\* A denial put in a queue is there; one that is not at its head stays.
LEMMA DenyingOf ==
  ASSUME NEW q \in Seq(Frames), NEW ch
  PROVE  /\ \A f \in Frames : f.t \in {"error", "exit"} /\ f.ch = ch => Denying(Append(q, f), ch)
         /\ q # <<>> /\ Denying(q, ch) =>
              \/ Head(q).t \in {"error", "exit"} /\ Head(q).ch = ch
              \/ Denying(Tail(q), ch)
         /\ ~Denying(<<>>, ch)
<1>1. \A f \in Frames : f.t \in {"error", "exit"} /\ f.ch = ch => Denying(Append(q, f), ch)
  BY InAppend DEF Denying
<1>2. ASSUME q # <<>>, Denying(q, ch), ~Denying(Tail(q), ch)
      PROVE  Head(q).t \in {"error", "exit"} /\ Head(q).ch = ch
  <2>1. In(q) = In(Tail(q)) \cup {Head(q)}
    BY <1>2, InTail
  <2> QED BY <1>2, <2>1 DEF Denying
<1>3. ~Denying(<<>>, ch)
  BY InEmpty DEF Denying
<1> QED BY <1>1, <1>2, <1>3

\* The same for what the agent is to open.
LEMMA OpeningHead ==
  ASSUME NEW q \in Seq(Frames), NEW ch, q # <<>>, Opening(q, ch)
  PROVE  (Head(q).t = "open" /\ Head(q).ch = ch) \/ Opening(Tail(q), ch)
<1>1. In(q) = In(Tail(q)) \cup {Head(q)}
  BY InTail
<1> QED BY <1>1 DEF Opening

\* Only a connection that is accepted is newly open at the gateway.
LEMMA GatewayEndStep ==
  ASSUME Typed, [Next]_vars
  PROVE  \A x \in Conns : conn'[x].gateway = "open" => conn[x].gateway = "open" \/ Accept(x)
<1> DEFINE Goal == \A x \in Conns : conn'[x].gateway = "open" => conn[x].gateway = "open" \/ Accept(x)
<1>1. CASE UNCHANGED conn
  BY <1>1
<1>2. CASE UNCHANGED vars
  BY <1>1, <1>2 DEF vars
<1>3. ASSUME DialFails
      PROVE  Goal
  BY <1>3, DialFailsFields
<1>4. ASSUME AgentRestarts
      PROVE  Goal
  BY <1>4, AgentRestartsFields
<1>5. ASSUME KillDevice
      PROVE  Goal
  BY <1>5, KillDeviceEffect
<1>6. ASSUME GatewayRestarts
      PROVE  Goal
  BY <1>6, GatewayRestartsFields
<1>7. ASSUME NEW c \in Conns, Dial(c)
      PROVE  Goal
  BY <1>7, DialFields
<1>8. ASSUME NEW c \in Conns, Connected(c)
      PROVE  Goal
  BY <1>8, ConnectedFields
<1>9. ASSUME NEW c \in Conns, AgentSeesClose(c)
      PROVE  Goal
  BY <1>9, AgentSeesCloseFields
<1>10. ASSUME NEW c \in Conns, Accept(c)
       PROVE  Goal
  BY <1>10, AcceptFields
<1>11. ASSUME NEW c \in Conns, GatewaySeesClose(c)
       PROVE  Goal
  BY <1>11, GatewaySeesCloseFields
<1>12. ASSUME NEW c \in Conns, GatewayGraceFires(c)
       PROVE  Goal
  BY <1>1, <1>12, Zenon DEF GatewayGraceFires
<1>13. ASSUME NEW c \in Conns, RecvHello(c)
       PROVE  Goal
  BY <1>13, RecvHelloEffect
<1>14. ASSUME NEW c \in Conns, RecvOpened(c)
       PROVE  Goal
  BY <1>14, RecvOpenedFields
<1>15. ASSUME NEW c \in Conns, RecvOpenedAndExit(c)
       PROVE  Goal
  BY <1>15, RecvOpenedAndExitFields
<1>16. ASSUME NEW c \in Conns, RecvError(c)
       PROVE  Goal
  BY <1>16, RecvErrorFields
<1>17. ASSUME NEW c \in Conns, RecvExit(c)
       PROVE  Goal
  BY <1>17, RecvExitFields
<1>18. ASSUME NEW c \in Conns, RecvOpenHeld(c)
       PROVE  Goal
  BY <1>18, RecvOpenHeldEffect
<1>19. ASSUME NEW c \in Conns, RecvOpenRefused(c)
       PROVE  Goal
  BY <1>19, RecvOpenRefusedEffect
<1>20. ASSUME NEW c \in Conns, RecvClose(c)
       PROVE  Goal
  BY <1>20, RecvCloseFields
<1>21. ASSUME NEW c \in Conns, RecvKill(c)
       PROVE  Goal
  BY <1>21, RecvKillFields
<1>22. ASSUME NEW c \in Conns, NEW p \in Ptys, RecvOpenNew(c, p)
       PROVE  Goal
  BY <1>22, RecvOpenNewFields
<1>23. ASSUME NEW s \in Shells, OpenShell(s)
       PROVE  Goal
  BY <1>23, OpenShellFields
<1>24. ASSUME NEW s \in Shells, OpenTimesOut(s)
       PROVE  Goal
  BY <1>1, <1>24, Zenon DEF OpenTimesOut
<1>25. ASSUME NEW s \in Shells, EndShell(s)
       PROVE  Goal
  BY <1>25, EndShellFields
<1>26. ASSUME NEW p \in Ptys, Spawned(p)
       PROVE  Goal
  BY <1>26, SpawnedFields
<1>27. ASSUME NEW p \in Ptys, SpawnFails(p)
       PROVE  Goal
  BY <1>27, SpawnFailsFields
<1>28. ASSUME NEW p \in Ptys, PtyExits(p)
       PROVE  Goal
  BY <1>28, PtyExitsFields
<1>29. ASSUME NEW p \in Ptys, AgentGraceFires(p)
       PROVE  Goal
  BY <1>1, <1>29, Zenon DEF AgentGraceFires
<1> QED
  BY <1>2, <1>3, <1>4, <1>5, <1>6, <1>7, <1>8, <1>9, <1>10, <1>11, <1>12, <1>13, <1>14, <1>15, <1>16, <1>17, <1>18, <1>19, <1>20, <1>21, <1>22, <1>23, <1>24, <1>25, <1>26, <1>27, <1>28, <1>29, Zenon DEF Next

\* Only a terminal that is opened is newly listed.
LEMMA ListedStep ==
  ASSUME Typed, [Next]_vars, NEW s \in Shells, shell'[s].listed
  PROVE  \/ OpenShell(s)
         \/ shell[s].listed /\ shell'[s].device = shell[s].device /\ shell'[s].ch = shell[s].ch
<1>1. CASE \E c \in Conns : Accept(c)
  <2>1. shell' = shell
    BY <1>1, Zenon DEF Accept
  <2> QED BY <2>1
<1>2. CASE \E t \in Shells : OpenShell(t)
  <2>1. PICK t \in Shells : OpenShell(t)
    BY <1>2
  <2>2. \A x \in Shells :
          /\ shell'[x].state = (IF x = t THEN "opening" ELSE shell[x].state)
          /\ shell'[x].device = (IF x = t THEN devices ELSE shell[x].device)
          /\ shell'[x].ch = (IF x = t THEN device[devices].next ELSE shell[x].ch)
          /\ shell'[x].listed = (IF x = t THEN TRUE ELSE shell[x].listed)
    BY <2>1, OpenShellFields, Zenon
  <2> QED BY <2>1, <2>2
<1>3. CASE ~(\E c \in Conns : Accept(c)) /\ ~(\E t \in Shells : OpenShell(t))
  BY <1>3, PlacesKept DEF SamePlaces
<1> QED BY <1>1, <1>2, <1>3

\* What ends a process, or tells of its end.
Ceases(p) ==
  \/ \E c \in Conns : RecvClose(c) /\ Head(conn[c].toAgent).ch = pty[p].ch
  \/ \E c \in Conns : RecvKill(c)
  \/ SpawnFails(p) \/ PtyExits(p)

\* A busy process stays so until then, or until the tunnel is gone.
LEMMA BusyEnds ==
  ASSUME Base, Counting, [Next]_vars, Unraced(Drops)', NEW p \in Ptys, Busy(p)
  PROVE  (Busy(p)' /\ pty'[p].ch = pty[p].ch) \/ tunnel' = 0 \/ Ceases(p)
<1> DEFINE Goal == (Busy(p)' /\ pty'[p].ch = pty[p].ch) \/ tunnel' = 0 \/ Ceases(p)
<1>0. pty[p].state \in {"spawning", "alive"}
  BY DEF Busy
<1>1. CASE UNCHANGED <<channels, pty>>
  BY <1>1 DEF Busy
<1>2. ASSUME DialFails
      PROVE  Goal
  BY <1>2, Zenon DEF DialFails, Disconnected
<1>3. ASSUME AgentRestarts
      PROVE  Goal
  BY <1>3, Zenon DEF AgentRestarts
<1>4. ASSUME NEW c \in Conns, AgentSeesClose(c)
      PROVE  Goal
  BY <1>4, Zenon DEF AgentSeesClose, Disconnected
<1>5. ASSUME NEW c \in Conns, RecvOpenHeld(c)
      PROVE  Goal
  <2>1. /\ pty'[p].state = pty[p].state
        /\ pty'[p].ch = pty[p].ch
        /\ pty'[p].attached = pty[p].attached \/ pty'[p].attached = TRUE
    BY <1>5, RecvOpenHeldFields DEF Base
  <2> QED BY <2>1 DEF Busy
<1>6. ASSUME NEW c \in Conns, RecvClose(c)
      PROVE  Goal
  <2> DEFINE f == Head(conn[c].toAgent)
  <2>1. p # channels[f.ch] => pty'[p] = pty[p]
    BY <1>6, RecvCloseEffect, Zenon DEF Base
  <2>2. f.t = "close" /\ conn[c].toAgent # <<>>
    BY <1>6, RecvCloseFields DEF Base
  <2>3. f.ch \in ChannelIds
    BY <2>2, OpenIsNumbered DEF Base
  <2>4. p = channels[f.ch] => pty[p].ch = f.ch
    BY <2>3, HeldIsAlive, NoValueAssumption
  <2>5. CASE p # channels[f.ch]
    BY <2>1, <2>5 DEF Busy
  <2>6. CASE p = channels[f.ch]
    BY <1>6, <2>4, <2>6 DEF Ceases
  <2> QED BY <2>5, <2>6
<1>7. ASSUME NEW c \in Conns, RecvKill(c)
      PROVE  Goal
  BY <1>7, Zenon DEF Ceases
<1>8. ASSUME NEW c \in Conns, NEW q \in Ptys, RecvOpenNew(c, q)
      PROVE  Goal
  <2>1. pty[q].state = "free"
    BY <1>8, RecvOpenNewFields DEF Base
  <2>2. p # q
    BY <1>0, <2>1
  <2>3. pty'[p].state = pty[p].state /\ pty'[p].ch = pty[p].ch /\ pty'[p].attached = pty[p].attached
    <3>1. \A x \in Ptys :
            /\ pty'[x].state = (IF x = q THEN "spawning" ELSE pty[x].state)
            /\ pty'[x].ch = (IF x = q THEN Head(conn[c].toAgent).ch ELSE pty[x].ch)
            /\ pty'[x].attached = (IF x = q THEN FALSE ELSE pty[x].attached)
            /\ pty'[x].timer = (IF x = q THEN FALSE ELSE pty[x].timer)
            /\ pty'[x].stray = (IF x = q THEN 0 ELSE pty[x].stray)
            /\ pty'[x].owner = (IF x = q THEN Head(conn[c].toAgent).for ELSE pty[x].owner)
            /\ pty'[x].bound = (IF x = q THEN Head(conn[c].toAgent).for ELSE pty[x].bound)
      BY <1>8, RecvOpenNewFields, Zenon DEF Base
    <3> QED BY <2>2, <3>1
  <2> QED BY <2>3 DEF Busy
<1>9. ASSUME NEW q \in Ptys, Spawned(q)
      PROVE  Goal
  <2>1. /\ pty'[p].state = (IF p = q THEN "alive" ELSE pty[p].state)
        /\ pty'[p].ch = pty[p].ch
        /\ pty'[p].attached = (IF p = q THEN TRUE ELSE pty[p].attached)
    BY <1>9, SpawnedFields DEF Base
  <2> QED BY <2>1 DEF Busy
<1>10. ASSUME NEW q \in Ptys, SpawnFails(q)
       PROVE  Goal
  <2>1. p # q => pty'[p].state = pty[p].state /\ pty'[p].ch = pty[p].ch /\ pty'[p].attached = pty[p].attached
    BY <1>10, SpawnFailsFields DEF Base
  <2> QED BY <1>10, <2>1 DEF Busy, Ceases
<1>11. ASSUME NEW q \in Ptys, PtyExits(q), p # q
       PROVE  Goal
  <2>1. \A x \in Ptys :
          \/ pty'[x] = FreePty /\ (x = q \/ pty[x].state = "dead")
          \/ /\ pty'[x].state = (IF x = q THEN "dead" ELSE pty[x].state)
             /\ pty'[x].ch = pty[x].ch /\ pty'[x].attached = pty[x].attached
             /\ pty'[x].timer = (pty[x].timer /\ x # channels[pty[q].ch])
             /\ pty'[x].stray = pty[x].stray
             /\ pty'[x].owner = pty[x].owner /\ pty'[x].bound = pty[x].bound
    BY <1>11, PtyExitsEffect DEF Base
  <2>2. pty'[p].state = pty[p].state /\ pty'[p].ch = pty[p].ch /\ pty'[p].attached = pty[p].attached
    BY <1>0, <1>11, <2>1
  <2> QED BY <2>2 DEF Busy
<1>12. ASSUME NEW q \in Ptys, AgentGraceFires(q)
       PROVE  Goal
  <2>1. \/ pty'[p] = FreePty /\ pty[p].state = "dead"
        \/ /\ pty'[p].state = (IF p = q /\ pty[p].state = "alive" THEN "killed" ELSE pty[p].state)
           /\ pty'[p].ch = pty[p].ch /\ pty'[p].attached = pty[p].attached
    BY <1>12, AgentGraceFiresEffect DEF Base
  <2>2. pty[q].timer \/ pty[q].stray > 0
    BY <1>12, AgentGraceFiresEffect DEF Base
  <2>3. pty[q].stray = 0
    BY UnracedDrops
  <2>4. pty[q].state = "alive" /\ ~pty[q].attached
    BY <2>2, <2>3 DEF Counting
  <2>5. p # q
    BY <2>4 DEF Busy
  <2>6. pty'[p].state = pty[p].state /\ pty'[p].ch = pty[p].ch /\ pty'[p].attached = pty[p].attached
    BY <1>0, <2>1, <2>5
  <2> QED BY <2>6 DEF Busy
<1>13. PtyExits(p) => Goal
  BY Zenon DEF Ceases
<1> QED
  BY <1>1, <1>2, <1>3, <1>4, <1>5, <1>6, <1>7, <1>8, <1>9, <1>10, <1>11, <1>12, <1>13, HandlesOrRests, Zenon DEF Handles

\* A connection that both ends have open after a step was so before it, unless
\* the agent has just heard that it is open.
LEMMA StaysOpen ==
  ASSUME Base, [Next]_vars, NEW c \in Conns, conn'[c].agent = "open", conn'[c].gateway = "open"
  PROVE  /\ tunnel = c /\ tunnel' = c /\ c # 0
         /\ \/ Connected(c) /\ conn[c].agent = "dialing"
            \/ /\ conn[c].agent = "open" /\ conn[c].gateway = "open"
               /\ conn'[c].device = conn[c].device /\ conn[c].device \in Conns
               /\ device[conn[c].device].socket = c
<1>1. AgentEndChange(c) /\ DeviceOfChange(c)
  BY AgentEndStep DEF Base
<1>2. CASE Connected(c)
  <2>1. conn[c].agent = "dialing" /\ tunnel' = tunnel
    BY <1>2 DEF Connected
  <2> QED BY <1>2, <2>1, ConnNotZero DEF Base, Wired, Ends
<1>3. CASE ~Connected(c)
  <2>1. conn[c].agent = "open"
    BY <1>1, <1>3 DEF AgentEndChange
  <2>2. conn[c].gateway = "open"
    <3>1. conn[c].gateway = "open" \/ Accept(c)
      BY GatewayEndStep DEF Base
    <3> QED BY <2>1, <3>1 DEF Accept
  <2>3. conn'[c].device = conn[c].device
    BY <1>1, <2>1 DEF DeviceOfChange, Accept, DialFails
  <2>4. tunnel = c /\ tunnel' = c /\ c # 0
    <3>1. Base'
      BY BaseStep
    <3> QED BY <2>1, <3>1, ConnNotZero DEF Base, Wired, Ends
  <2>5. conn[c].device \in Conns /\ device[conn[c].device].socket = c
    BY <2>2 DEF Base, Typed, Placed, Wired, Sockets
  <2> QED BY <2>1, <2>2, <2>3, <2>4, <2>5
<1> QED BY <1>2, <1>3

\* A connection that is talked over after a step was open before it, and had
\* said hello unless the step is its reading.
LEMMA StaysTalking ==
  ASSUME Base, [Next]_vars, NEW c \in Conns, Talking(c)'
  PROVE  /\ conn[c].agent = "open" /\ conn'[c].agent = "open"
         /\ conn[c].gateway = "open" /\ conn'[c].gateway = "open"
         /\ tunnel = c /\ tunnel' = c /\ c # 0
         /\ conn'[c].device = conn[c].device /\ conn[c].device \in Conns
         /\ device[conn[c].device].socket = c
         /\ ~Greeting(c) \/ RecvHello(c)
<1>1. conn'[c].agent = "open" /\ conn'[c].gateway = "open" /\ ~Hello(conn'[c].toGateway)
  BY DEF Talking, Greeting
<1>2. conn[c].toGateway \in Seq(Frames)
  BY TypesOf DEF Base, Typed, ConnTable, Connection
<1>4. ~Connected(c)
  <2> SUFFICES ASSUME Connected(c)
               PROVE  FALSE
    OBVIOUS
  <2>1. /\ Frame("hello", 0, NoShell) \in Frames
        /\ conn'[c].gateway = conn[c].gateway
        /\ conn'[c].toGateway = (IF conn[c].gateway = "closed" THEN conn[c].toGateway ELSE Append(conn[c].toGateway, Frame("hello", 0, NoShell)))
    BY ConnectedFields DEF Base
  <2>2. Frame("hello", 0, NoShell).t = "hello"
    BY DEF Frame
  <2> QED BY <1>1, <1>2, <2>1, <2>2, HelloOf
<1>5. /\ conn[c].agent = "open" /\ conn[c].gateway = "open" /\ tunnel = c /\ tunnel' = c /\ c # 0
      /\ conn'[c].device = conn[c].device /\ conn[c].device \in Conns
      /\ device[conn[c].device].socket = c
  BY <1>1, <1>4, StaysOpen
<1>10. ASSUME Greeting(c)
       PROVE  RecvHello(c)
  <2>1. Hello(conn[c].toGateway)
    BY <1>5, <1>10 DEF Greeting
  <2>2. Reads(c)
    <3>1. Reads(c) \/ In(conn[c].toGateway) \subseteq In(conn'[c].toGateway)
      BY <1>1, GatewayReads DEF Base
    <3> QED BY <1>1, <2>1, <3>1 DEF Hello
  <2>3. conn[c].toGateway # <<>> /\ Head(conn[c].toGateway).t = "hello"
    <3>1. conn[c].toGateway # <<>>
      BY <2>1, InEmpty DEF Hello
    <3>2. In(conn[c].toGateway) = In(Tail(conn[c].toGateway)) \cup {Head(conn[c].toGateway)}
      BY <1>2, <3>1, InTail
    <3>3. \A f \in In(Tail(conn[c].toGateway)) : f.t # "hello"
      BY <1>2, <3>1, ForGatewayTail DEF Base, Addressed
    <3> QED BY <2>1, <3>1, <3>2, <3>3 DEF Hello
  <2> QED BY <2>2, <2>3 DEF Reads, RecvOpened, RecvOpenedAndExit, RecvError, RecvExit, Arrives
<1> QED BY <1>1, <1>5, <1>10

\* A terminal stays denied until the gateway reads so, and then is not listed.
LEMMA DeniedOn ==
  ASSUME Base, [Next]_vars, NEW c \in Conns, ~Greeting(c), conn'[c].gateway = "open",
         NEW s \in Shells, shell[s].listed, shell[s].device = conn[c].device, shell'[s].listed,
         Denying(conn[c].toGateway, shell[s].ch)
  PROVE  Denying(conn'[c].toGateway, shell[s].ch)
<1> DEFINE ch == shell[s].ch
           q == conn[c].toGateway
<1>1. q \in Seq(Frames)
  BY TypesOf DEF Base, Typed, ConnTable, Connection
<1>2. q # <<>>
  BY DenyingOf, <1>1
<1>3. CASE In(q) \subseteq In(conn'[c].toGateway)
  BY <1>3, Zenon DEF Denying
<1>4. ~RecvHello(c)
  BY Greeted
<1>5. shell[s].state # "idle"
  BY DEF Base, Typed, Placed
<1>6. ASSUME RecvOpened(c)
      PROVE  Denying(conn'[c].toGateway, ch)
  <2>1. Head(q).t = "opened" /\ conn'[c].toGateway = Tail(q)
    BY <1>6, RecvOpenedFields DEF Base
  <2> QED BY <1>1, <1>2, <2>1, DenyingOf
<1>7. ASSUME RecvOpenedAndExit(c)
      PROVE  Denying(conn'[c].toGateway, ch)
  <2>1. /\ Tail(q) # <<>> /\ Head(q).t = "opened" /\ Head(Tail(q)).ch = Head(q).ch
        /\ conn'[c].toGateway = Tail(Tail(q))
    BY <1>7, RecvOpenedAndExitFields DEF Base
  <2>2. shell'[s].listed = (IF s \in PendingOf(conn[c].device, Head(q).ch) THEN FALSE ELSE shell[s].listed)
    BY <1>7, RecvOpenedAndExitFields DEF Base
  <2>3. PICK t \in Shells : t \in PendingOf(conn[c].device, Head(q).ch)
    BY <1>7 DEF RecvOpenedAndExit, PendingOf
  <2>4. shell[t].state # "idle" /\ shell[t].device = conn[c].device /\ shell[t].ch = Head(q).ch
    BY <2>3 DEF PendingOf
  <2>5. Head(q).ch # ch
    <3> SUFFICES ASSUME Head(q).ch = ch
                 PROVE  FALSE
      OBVIOUS
    <3>1. t = s
      BY <1>5, <2>4 DEF Base, Numbered
    <3> QED BY <2>2, <2>3, <3>1
  <2>6. Tail(q) \in Seq(Frames)
    BY <1>1, <1>2, InTail
  <2>7. Denying(Tail(q), ch)
    BY <1>1, <1>2, <2>1, DenyingOf
  <2>8. \/ Head(Tail(q)).t \in {"error", "exit"} /\ Head(Tail(q)).ch = ch
        \/ Denying(Tail(Tail(q)), ch)
    <3> HIDE DEF q, ch
    <3> QED BY <2>1, <2>6, <2>7, DenyingOf
  <2> QED BY <2>1, <2>5, <2>8
<1>8. ASSUME RecvError(c)
      PROVE  Denying(conn'[c].toGateway, ch)
  <2>1. conn'[c].toGateway = Tail(q)
    BY <1>8, RecvErrorFields DEF Base
  <2>2. s \notin ChannelOf(conn[c].device, Head(q).ch)
    BY <1>8, RecvErrorFields DEF Base
  <2>3. Head(q).ch # ch
    BY <2>2 DEF ChannelOf, Listed
  <2> QED BY <1>1, <1>2, <2>1, <2>3, DenyingOf
<1>9. ASSUME RecvExit(c)
      PROVE  Denying(conn'[c].toGateway, ch)
  <2>1. conn'[c].toGateway = Tail(q)
    BY <1>9, RecvExitFields DEF Base
  <2>2. s \notin ChannelOf(conn[c].device, Head(q).ch)
    BY <1>9, RecvExitFields DEF Base
  <2>3. Head(q).ch # ch
    BY <2>2 DEF ChannelOf, Listed
  <2> QED BY <1>1, <1>2, <2>1, <2>3, DenyingOf
<1>10. Reads(c) \/ In(q) \subseteq In(conn'[c].toGateway)
  BY GatewayReads DEF Base
<1> QED BY <1>3, <1>4, <1>6, <1>7, <1>8, <1>9, <1>10 DEF Reads

\* A busy process stays claimed for until the agent says that it is over.
LEMMA BusyOn ==
  ASSUME Base, Counting, [Next]_vars, Unraced(Drops)', NEW c \in Conns, tunnel = c, tunnel' = c, c # 0,
         conn[c].agent = "open", conn'[c].agent = "open", conn[c].gateway = "open",
         NEW s \in Shells, shell[s].listed, shell[s].device = conn[c].device,
         NEW p \in Ptys, Busy(p), NEW ch, ch = pty[p].ch, ch = shell[s].ch
  PROVE  Claimed(ch)' \/ Denying(conn'[c].toGateway, ch)
<1>0. conn[c].toGateway \in Seq(Frames)
  BY TypesOf DEF Base, Typed, ConnTable, Connection
<1>1. CASE Busy(p)' /\ pty'[p].ch = pty[p].ch
  BY <1>1, Zenon DEF Claimed
<1>2. ASSUME NEW x \in Conns, RecvClose(x)
      PROVE  Head(conn[x].toAgent).ch # ch
  <2> DEFINE f == Head(conn[x].toAgent)
  <2>1. conn[x].agent = "open" /\ conn[x].toAgent # <<>> /\ f.t = "close"
    BY <1>2, RecvCloseFields DEF Base
  <2>2. x = c
    BY <2>1 DEF Base, Wired, Ends
  <2>3. f \in In(conn[x].toAgent) /\ About(f, c)
    BY <2>1, <2>2, OpenIsNumbered DEF Base
  <2>4. shell[f.for].state = "over"
    BY <2>1, <2>3 DEF Base, Addressed, ForAgent
  <2>5. f.for # s
    BY <2>4 DEF Base, Numbered
  <2>6. shell[s].state # "idle"
    BY DEF Base, Typed, Placed
  <2> QED BY <2>3, <2>5, <2>6 DEF About, Base, Numbered
<1>3. ASSUME NEW x \in Conns, RecvKill(x)
      PROVE  FALSE
  <2>1. conn[x].agent = "open" /\ conn'[x].agent = "closing"
    BY <1>3, RecvKillFields DEF Base
  <2>2. x = c
    BY <2>1 DEF Base, Wired, Ends
  <2> QED BY <2>1, <2>2
<1>4. ASSUME SpawnFails(p)
      PROVE  Denying(conn'[c].toGateway, ch)
  <2> DEFINE g == Frame("error", pty[p].ch, pty[p].owner)
  <2>1. g \in Frames /\ g.t = "error" /\ g.ch = pty[p].ch
    BY <1>4, SpawnFailsFields DEF Base
  <2>2. conn'[c].toGateway = Append(conn[c].toGateway, g)
    BY <1>4, SpawnFailsFields DEF Base
  <2> HIDE DEF g
  <2> QED BY <1>0, <2>1, <2>2, DenyingOf
<1>5. ASSUME PtyExits(p)
      PROVE  Denying(conn'[c].toGateway, ch)
  <2> DEFINE g == Frame("exit", pty[p].ch, pty[p].bound)
  <2>1. g \in Frames /\ g.t = "exit" /\ g.ch = pty[p].ch
    BY <1>5, PtyExitsFields DEF Base
  <2>2. pty[p].attached
    BY <1>5 DEF PtyExits, Busy
  <2>3. conn'[c].toGateway = Append(conn[c].toGateway, g)
    BY <1>5, <2>2, PtyExitsFields DEF Base
  <2> HIDE DEF g
  <2> QED BY <1>0, <2>1, <2>3, DenyingOf
<1> QED BY <1>1, <1>2, <1>3, <1>4, <1>5, BusyEnds DEF Ceases

\* What the agent is to open is opened, or it says that it is not.
LEMMA OpeningOn ==
  ASSUME Base, Counting, Orderly, [Next]_vars, Unraced(Drops)', NEW c \in Conns, tunnel = c, tunnel' = c, c # 0,
         conn[c].agent = "open", conn'[c].agent = "open", conn[c].gateway = "open",
         NEW ch \in ChannelIds, Opening(conn[c].toAgent, ch)
  PROVE  Claimed(ch)' \/ Denying(conn'[c].toGateway, ch)
<1> DEFINE q == conn[c].toAgent
           f == Head(q)
<1>0. q \in Seq(Frames) /\ conn[c].toGateway \in Seq(Frames) /\ q # <<>>
  <2>1. q \in Seq(Frames) /\ conn[c].toGateway \in Seq(Frames)
    BY TypesOf DEF Base, Typed, ConnTable, Connection
  <2> QED BY <2>1, OpeningOf
<1>1. CASE Opening(conn'[c].toAgent, ch)
  BY <1>1 DEF Claimed
<1>2. CASE In(q) \subseteq In(conn'[c].toAgent)
  <2>1. Opening(conn'[c].toAgent, ch)
    BY <1>2, Zenon DEF Opening
  <2> QED BY <1>1, <2>1
<1>3. ASSUME conn'[c].toAgent = Tail(q), f.t # "open" \/ f.ch # ch
      PROVE  Opening(conn'[c].toAgent, ch)
  BY <1>0, <1>3, OpeningHead
<1>4. ASSUME RecvClose(c)
      PROVE  Opening(conn'[c].toAgent, ch)
  <2>1. f.t = "close" /\ conn'[c].toAgent = Tail(q)
    BY <1>4, RecvCloseFields DEF Base
  <2> QED BY <1>3, <2>1
<1>5. ~RecvKill(c)
  BY RecvKillFields DEF Base
<1>6. ASSUME RecvOpenRefused(c)
      PROVE  Claimed(ch)' \/ Denying(conn'[c].toGateway, ch)
  <2> DEFINE g == Frame("error", f.ch, f.for)
  <2>1. g \in Frames /\ g.t = "error" /\ g.ch = f.ch
    BY <1>6, RecvOpenRefusedEffect DEF Base
  <2>2. conn'[c].toGateway = Append(conn[c].toGateway, g) /\ conn'[c].toAgent = Tail(q)
    BY <1>6, RecvOpenRefusedEffect DEF Base
  <2> HIDE DEF g
  <2>3. CASE f.ch = ch
    BY <1>0, <2>1, <2>2, <2>3, DenyingOf
  <2>4. CASE f.ch # ch
    BY <1>1, <1>3, <2>2, <2>4
  <2> QED BY <2>3, <2>4
<1>7. ASSUME NEW p \in Ptys, RecvOpenNew(c, p)
      PROVE  Claimed(ch)' \/ Denying(conn'[c].toGateway, ch)
  <2>1. conn'[c].toAgent = Tail(q)
    BY <1>7, RecvOpenNewFields DEF Base
  <2>2. pty'[p].state = "spawning" /\ pty'[p].ch = f.ch
    BY <1>7, RecvOpenNewFields DEF Base
  <2>3. CASE f.ch = ch
    BY <2>2, <2>3 DEF Claimed, Busy
  <2>4. CASE f.ch # ch
    BY <1>1, <1>3, <2>1, <2>4
  <2> QED BY <2>3, <2>4
<1>8. ASSUME RecvOpenHeld(c)
      PROVE  Claimed(ch)' \/ Denying(conn'[c].toGateway, ch)
  <2> DEFINE p == channels[f.ch]
  <2>1. conn'[c].toAgent = Tail(q)
    BY <1>8, RecvOpenHeldEffect DEF Base
  <2>2. CASE f.ch # ch
    BY <1>1, <1>3, <2>1, <2>2
  <2>3. CASE f.ch = ch
    <3>1. p # NoPty
      BY <1>8 DEF RecvOpenHeld
    <3>2. p \in Ptys /\ pty[p].ch = ch /\ pty[p].state = "alive"
      BY <2>3, <3>1, HeldIsAlive
    <3>3. pty'[p].state = pty[p].state /\ pty'[p].ch = pty[p].ch /\ (pty[p].attached \/ pty'[p].attached = TRUE)
      BY <1>8, <3>2, RecvOpenHeldFields DEF Base
    <3>4. pty'[p].attached
      BY <1>8, <3>2, <3>3, RecvOpenHeldFields DEF Base
    <3> HIDE DEF p
    <3> QED BY <3>2, <3>3, <3>4 DEF Claimed, Busy
  <2> QED BY <2>2, <2>3
<1> HIDE DEF q, f
<1>9. Takes(c) \/ In(q) \subseteq In(conn'[c].toAgent)
  BY AgentReads DEF Base, q
<1> QED BY <1>1, <1>2, <1>4, <1>5, <1>6, <1>7, <1>8, <1>9, Zenon DEF Takes

\* Hello is answered with an open for every terminal of the device.
LEMMA HelloOpens ==
  ASSUME Base, NEW c \in Conns, RecvHello(c), tunnel = c, c # 0, conn[c].agent = "open", conn[c].gateway = "open",
         device[conn[c].device].socket = c,
         NEW s \in Shells, s \in Listed(conn[c].device), NEW ch, ch = shell[s].ch
  PROVE  Claimed(ch)'
<1> DEFINE d == conn[c].device
<1>1. PICK ids \in InOrder(ListedIds(d)) : \A x \in Conns :
        conn'[x].toAgent =
          IF x = device[d].socket /\ conn[x].gateway = "open" /\ conn[x].agent # "closed"
          THEN conn[x].toAgent \o ResumeFrames(d, ids) ELSE conn[x].toAgent
  BY RecvHelloEffect DEF Base
<1>2. conn'[c].toAgent = conn[c].toAgent \o ResumeFrames(d, ids)
  BY <1>1
<1> DEFINE r == ResumeFrames(d, ids)
<1>3. /\ r \in Seq(Frames) /\ \A i \in 1 .. Len(r) : r[i].t = "open"
      /\ \E i \in 1 .. Len(r) : r[i].ch = ch
  BY ResumeFramesEffect, TypesOf DEF Base, Typed
<1> HIDE DEF r
<1>4. Opening(r, ch)
  <2>1. DOMAIN r = 1 .. Len(r)
    BY <1>3
  <2> QED BY <1>3, <2>1 DEF Opening, In
<1>5. conn[c].toAgent \in Seq(Frames)
  BY TypesOf DEF Base, Typed, ConnTable, Connection
<1>6. Opening(conn'[c].toAgent, ch)
  BY <1>2, <1>3, <1>4, <1>5, OpeningOf DEF r
<1>7. tunnel' = c
  BY RecvHelloFields DEF Base
<1> QED BY <1>6, <1>7 DEF Claimed

\* A new terminal is opened at once.
LEMMA NewOpens ==
  ASSUME Base, NEW c \in Conns, tunnel = c, c # 0, conn[c].agent = "open", conn[c].gateway = "open",
         NEW s \in Shells, OpenShell(s), shell'[s].device = conn[c].device, device[conn[c].device].socket = c,
         NEW ch, ch = shell'[s].ch
  PROVE  Claimed(ch)'
<1> DEFINE g == Frame("open", device[devices].next, s)
<1>1. \A t \in Shells :
        /\ shell'[t].state = (IF t = s THEN "opening" ELSE shell[t].state)
        /\ shell'[t].device = (IF t = s THEN devices ELSE shell[t].device)
        /\ shell'[t].ch = (IF t = s THEN device[devices].next ELSE shell[t].ch)
        /\ shell'[t].listed = (IF t = s THEN TRUE ELSE shell[t].listed)
  BY OpenShellFields, Zenon DEF Base
<1>2. devices = conn[c].device /\ ch = device[devices].next
  BY <1>1
<1>3. g \in Frames /\ g.t = "open" /\ g.ch = device[devices].next /\ tunnel' = tunnel
  BY OpenShellFields DEF Base
<1>4. \A x \in Conns :
        /\ conn'[x].agent = conn[x].agent
        /\ conn'[x].gateway = conn[x].gateway
        /\ conn'[x].device = conn[x].device
        /\ conn'[x].toAgent = (IF x = device[devices].socket /\ conn[x].gateway = "open" /\ conn[x].agent # "closed" THEN Append(conn[x].toAgent, g) ELSE conn[x].toAgent)
        /\ conn'[x].toGateway = conn[x].toGateway
  BY OpenShellFields, Zenon DEF Base
<1> HIDE DEF g
<1>5. conn'[c].toAgent = Append(conn[c].toAgent, g)
  BY <1>2, <1>4
<1>6. conn[c].toAgent \in Seq(Frames)
  BY TypesOf DEF Base, Typed, ConnTable, Connection
<1>7. Opening(conn'[c].toAgent, ch)
  BY <1>2, <1>3, <1>5, <1>6, OpeningOf
<1> QED BY <1>3, <1>7 DEF Claimed

LEMMA ShownStep ==
  ASSUME Base, Counting, Orderly, Shown, [Next]_vars, Unraced(Drops)'
  PROVE  Shown'
<1> SUFFICES ASSUME NEW c \in Conns, Talking(c)', NEW s \in Shells, shell'[s].listed,
                    shell'[s].device = conn'[c].device
             PROVE  Claimed(shell[s].ch)' \/ Denying(conn'[c].toGateway, shell'[s].ch)
  BY DEF Shown, Listed
<1>1. /\ conn[c].agent = "open" /\ conn'[c].agent = "open"
      /\ conn[c].gateway = "open" /\ conn'[c].gateway = "open"
      /\ tunnel = c /\ tunnel' = c /\ c # 0
      /\ conn'[c].device = conn[c].device /\ conn[c].device \in Conns
      /\ device[conn[c].device].socket = c
      /\ ~Greeting(c) \/ RecvHello(c)
  BY StaysTalking
<1>2. PICK ch : ch = shell'[s].ch
  OBVIOUS
<1>3. CASE OpenShell(s)
  <2>1. Claimed(ch)'
    BY <1>1, <1>2, <1>3, NewOpens
  <2> QED BY <1>2, <2>1
<1>4. CASE shell[s].listed /\ shell'[s].device = shell[s].device /\ shell'[s].ch = shell[s].ch
  <2>1. s \in Listed(conn[c].device) /\ ch = shell[s].ch
    BY <1>1, <1>2, <1>4 DEF Listed
  <2>2. CASE RecvHello(c)
    <3>1. Claimed(ch)'
      BY <1>1, <2>1, <2>2, HelloOpens
    <3> QED BY <1>2, <3>1
  <2>3. CASE ~Greeting(c)
    <3>1. Claimed(ch) \/ Denying(conn[c].toGateway, ch)
      BY <1>1, <2>1, <2>3 DEF Shown, Talking
    <3>2. CASE Denying(conn[c].toGateway, ch)
      <4>1. Denying(conn'[c].toGateway, ch)
        BY <1>1, <1>4, <2>1, <2>3, <3>2, DeniedOn
      <4> QED BY <1>2, <4>1
    <3>3. ASSUME NEW p \in Ptys, Busy(p), pty[p].ch = ch
          PROVE  Claimed(ch)' \/ Denying(conn'[c].toGateway, ch)
      BY <1>1, <1>4, <2>1, <3>3, BusyOn
    <3>4. ASSUME Opening(conn[c].toAgent, ch)
          PROVE  Claimed(ch)' \/ Denying(conn'[c].toGateway, ch)
      <4>1. ch \in ChannelIds
        BY <1>4, <2>1 DEF Base, Typed, Placed, Numbered
      <4> QED BY <1>1, <3>4, <4>1, OpeningOn
    <3>5. Claimed(ch) => (\E p \in Ptys : Busy(p) /\ pty[p].ch = ch) \/ Opening(conn[c].toAgent, ch)
      BY <1>1 DEF Claimed
    <3>6. Claimed(ch)' \/ Denying(conn'[c].toGateway, shell'[s].ch)
      BY <1>2, <3>1, <3>2, <3>3, <3>4, <3>5, Zenon
    <3> QED BY <1>2, <3>6
  <2> QED BY <1>1, <2>2, <2>3
<1>5. OpenShell(s) \/ (shell[s].listed /\ shell'[s].device = shell[s].device /\ shell'[s].ch = shell[s].ch)
  BY ListedStep DEF Base
<1> QED BY <1>3, <1>4, <1>5

LEMMA KnownAtStart ==
  ASSUME Init
  PROVE  Shown
BY DEF Init, Shown, Talking, Unused

LEMMA KnownStep ==
  ASSUME Base, Known, [Next]_vars
  PROVE  Known'
<1> SUFFICES ASSUME Unraced(Drops)'
             PROVE  Counting' /\ Tended' /\ Orderly' /\ Met' /\ Shown'
  BY DEF Known
<1>1. Counting /\ Tended /\ Orderly /\ Met /\ Shown
  BY UnracedDrops DEF Known
<1>2. Counted'
  BY <1>1, CountedStep DEF Counted
<1> QED BY <1>1, <1>2, ShownStep DEF Counted

\* A terminal the gateway shows is, once both ends have heard all there is to
\* hear, an attached live process the agent holds under its id: unless a dial
\* failed meanwhile, a process was being spawned across a drop, or an exit or
\* a frame came late (registry.ts resumeChannels, channels.ts openShell).
THEOREM NoDeadPromptHolds == Spec => []NoDeadPrompt
<1>1. Init => Base /\ Known
  BY BaseAtStart, CountedAtStart, KnownAtStart DEF Known
<1>2. Base /\ Known /\ [Next]_vars => (Base /\ Known)'
  BY BaseStep, KnownStep
<1>3. Base /\ Known => NoDeadPrompt
  <2> SUFFICES ASSUME Base, Counting, Shown, NEW c \in Conns, Settled(c), NEW s \in Listed(conn[c].device)
               PROVE  LET p == channels[shell[s].ch]
                      IN  p # NoPty /\ p \in Alive /\ pty[p].attached
    BY DEF NoDeadPrompt, Known, Drops
  <2>1. /\ conn[c].agent = "open" /\ conn[c].gateway = "open"
        /\ conn[c].toAgent = <<>> /\ conn[c].toGateway = <<>>
        /\ \A p \in Ptys : pty[p].state # "spawning"
    BY DEF Settled
  <2>2. Talking(c)
    BY <2>1, InEmpty DEF Talking, Greeting, Hello
  <2>3. Claimed(shell[s].ch)
    BY <2>1, <2>2, InEmpty DEF Shown, Denying
  <2>4. tunnel = c
    BY <2>1 DEF Base, Wired, Ends
  <2>5. PICK p \in Ptys : Busy(p) /\ pty[p].ch = shell[s].ch
    BY <2>1, <2>3, <2>4, InEmpty DEF Claimed, Opening
  <2>6. pty[p].state = "alive" /\ pty[p].attached
    BY <2>1, <2>5 DEF Busy
  <2>7. channels[shell[s].ch] = p /\ p # NoPty
    BY <2>5, <2>6, HeldIsAlive
  <2> QED BY <2>6, <2>7 DEF Alive
<1> QED BY <1>1, <1>2, <1>3, PTL DEF Spec

-----------------------------------------------------------------------------
(* What an answer says of a terminal.                                        *)

\* An answer is about a terminal that was opened on the connection's device.
Answerable ==
  \A c \in Conns : \A f \in In(conn[c].toGateway) : f.t # "hello" =>
    \E s \in Shells : shell[s].state # "idle" /\ shell[s].ch = f.ch /\ shell[s].device = conn[c].device

\* A process that was killed while it was attached served a terminal that is
\* not listed any more.
Spent == \A p \in Ptys : pty[p].state = "killed" /\ pty[p].attached => ~shell[pty[p].bound].listed

\* Once the agent has denied a terminal it does nothing more for it.
LastWord ==
  \A s \in Shells :
    tunnel # 0 /\ shell[s].listed /\ shell[s].device = conn[tunnel].device
      /\ Denying(conn[tunnel].toGateway, shell[s].ch)
    => ~Claimed(shell[s].ch) /\ ~Greeting(tunnel)

Exact == Unraced(Drops) => Answerable /\ Spent /\ LastWord

\* The exit of a process is sent over the connection of its terminal's device.
LEMMA ExitIsAbout ==
  ASSUME Base, Counting, Tended, [Next]_vars, Unraced(Drops)', tunnel # 0,
         NEW p \in Ptys, PtyExits(p), pty[p].attached
  PROVE  /\ pty[p].bound \in Shells /\ shell[pty[p].bound].state # "idle"
         /\ shell[pty[p].bound].ch = pty[p].ch /\ shell[pty[p].bound].device = conn[tunnel].device
<1>1. pty[p].state \in {"alive", "killed"}
  BY DEF PtyExits
<1>2. pty[p].bound \in Shells /\ shell[pty[p].bound].state # "idle" /\ shell[pty[p].bound].ch = pty[p].ch
  BY <1>1 DEF Base, Served
<1>3. CASE pty[p].state = "alive"
  BY <1>2, <1>3 DEF Busy, Tended
<1>4. CASE pty[p].state = "killed"
  <2>1. raced' = raced \cup Mark("lateExit",
              /\ pty[p].state = "killed"
              /\ \/ channels[pty[p].ch] # NoPty
                 \/ /\ pty[p].attached
                    /\ tunnel # 0
                    /\ conn[tunnel].device # shell[pty[p].bound].device)
    BY PtyExitsEffect DEF Base
  <2>2. "lateExit" \notin raced'
    BY UnracedDrops
  <2> QED BY <1>2, <1>4, <2>1, <2>2 DEF Mark
<1> QED BY <1>1, <1>3, <1>4

\* So is every other answer.
LEMMA AnswerIsAbout ==
  ASSUME Base, Counting, Tended, Orderly, [Next]_vars, Unraced(Drops)', tunnel # 0,
         NEW f \in Frames, Answers(f)
  PROVE  \E s \in Shells : shell[s].state # "idle" /\ shell[s].ch = f.ch /\ shell[s].device = conn[tunnel].device
<1>1. ASSUME NEW c \in Conns, AnswersOpen(c, f)
      PROVE  \E s \in Shells : shell[s].state # "idle" /\ shell[s].ch = f.ch /\ shell[s].device = conn[tunnel].device
  <2>1. Reaches(c, "open") /\ f.ch = Head(conn[c].toAgent).ch
    BY <1>1 DEF AnswersOpen, RecvOpenHeld, RecvOpenRefused
  <2>2. c = tunnel /\ About(Head(conn[c].toAgent), c)
    BY <2>1, OpenFindsNoneBusy
  <2> QED BY <2>1, <2>2 DEF About
<1>2. ASSUME NEW p \in Ptys, AnswersFor(p, f)
      PROVE  \E s \in Shells : shell[s].state # "idle" /\ shell[s].ch = f.ch /\ shell[s].device = conn[tunnel].device
  <2>1. f.ch = pty[p].ch
    BY <1>2 DEF AnswersFor
  <2>2. CASE PtyExits(p) /\ pty[p].attached
    BY <2>1, <2>2, ExitIsAbout
  <2>3. CASE Spawned(p) \/ SpawnFails(p)
    <3>1. pty[p].state = "spawning"
      BY <2>3 DEF Spawned, SpawnFails
    <3>2. shell[pty[p].bound].device = conn[tunnel].device
      BY <3>1 DEF Busy, Tended
    <3>3. pty[p].bound \in Shells /\ shell[pty[p].bound].state # "idle" /\ shell[pty[p].bound].ch = pty[p].ch
      BY <3>1 DEF Base, Served
    <3> QED BY <2>1, <3>2, <3>3
  <2> QED BY <1>2, <2>2, <2>3 DEF AnswersFor
<1> QED BY <1>1, <1>2 DEF Answers

LEMMA AnswerableStep ==
  ASSUME Base, Counting, Tended, Orderly, Answerable, [Next]_vars, Unraced(Drops)'
  PROVE  Answerable'
<1> SUFFICES ASSUME NEW c \in Conns, NEW f \in In(conn'[c].toGateway), f.t # "hello"
             PROVE  \E s \in Shells : shell'[s].state # "idle" /\ shell'[s].ch = f.ch /\ shell'[s].device = conn'[c].device
  BY DEF Answerable
<1>1. conn[c].toGateway \in Seq(Frames)
  BY TypesOf DEF Base, Typed, ConnTable, Connection
<1>2. \E s \in Shells : shell[s].state # "idle" /\ shell[s].ch = f.ch /\ shell[s].device = conn[c].device
  <2>1. CASE f \in In(conn[c].toGateway)
    BY <2>1 DEF Answerable
  <2>2. CASE ReadByGateway(c)
    <3>1. f \in In(conn[c].toGateway)
      <4>1. \A q \in Seq(Frames) : q # <<>> => In(Tail(q)) \subseteq In(q) /\ Tail(q) \in Seq(Frames)
        BY InTail
      <4> QED BY <1>1, <2>2, <4>1, InEmpty DEF ReadByGateway
    <3> QED BY <2>1, <3>1
  <2>3. CASE SentHello(c)
    <3>1. PICK g \in Frames : g.t = "hello" /\ conn'[c].toGateway = Append(conn[c].toGateway, g)
      BY <2>3 DEF SentHello
    <3>2. f \in In(conn[c].toGateway)
      BY <1>1, <3>1, InAppend
    <3> QED BY <2>1, <3>2
  <2>4. CASE SentAnswer(c)
    <3>1. PICK g \in Frames : Answers(g) /\ conn'[c].toGateway = Append(conn[c].toGateway, g)
      BY <2>4 DEF SentAnswer
    <3>2. c = tunnel /\ tunnel # 0
      BY <2>4, ConnNotZero DEF SentAnswer
    <3>3. f \in In(conn[c].toGateway) \/ f = g
      BY <1>1, <3>1, InAppend
    <3> QED BY <2>1, <3>1, <3>2, <3>3, AnswerIsAbout
  <2> QED BY <2>2, <2>3, <2>4, ToGatewayStep DEF Base
<1>3. conn'[c].device = conn[c].device
  <2>1. conn'[c].toGateway # <<>>
    BY InEmpty
  <2>2. ~Accept(c)
    <3> SUFFICES ASSUME Accept(c)
                 PROVE  FALSE
      OBVIOUS
    <3>1. conn[c].toGateway = <<>>
      BY DEF Accept, Base, Wired, Ends
    <3>2. conn'[c].toGateway = conn[c].toGateway
      BY AcceptFields DEF Base
    <3> QED BY <2>1, <3>1, <3>2
  <2>3. ~(DialFails /\ c = tunnel)
    <3> SUFFICES ASSUME DialFails, c = tunnel
                 PROVE  FALSE
      OBVIOUS
    <3>1. conn'[c].toGateway = <<>>
      BY DialFailsFields DEF Base
    <3> QED BY <2>1, <3>1
  <2> QED BY <2>2, <2>3, AgentEndStep DEF Base, DeviceOfChange
<1>4. PICK s \in Shells : shell[s].state # "idle" /\ shell[s].ch = f.ch /\ shell[s].device = conn[c].device
  BY <1>2
<1>5. shell'[s].state # "idle" /\ shell'[s].ch = shell[s].ch /\ shell'[s].device = shell[s].device
  BY <1>4, TerminalsKept DEF Base
<1> QED BY <1>3, <1>4, <1>5

\* Only a close of its id, or a kill, ends a process while it is attached.
LEMMA KilledBy ==
  ASSUME Base, Counting, [Next]_vars, Unraced(Drops)', NEW p \in Ptys, pty'[p].state = "killed", pty'[p].attached
  PROVE  /\ pty[p].attached /\ pty'[p].bound = pty[p].bound
         /\ \/ pty[p].state = "killed"
            \/ /\ pty[p].state = "alive"
               /\ \E c \in Conns : RecvKill(c) \/ (RecvClose(c) /\ Head(conn[c].toAgent).ch = pty[p].ch)
<1> DEFINE By == \E c \in Conns : RecvKill(c) \/ (RecvClose(c) /\ Head(conn[c].toAgent).ch = pty[p].ch)
           Goal == /\ pty[p].attached /\ pty'[p].bound = pty[p].bound
                   /\ pty[p].state = "killed" \/ (pty[p].state = "alive" /\ By)
<1>1. CASE UNCHANGED <<channels, pty>>
  BY <1>1
<1>2. ASSUME NEW R, Disconnected(R)
      PROVE  Goal
  BY <1>2, DisconnectedFields DEF Base
<1>3. ASSUME DialFails
      PROVE  Goal
  BY <1>2, <1>3, Zenon DEF DialFails
<1>4. ASSUME AgentRestarts
      PROVE  Goal
  <2>1. pty'[p] = FreePty
    BY <1>4, Zenon DEF AgentRestarts
  <2> QED BY <2>1 DEF FreePty
<1>5. ASSUME NEW c \in Conns, AgentSeesClose(c)
      PROVE  Goal
  <2>1. PICK R : Disconnected(R)
    BY <1>5, Zenon DEF AgentSeesClose
  <2> QED BY <1>2, <2>1
<1>6. ASSUME NEW c \in Conns, RecvOpenHeld(c)
      PROVE  Goal
  <2> DEFINE f == Head(conn[c].toAgent)
             q == channels[f.ch]
  <2>1. /\ pty'[p].state = pty[p].state
        /\ (p = q /\ ~pty[q].attached) \/ (pty'[p].attached = pty[p].attached /\ pty'[p].bound = pty[p].bound)
    BY <1>6, RecvOpenHeldFields DEF Base
  <2>2. p # q
    <3>1. f.ch \in ChannelIds
      <4>1. conn[c].toAgent # <<>> /\ f.t = "open"
        BY <1>6 DEF RecvOpenHeld, Reaches
      <4> QED BY <4>1, OpenIsNumbered DEF Base
    <3>2. q # NoPty => pty[q].state = "alive"
      BY <3>1, HeldIsAlive
    <3> QED BY <2>1, <3>2, NoValueAssumption
  <2> QED BY <2>1, <2>2
<1>7. ASSUME NEW c \in Conns, RecvClose(c)
      PROVE  Goal
  <2> DEFINE f == Head(conn[c].toAgent)
  <2>1. conn[c].toAgent # <<>> /\ f.t = "close"
    BY <1>7, RecvCloseFields DEF Base
  <2>2. \A x \in Ptys :
          /\ x # channels[f.ch] => pty'[x] = pty[x]
          /\ x = channels[f.ch] =>
               /\ pty'[x].state = (IF pty[x].state = "alive" THEN "killed" ELSE pty[x].state)
               /\ pty'[x].ch = pty[x].ch /\ pty'[x].attached = pty[x].attached
               /\ pty'[x].timer = FALSE /\ pty'[x].stray = pty[x].stray
               /\ pty'[x].owner = pty[x].owner /\ pty'[x].bound = pty[x].bound
    BY <1>7, RecvCloseEffect, Zenon DEF Base
  <2>3. f.ch \in ChannelIds
    BY <2>1, OpenIsNumbered DEF Base
  <2>4. p = channels[f.ch] => pty[p].ch = f.ch /\ pty[p].state = "alive"
    BY <2>3, HeldIsAlive, NoValueAssumption, SMTT(60)
  <2>5. CASE p # channels[f.ch]
    BY <2>2, <2>5
  <2>6. CASE p = channels[f.ch]
    BY <1>7, <2>2, <2>4, <2>6
  <2> QED BY <2>5, <2>6
<1>8. ASSUME NEW c \in Conns, RecvKill(c)
      PROVE  Goal
  <2>1. \A x \in Ptys :
          /\ x \notin Held => pty'[x] = pty[x]
          /\ x \in Held =>
               /\ pty'[x].state = (IF pty[x].state = "alive" THEN "killed" ELSE pty[x].state)
               /\ pty'[x].ch = pty[x].ch /\ pty'[x].attached = pty[x].attached
               /\ pty'[x].timer = FALSE /\ pty'[x].stray = pty[x].stray
               /\ pty'[x].owner = pty[x].owner /\ pty'[x].bound = pty[x].bound
    BY <1>8, RecvKillEffect, Zenon DEF Base
  <2> QED BY <1>8, <2>1
<1>9. ASSUME NEW c \in Conns, NEW q \in Ptys, RecvOpenNew(c, q)
      PROVE  Goal
  <2>1. \A x \in Ptys :
          /\ pty'[x].state = (IF x = q THEN "spawning" ELSE pty[x].state)
          /\ pty'[x].ch = (IF x = q THEN Head(conn[c].toAgent).ch ELSE pty[x].ch)
          /\ pty'[x].attached = (IF x = q THEN FALSE ELSE pty[x].attached)
          /\ pty'[x].timer = (IF x = q THEN FALSE ELSE pty[x].timer)
          /\ pty'[x].stray = (IF x = q THEN 0 ELSE pty[x].stray)
          /\ pty'[x].owner = (IF x = q THEN Head(conn[c].toAgent).for ELSE pty[x].owner)
          /\ pty'[x].bound = (IF x = q THEN Head(conn[c].toAgent).for ELSE pty[x].bound)
    BY <1>9, RecvOpenNewFields, Zenon DEF Base
  <2> QED BY <2>1
<1>10. ASSUME NEW q \in Ptys, Spawned(q)
       PROVE  Goal
  BY <1>10, SpawnedFields DEF Base
<1>11. ASSUME NEW q \in Ptys, SpawnFails(q)
       PROVE  Goal
  BY <1>11, SpawnFailsFields DEF Base
<1>12. ASSUME NEW q \in Ptys, PtyExits(q)
       PROVE  Goal
  <2>1. \A x \in Ptys :
          \/ pty'[x] = FreePty /\ (x = q \/ pty[x].state = "dead")
          \/ /\ pty'[x].state = (IF x = q THEN "dead" ELSE pty[x].state)
             /\ pty'[x].ch = pty[x].ch /\ pty'[x].attached = pty[x].attached
             /\ pty'[x].timer = (pty[x].timer /\ x # channels[pty[q].ch])
             /\ pty'[x].stray = pty[x].stray
             /\ pty'[x].owner = pty[x].owner /\ pty'[x].bound = pty[x].bound
    BY <1>12, PtyExitsEffect, Zenon DEF Base
  <2>2. FreePty.state = "free"
    BY DEF FreePty
  <2> QED BY <2>1, <2>2
<1>13. ASSUME NEW q \in Ptys, AgentGraceFires(q)
       PROVE  Goal
  <2>1. /\ pty[q].timer \/ pty[q].stray > 0
        /\ \/ pty'[p] = FreePty
           \/ /\ pty'[p].state = (IF p = q /\ pty[p].state = "alive" THEN "killed" ELSE pty[p].state)
              /\ pty'[p].attached = pty[p].attached /\ pty'[p].bound = pty[p].bound
    BY <1>13, AgentGraceFiresEffect, ZenonT(60) DEF Base
  <2>4. FreePty.state = "free"
    BY DEF FreePty
  <2>2. pty[q].stray = 0
    BY UnracedDrops
  <2>3. pty[q].state = "alive" /\ ~pty[q].attached
    BY <2>1, <2>2 DEF Counting
  <2>5. p = q => ~pty'[p].attached \/ pty'[p].state = "free"
    BY <2>1, <2>3, <2>4
  <2>6. p # q
    BY <2>5
  <2> QED BY <2>1, <2>4, <2>6
<1> HIDE DEF By
<1>14. Goal
  BY <1>1, <1>3, <1>4, <1>5, <1>6, <1>7, <1>8, <1>9, <1>10, <1>11, <1>12, <1>13, HandlesOrRests, Zenon DEF Handles
<1> QED BY <1>14 DEF By

LEMMA SpentStep ==
  ASSUME Base, Counting, Tended, Spent, [Next]_vars, Unraced(Drops)'
  PROVE  Spent'
<1> SUFFICES ASSUME NEW p \in Ptys, pty'[p].state = "killed", pty'[p].attached, shell'[pty'[p].bound].listed
             PROVE  FALSE
  BY DEF Spent
<1> DEFINE s == pty[p].bound
<1>1. pty[p].attached /\ pty'[p].bound = s /\ pty[p].state \in {"alive", "killed"}
  BY KilledBy
<1>2. s \in Shells /\ shell[s].state # "idle" /\ shell[s].ch = pty[p].ch
  BY <1>1 DEF Base, Served
<1>3. shell[s].listed
  <2>1. ~OpenShell(s)
    BY <1>2 DEF OpenShell
  <2> QED BY <1>1, <1>2, <2>1, ListedStep DEF Base
<1>4. CASE pty[p].state = "killed"
  BY <1>1, <1>3, <1>4 DEF Spent
<1>5. CASE pty[p].state = "alive"
  <2>1. tunnel # 0 /\ shell[s].device = conn[tunnel].device
    BY <1>1, <1>5 DEF Busy, Tended
  <2>2. PICK c \in Conns : RecvKill(c) \/ (RecvClose(c) /\ Head(conn[c].toAgent).ch = pty[p].ch)
    BY <1>5, KilledBy
  <2> DEFINE f == Head(conn[c].toAgent)
  <2>3. conn[c].agent = "open" /\ conn[c].toAgent # <<>> /\ f.t \in {"kill", "close"}
    BY <2>2, RecvKillFields, RecvCloseFields DEF Base
  <2>4. c = tunnel
    BY <2>3 DEF Base, Wired, Ends
  <2>5. ForAgent(f, c)
    <3>1. conn[c].toAgent \in Seq(Frames)
      BY TypesOf DEF Base, Typed, ConnTable, Connection
    <3> QED BY <2>3, <3>1, InTail DEF Base, Addressed
  <2>6. f.t # "kill"
    BY <1>2, <1>3, <2>1, <2>4, <2>5 DEF ForAgent, Listed
  <2>7. f.ch = pty[p].ch /\ f.t = "close"
    BY <2>2, <2>3, <2>6, RecvKillFields DEF Base
  <2>8. About(f, c) /\ shell[f.for].state = "over"
    BY <2>5, <2>7 DEF ForAgent
  <2>9. f.for = s
    BY <1>2, <2>1, <2>4, <2>7, <2>8 DEF About, Base, Numbered
  <2> QED BY <1>2, <1>3, <2>8, <2>9 DEF Base, Numbered
<1> QED BY <1>1, <1>4, <1>5

\* When the agent denies a listed terminal it does nothing else for it.
LEMMA NewDenial ==
  ASSUME Base, Counting, Tended, Orderly, Spent, [Next]_vars, Unraced(Drops)', tunnel # 0, tunnel' = tunnel,
         NEW f \in Frames, Answers(f), f.t \in {"error", "exit"},
         NEW s \in Shells, shell[s].listed, shell[s].device = conn[tunnel].device,
         NEW ch, ch = f.ch, ch = shell[s].ch
  PROVE  ~Greeting(tunnel) /\ ~Claimed(ch)'
<1> DEFINE q == conn[tunnel].toAgent
<1>0. tunnel \in Conns /\ shell[s].state # "idle"
  BY TypesOf DEF Base, Typed, Placed
<1>1. ASSUME NEW c \in Conns, Reaches(c, "open"), ch = Head(conn[c].toAgent).ch, UNCHANGED pty,
             conn'[c].toAgent = Tail(conn[c].toAgent)
      PROVE  ~Greeting(tunnel) /\ ~Claimed(ch)'
  <2>1. c = tunnel /\ ~Greeting(c) /\ (\A p \in Ptys : Busy(p) => pty[p].ch # ch) /\ ~Opening(Tail(conn[c].toAgent), ch)
    BY <1>1, OpenFindsNoneBusy
  <2>2. \A p \in Ptys : Busy(p)' <=> Busy(p)
    BY <1>1 DEF Busy
  <2> QED BY <1>1, <2>1, <2>2 DEF Claimed
<1>2. ASSUME NEW c \in Conns, AnswersOpen(c, f)
      PROVE  ~Greeting(tunnel) /\ ~Claimed(ch)'
  <2>1. Reaches(c, "open") /\ f.ch = Head(conn[c].toAgent).ch
    BY <1>2 DEF AnswersOpen, RecvOpenHeld, RecvOpenRefused
  <2>2. CASE RecvOpenHeld(c)
    <3>1. f.t = "error" /\ f.ch \in ChannelIds /\ channels[f.ch] # NoPty
      <4>1. ~RecvOpenRefused(c)
        BY <2>2 DEF RecvOpenHeld, RecvOpenRefused
      <4>2. f.t = (IF pty[channels[f.ch]].attached THEN "error" ELSE "opened")
        BY <1>2, <4>1 DEF AnswersOpen
      <4>3. f.ch \in ChannelIds
        BY <2>1, OpenFindsNoneBusy
      <4> QED BY <2>1, <2>2, <4>2, <4>3 DEF RecvOpenHeld
    <3>2. pty[channels[f.ch]].attached
      <4>1. ~RecvOpenRefused(c)
        BY <2>2 DEF RecvOpenHeld, RecvOpenRefused
      <4> QED BY <1>2, <3>1, <4>1 DEF AnswersOpen
    <3>3. channels[f.ch] \in Ptys /\ pty[channels[f.ch]].ch = f.ch /\ Busy(channels[f.ch])
      BY <3>1, <3>2, HeldIsAlive DEF Busy
    <3> QED BY <2>1, <3>3, OpenFindsNoneBusy
  <2>3. CASE RecvOpenRefused(c)
    <3>1. conn'[c].toAgent = Tail(conn[c].toAgent)
      BY <2>3, RecvOpenRefusedEffect DEF Base
    <3>2. UNCHANGED pty
      BY <2>3, Zenon DEF RecvOpenRefused
    <3> QED BY <1>1, <2>1, <3>1, <3>2
  <2> QED BY <1>2, <2>2, <2>3 DEF AnswersOpen
<1>3. ASSUME NEW p \in Ptys, Busy(p), pty[p].ch = ch,
             conn'[tunnel].toAgent = q,
             \A x \in Ptys : Busy(x)' => x # p /\ Busy(x) /\ pty'[x].ch = pty[x].ch
      PROVE  ~Greeting(tunnel) /\ ~Claimed(ch)'
  <2>1. ~Greeting(tunnel) /\ ~Opening(q, ch)
    BY <1>3 DEF Tended, Orderly
  <2>2. ASSUME NEW x \in Ptys, Busy(x)', pty'[x].ch = ch
        PROVE  FALSE
    <3>1. x # p /\ Busy(x) /\ pty[x].ch = ch
      BY <1>3, <2>2
    <3>2. pty[p].state = "alive" /\ pty[x].state = "alive"
      BY <1>3, <3>1 DEF Busy, Counting
    <3> QED BY <1>3, <3>1, <3>2, HeldIsAlive
  <2> QED BY <1>3, <2>1, <2>2 DEF Claimed
<1>4. ASSUME NEW p \in Ptys, AnswersFor(p, f)
      PROVE  ~Greeting(tunnel) /\ ~Claimed(ch)'
  <2>1. pty[p].ch = ch
    BY <1>4 DEF AnswersFor
  <2>2. CASE SpawnFails(p)
    <3>1. pty[p].state = "spawning" /\ conn'[tunnel].toAgent = q
      BY <1>0, <2>2, SpawnFailsFields DEF Base
    <3>2. \A x \in Ptys :
            /\ pty'[x].state = (IF x = p THEN "free" ELSE pty[x].state)
            /\ pty'[x].ch = (IF x = p THEN 0 ELSE pty[x].ch)
            /\ pty'[x].attached = (IF x = p THEN FALSE ELSE pty[x].attached)
      BY <2>2, SpawnFailsFields, ZenonT(60) DEF Base
    <3>3. \A x \in Ptys : Busy(x)' => x # p /\ Busy(x) /\ pty'[x].ch = pty[x].ch
      BY <3>2 DEF Busy
    <3> QED BY <1>3, <2>1, <3>1, <3>3 DEF Busy
  <2>3. CASE PtyExits(p) /\ pty[p].attached
    <3>1. pty[p].state \in {"alive", "killed"} /\ conn'[tunnel].toAgent = q
      BY <1>0, <2>3, PtyExitsFields DEF Base
    <3>2. \A x \in Ptys :
            \/ pty'[x] = FreePty /\ (x = p \/ pty[x].state = "dead")
            \/ /\ pty'[x].state = (IF x = p THEN "dead" ELSE pty[x].state)
               /\ pty'[x].ch = pty[x].ch /\ pty'[x].attached = pty[x].attached
               /\ pty'[x].timer = (pty[x].timer /\ x # channels[pty[p].ch])
               /\ pty'[x].stray = pty[x].stray
               /\ pty'[x].owner = pty[x].owner /\ pty'[x].bound = pty[x].bound
      BY <2>3, PtyExitsEffect, Zenon DEF Base
    <3>3. FreePty.state = "free"
      BY DEF FreePty
    <3>4. \A x \in Ptys : Busy(x)' => x # p /\ Busy(x) /\ pty'[x].ch = pty[x].ch
      BY <3>2, <3>3 DEF Busy
    <3>5. CASE pty[p].state = "alive"
      BY <1>3, <2>1, <2>3, <3>1, <3>4, <3>5 DEF Busy
    <3>6. CASE pty[p].state = "killed"
      <4>1. /\ pty[p].bound \in Shells /\ shell[pty[p].bound].state # "idle"
            /\ shell[pty[p].bound].ch = pty[p].ch /\ shell[pty[p].bound].device = conn[tunnel].device
        BY <2>3, ExitIsAbout
      <4>2. pty[p].bound = s
        BY <1>0, <2>1, <4>1 DEF Base, Numbered
      <4> QED BY <2>3, <3>6, <4>2 DEF Spent
    <3> QED BY <3>1, <3>5, <3>6
  <2>4. ~Spawned(p) \/ f.t = "opened" \/ SpawnFails(p) \/ (PtyExits(p) /\ pty[p].attached)
    BY <1>4 DEF AnswersFor
  <2> QED BY <1>4, <2>2, <2>3 DEF AnswersFor
<1> QED BY <1>2, <1>4 DEF Answers

LEMMA LastWordStep ==
  ASSUME Base, Counting, Tended, Orderly, Met, Answerable, Spent, LastWord, [Next]_vars, Unraced(Drops)'
  PROVE  LastWord'
<1> SUFFICES ASSUME NEW s \in Shells, tunnel' # 0, shell'[s].listed, shell'[s].device = conn'[tunnel'].device,
                    Denying(conn'[tunnel'].toGateway, shell'[s].ch)
             PROVE  ~Claimed(shell[s].ch)' /\ ~Greeting(tunnel)'
  BY DEF LastWord
<1>0. PICK c : c = tunnel'
  OBVIOUS
<1>1. c \in Conns /\ conn'[c].toGateway # <<>> /\ conn[c].toGateway \in Seq(Frames)
  <2>1. Typed'
    BY TypedStep DEF Base
  <2>2. c \in Conns
    BY <1>0, <2>1, TypesOfNext DEF Typed
  <2>3. conn[c].toGateway \in Seq(Frames)
    BY <2>2, TypesOf DEF Base, Typed, ConnTable, Connection
  <2> QED BY <1>0, <2>2, <2>3, InEmpty DEF Denying
<1>2. tunnel = c
  <2>1. ~Dial(c)
    <3> SUFFICES ASSUME Dial(c)
                 PROVE  FALSE
      OBVIOUS
    <3>1. conn[c].toGateway = <<>>
      BY <1>1 DEF Dial, Base, Wired, Ends
    <3>2. conn'[c].toGateway = conn[c].toGateway
      BY <1>1, DialFields DEF Base
    <3> QED BY <1>1, <3>1, <3>2
  <2> QED BY <1>0, <2>1, TunnelStep DEF Base
<1>3. conn'[c].device = conn[c].device
  <2>1. ~Accept(c)
    <3> SUFFICES ASSUME Accept(c)
                 PROVE  FALSE
      OBVIOUS
    <3>1. conn[c].toGateway = <<>>
      BY <1>1 DEF Accept, Base, Wired, Ends
    <3>2. conn'[c].toGateway = conn[c].toGateway
      BY <1>1, AcceptFields DEF Base
    <3> QED BY <1>1, <3>1, <3>2
  <2>2. ~DialFails
    BY <1>0, DialFailsFields DEF Base
  <2> QED BY <1>1, <2>1, <2>2, AgentEndStep DEF Base, DeviceOfChange
<1>4. ~OpenShell(s)
  <2> SUFFICES ASSUME OpenShell(s)
               PROVE  FALSE
    OBVIOUS
  <2>0. \A x \in Conns : conn'[x].toGateway = conn[x].toGateway
    BY OpenShellFields, ZenonT(60) DEF Base
  <2>6. \A t \in Shells :
          /\ shell'[t].state = (IF t = s THEN "opening" ELSE shell[t].state)
          /\ shell'[t].device = (IF t = s THEN devices ELSE shell[t].device)
          /\ shell'[t].ch = (IF t = s THEN device[devices].next ELSE shell[t].ch)
          /\ shell'[t].listed = (IF t = s THEN TRUE ELSE shell[t].listed)
    BY OpenShellFields, Zenon DEF Base
  <2>1. shell'[s].ch = device[devices].next /\ shell'[s].device = devices
    BY <2>6
  <2>2. PICK f \in In(conn[c].toGateway) : f.t \in {"error", "exit"} /\ f.ch = device[devices].next
    BY <1>0, <1>1, <2>0, <2>1 DEF Denying
  <2>3. PICK t \in Shells : shell[t].state # "idle" /\ shell[t].ch = f.ch /\ shell[t].device = conn[c].device
    BY <1>1, <2>2 DEF Answerable
  <2>4. shell[t].device = devices
    BY <1>0, <1>3, <2>1, <2>3
  <2>5. device[devices].next \in Nat
    <3>1. devices \in Conns
      BY OpenShellFields DEF Base
    <3> QED BY <3>1, TypesOf DEF Base, Typed, Device
  <2>7. shell[t].ch < device[devices].next
    BY <2>3, <2>4 DEF Base, Numbered
  <2> QED BY <2>2, <2>3, <2>5, <2>7
<1>5. shell[s].listed /\ shell'[s].device = shell[s].device /\ shell'[s].ch = shell[s].ch
  BY <1>4, ListedStep DEF Base
<1>6. shell[s].device = conn[c].device
  BY <1>0, <1>3, <1>5
<1>7. PICK ch : ch = shell[s].ch
  OBVIOUS
<1>8. PICK f \in In(conn'[c].toGateway) : f.t \in {"error", "exit"} /\ f.ch = ch
  BY <1>0, <1>5, <1>7 DEF Denying
<1>9. CASE f \in In(conn[c].toGateway)
  <2>1. ~Claimed(ch) /\ ~Greeting(c)
    BY <1>0, <1>2, <1>5, <1>6, <1>7, <1>8, <1>9 DEF LastWord, Denying
  <2>2. ~Greeting(c)'
    BY <1>0, <1>1, <1>2, <2>1, GreetingStep DEF Dial
  <2>3. ASSUME NEW p \in Ptys, Busy(p)', pty'[p].ch = ch
        PROVE  FALSE
    <3>1. StaysBusy(p) \/ TurnsBusy(p)
      BY <2>3, CountingStep DEF CountsOn
    <3>2. ~StaysBusy(p)
      BY <2>1, <2>3 DEF StaysBusy, Claimed
    <3>3. ~TurnsBusy(p)
      <4> SUFFICES ASSUME TurnsBusy(p)
                   PROVE  FALSE
        OBVIOUS
      <4>1. Reaches(c, "open") /\ Head(conn[c].toAgent).ch = ch
        BY <1>2, <2>3 DEF TurnsBusy
      <4>2. Head(conn[c].toAgent) \in In(conn[c].toAgent) /\ Head(conn[c].toAgent).t = "open"
        BY <1>1, <4>1, OpenIsNumbered DEF Base, Reaches
      <4> QED BY <1>0, <1>2, <2>1, <4>1, <4>2 DEF Claimed, Opening
    <3> QED BY <3>1, <3>2, <3>3
  <2>4. ASSUME Opening(conn'[c].toAgent, ch)
        PROVE  FALSE
    <3>1. ~Opening(conn[c].toAgent, ch)
      BY <1>0, <1>2, <2>1 DEF Claimed
    <3>2. conn[c].device = devices /\ ch = device[devices].next
      BY <1>1, <2>1, <2>4, <3>1, OpeningStep
    <3>3. shell[s].state # "idle"
      BY <1>5 DEF Base, Typed, Placed
    <3>4. ch < device[devices].next
      BY <1>6, <1>7, <3>2, <3>3 DEF Base, Numbered
    <3>5. device[devices].next \in Nat
      <4>1. devices \in Conns
        BY <1>6, <3>2, <3>3 DEF Base, Typed, Placed
      <4> QED BY <4>1, TypesOf DEF Base, Typed, Device
    <3> QED BY <3>2, <3>4, <3>5
  <2>5. ~Claimed(ch)'
    BY <1>0, <2>3, <2>4 DEF Claimed
  <2> QED BY <1>0, <1>5, <1>7, <2>2, <2>5 DEF Claimed, Greeting
<1>10. CASE f \notin In(conn[c].toGateway)
  <2>1. PICK g \in Frames : /\ g.t = "hello" \/ (c = tunnel /\ Answers(g))
                            /\ conn'[c].toGateway = Append(conn[c].toGateway, g)
    <3>1. \A q \in Seq(Frames) : q # <<>> => In(Tail(q)) \subseteq In(q) /\ Tail(q) \in Seq(Frames)
      BY InTail
    <3>2. ~ReadByGateway(c)
      BY <1>1, <1>8, <1>10, <3>1, InEmpty DEF ReadByGateway
    <3>3. SentHello(c) \/ SentAnswer(c)
      BY <1>1, <3>2, ToGatewayStep DEF Base
    <3> QED BY <3>3, Zenon DEF SentHello, SentAnswer
  <2>2. f = g
    BY <1>1, <1>8, <1>10, <2>1, InAppend
  <2>3. Answers(f) /\ f \in Frames
    BY <1>8, <2>1, <2>2
  <2>4. ~Greeting(tunnel) /\ ~Claimed(ch)'
    BY <1>0, <1>2, <1>5, <1>6, <1>7, <1>8, <2>3, NewDenial
  <2>5. ~Greeting(c)'
    BY <1>0, <1>1, <1>2, <2>4, GreetingStep DEF Dial
  <2> QED BY <1>0, <1>5, <1>7, <2>4, <2>5 DEF Claimed, Greeting
<1> QED BY <1>9, <1>10

LEMMA ExactAtStart ==
  ASSUME Init
  PROVE  Answerable /\ Spent /\ LastWord
<1>1. (\A c \in Conns : conn[c].toGateway = <<>>) /\ tunnel = 0 /\ \A p \in Ptys : pty[p].state = "free"
  BY DEF Init, Unused, FreePty
<1> QED BY <1>1, InEmpty DEF Answerable, Spent, LastWord

LEMMA ExactStep ==
  ASSUME Base, Known, Exact, [Next]_vars
  PROVE  Exact'
<1> SUFFICES ASSUME Unraced(Drops)'
             PROVE  Answerable' /\ Spent' /\ LastWord'
  BY DEF Exact
<1>1. Unraced(Drops)
  BY RacedGrows
<1>2. Counting /\ Tended /\ Orderly /\ Met /\ Answerable /\ Spent /\ LastWord
  BY <1>1 DEF Known, Exact
<1> QED BY <1>2, AnswerableStep, SpentStep, LastWordStep

-----------------------------------------------------------------------------
(* What becomes of a terminal, and of the connection it is used over.        *)

\* Terminal s is taken off its device's list, and what becomes of its call.
Leaves(s) ==
  /\ ~shell'[s].listed
  /\ \/ EndShell(s) /\ shell'[s].state = "over"
     \/ OpenTimesOut(s) /\ shell'[s].state = "over"
     \/ GatewayRestarts /\ shell'[s].state = "over"
     \/ KillDevice /\ shell[s].device = devices
     \/ \E d \in Conns : /\ GatewayGraceFires(d) /\ shell[s].device = d
                         /\ shell'[s].state = "over" \/ shell'[s].state = shell[s].state
     \/ \E c \in Conns : /\ GatewaySeesClose(c) /\ Current(c) /\ shell[s].device = conn[c].device
                         /\ shell[s].state = "opening" /\ shell'[s].state = "over"
     \/ \E c \in Conns :
          /\ shell[s].device = conn[c].device
          /\ \/ /\ RecvOpenedAndExit(c) /\ Head(Tail(conn[c].toGateway)).ch = shell[s].ch
                /\ shell[s].state = "opening"
             \/ RecvError(c) /\ Head(conn[c].toGateway).ch = shell[s].ch /\ shell'[s].state = "over"
             \/ /\ RecvExit(c) /\ Head(conn[c].toGateway).ch = shell[s].ch
                /\ shell'[s].state = (IF shell[s].state = "open" THEN "over" ELSE shell[s].state)
\* It is opened, or its call is answered.
IsOpened(s) ==
  \/ OpenShell(s) /\ shell'[s].state = "opening" /\ shell'[s].listed
  \/ \E c \in Conns :
       /\ RecvOpened(c) /\ shell[s].device = conn[c].device /\ Head(conn[c].toGateway).ch = shell[s].ch
       /\ shell[s].state = "opening" /\ shell'[s].state = "open" /\ shell'[s].listed = shell[s].listed

LEMMA TerminalStep ==
  ASSUME Typed, [Next]_vars, NEW s \in Shells
  PROVE  \/ shell'[s].state = shell[s].state /\ shell'[s].listed = shell[s].listed
         \/ IsOpened(s) \/ Leaves(s)
<1> DEFINE Goal == \/ shell'[s].state = shell[s].state /\ shell'[s].listed = shell[s].listed
                   \/ IsOpened(s) \/ Leaves(s)
<1>1. CASE UNCHANGED shell
  BY <1>1
<1>2. CASE UNCHANGED vars
  BY <1>1, <1>2 DEF vars
<1>3. ASSUME DialFails
      PROVE  Goal
  BY <1>1, <1>3, Zenon DEF DialFails
<1>4. ASSUME AgentRestarts
      PROVE  Goal
  BY <1>1, <1>4, Zenon DEF AgentRestarts
<1>5. ASSUME KillDevice
      PROVE  Goal
  <2>1. CASE s \in Listed(devices)
    <3>1. ~shell'[s].listed
      BY <1>5, <2>1, KillDeviceFields
    <3> QED BY <1>5, <2>1, <3>1 DEF Leaves, Listed
  <2>2. CASE ~(s \in Listed(devices))
    BY <1>5, <2>2, KillDeviceFields
  <2> QED BY <2>1, <2>2
<1>6. ASSUME GatewayRestarts
      PROVE  Goal
  BY <1>6, GatewayRestartsFields DEF Leaves, Typed, Placed
<1>7. ASSUME NEW c \in Conns, Dial(c)
      PROVE  Goal
  BY <1>1, <1>7, Zenon DEF Dial
<1>8. ASSUME NEW c \in Conns, Connected(c)
      PROVE  Goal
  BY <1>1, <1>8, Zenon DEF Connected
<1>9. ASSUME NEW c \in Conns, AgentSeesClose(c)
      PROVE  Goal
  BY <1>1, <1>9, Zenon DEF AgentSeesClose
<1>10. ASSUME NEW c \in Conns, Accept(c)
       PROVE  Goal
  BY <1>1, <1>10, Zenon DEF Accept
<1>11. ASSUME NEW c \in Conns, GatewaySeesClose(c)
       PROVE  Goal
  <2>1. CASE Current(c) /\ shell[s].state = "opening" /\ shell[s].device = conn[c].device
    <3>1. ~shell'[s].listed /\ shell'[s].state = "over"
      BY <1>11, <2>1, GatewaySeesCloseFields, ZenonT(60)
    <3> QED BY <1>11, <2>1, <3>1 DEF Leaves
  <2>2. CASE ~(Current(c) /\ shell[s].state = "opening" /\ shell[s].device = conn[c].device)
    <3>1. ~Current(c) => shell' = shell
      BY <1>11, GatewaySeesCloseEffect, Zenon
    <3>2. Current(c) => \A t \in Shells : shell'[t] =
                          IF t \in {i \in Shells : shell[i].state = "opening" /\ shell[i].device = conn[c].device}
                          THEN [shell[t] EXCEPT !.state = "over", !.listed = FALSE] ELSE shell[t]
      BY <1>11, GatewaySeesCloseEffect, Zenon
    <3>3. shell'[s] = shell[s]
      BY <2>2, <3>1, <3>2
    <3> QED BY <3>3
  <2> QED BY <2>1, <2>2
<1>12. ASSUME NEW c \in Conns, GatewayGraceFires(c)
       PROVE  Goal
  <2>1. CASE s \in Listed(c)
    <3>1. ~shell'[s].listed /\ (shell'[s].state = "over" \/ shell'[s].state = shell[s].state)
      BY <1>12, <2>1, GatewayGraceFiresFields
    <3> QED BY <1>12, <2>1, <3>1 DEF Leaves, Listed
  <2>2. CASE ~(s \in Listed(c))
    BY <1>12, <2>2, GatewayGraceFiresFields
  <2> QED BY <2>1, <2>2
<1>13. ASSUME NEW c \in Conns, RecvHello(c)
       PROVE  Goal
  BY <1>1, <1>13, Zenon DEF RecvHello
<1>14. ASSUME NEW c \in Conns, RecvOpened(c)
       PROVE  Goal
  <2>1. CASE s \in PendingOf(conn[c].device, Head(conn[c].toGateway).ch)
    <3>1. shell'[s].listed = shell[s].listed /\ shell'[s].state = "open"
      BY <1>14, <2>1, RecvOpenedFields
    <3> QED BY <1>14, <2>1, <3>1 DEF IsOpened, PendingOf
  <2>2. CASE ~(s \in PendingOf(conn[c].device, Head(conn[c].toGateway).ch))
    BY <1>14, <2>2, RecvOpenedFields
  <2> QED BY <2>1, <2>2
<1>15. ASSUME NEW c \in Conns, RecvOpenedAndExit(c)
       PROVE  Goal
  <2>1. CASE s \in PendingOf(conn[c].device, Head(conn[c].toGateway).ch)
    <3>1. ~shell'[s].listed
      BY <1>15, <2>1, RecvOpenedAndExitFields
    <3>4. Head(Tail(conn[c].toGateway)).ch = Head(conn[c].toGateway).ch
      BY <1>15, RecvOpenedAndExitFields
    <3> QED BY <1>15, <2>1, <3>1, <3>4 DEF Leaves, PendingOf
  <2>2. CASE ~(s \in PendingOf(conn[c].device, Head(conn[c].toGateway).ch))
    BY <1>15, <2>2, RecvOpenedAndExitFields
  <2> QED BY <2>1, <2>2
<1>16. ASSUME NEW c \in Conns, RecvError(c)
       PROVE  Goal
  <2>1. CASE s \in PendingOf(conn[c].device, Head(conn[c].toGateway).ch) \cup ChannelOf(conn[c].device, Head(conn[c].toGateway).ch)
    <3>1. ~shell'[s].listed /\ shell'[s].state = "over"
      BY <1>16, <2>1, RecvErrorFields
    <3> QED BY <1>16, <2>1, <3>1 DEF Leaves, PendingOf, ChannelOf, Listed
  <2>2. CASE ~(s \in PendingOf(conn[c].device, Head(conn[c].toGateway).ch) \cup ChannelOf(conn[c].device, Head(conn[c].toGateway).ch))
    BY <1>16, <2>2, RecvErrorFields
  <2> QED BY <2>1, <2>2
<1>17. ASSUME NEW c \in Conns, RecvExit(c)
       PROVE  Goal
  <2>1. CASE s \in ChannelOf(conn[c].device, Head(conn[c].toGateway).ch)
    <3>1. ~shell'[s].listed /\ shell'[s].state = (IF shell[s].state = "open" THEN "over" ELSE shell[s].state)
      BY <1>17, <2>1, RecvExitFields
    <3> QED BY <1>17, <2>1, <3>1 DEF Leaves, ChannelOf, Listed
  <2>2. CASE ~(s \in ChannelOf(conn[c].device, Head(conn[c].toGateway).ch))
    BY <1>17, <2>2, RecvExitFields
  <2> QED BY <2>1, <2>2
<1>18. ASSUME NEW c \in Conns, RecvOpenHeld(c)
       PROVE  Goal
  BY <1>1, <1>18, Zenon DEF RecvOpenHeld
<1>19. ASSUME NEW c \in Conns, RecvOpenRefused(c)
       PROVE  Goal
  BY <1>1, <1>19, Zenon DEF RecvOpenRefused
<1>20. ASSUME NEW c \in Conns, RecvClose(c)
       PROVE  Goal
  BY <1>1, <1>20, Zenon DEF RecvClose
<1>21. ASSUME NEW c \in Conns, RecvKill(c)
       PROVE  Goal
  BY <1>1, <1>21, Zenon DEF RecvKill
<1>22. ASSUME NEW c \in Conns, NEW p \in Ptys, RecvOpenNew(c, p)
       PROVE  Goal
  BY <1>1, <1>22, Zenon DEF RecvOpenNew
<1>23. ASSUME NEW t \in Shells, OpenShell(t)
       PROVE  Goal
  <2>1. \A x \in Shells :
          /\ shell'[x].state = (IF x = t THEN "opening" ELSE shell[x].state)
          /\ shell'[x].device = (IF x = t THEN devices ELSE shell[x].device)
          /\ shell'[x].ch = (IF x = t THEN device[devices].next ELSE shell[x].ch)
          /\ shell'[x].listed = (IF x = t THEN TRUE ELSE shell[x].listed)
    BY <1>23, OpenShellFields, Zenon
  <2> QED BY <1>23, <2>1 DEF IsOpened
<1>24. ASSUME NEW t \in Shells, OpenTimesOut(t)
       PROVE  Goal
  BY <1>24, OpenTimesOutFields DEF Leaves
<1>25. ASSUME NEW t \in Shells, EndShell(t)
       PROVE  Goal
  <2>1. \A x \in Shells :
          /\ shell'[x].state = (IF x = t THEN "over" ELSE shell[x].state)
          /\ shell'[x].device = shell[x].device
          /\ shell'[x].ch = shell[x].ch
          /\ shell'[x].listed = (IF x = t THEN FALSE ELSE shell[x].listed)
    BY <1>25, EndShellFields, Zenon
  <2> QED BY <1>25, <2>1 DEF Leaves
<1>26. ASSUME NEW p \in Ptys, Spawned(p)
       PROVE  Goal
  BY <1>1, <1>26, Zenon DEF Spawned
<1>27. ASSUME NEW p \in Ptys, SpawnFails(p)
       PROVE  Goal
  BY <1>1, <1>27, Zenon DEF SpawnFails
<1>28. ASSUME NEW p \in Ptys, PtyExits(p)
       PROVE  Goal
  BY <1>1, <1>28, Zenon DEF PtyExits
<1>29. ASSUME NEW p \in Ptys, AgentGraceFires(p)
       PROVE  Goal
  BY <1>1, <1>29, Zenon DEF AgentGraceFires
<1> QED
  BY <1>2, <1>3, <1>4, <1>5, <1>6, <1>7, <1>8, <1>9, <1>10, <1>11, <1>12, <1>13, <1>14, <1>15, <1>16, <1>17, <1>18, <1>19, <1>20, <1>21, <1>22, <1>23, <1>24, <1>25, <1>26, <1>27, <1>28, <1>29, Zenon DEF Next

-----------------------------------------------------------------------------
(* What the agent has is listed, or about to be closed.                      *)

Orphaning == Drops \cup {"closeWhileSpawning", "abandonedOpen"}

\* The agent is still to read, from q, that terminal s is closed.
Leaving(q, s) == \E f \in In(q) : f.t = "close" /\ f.for = s
\* It is told to open a terminal before it is told to close it.
InTurn(q) ==
  \A i, j \in DOMAIN q : q[i].t = "open" /\ q[j].t = "close" /\ q[i].for = q[j].for => i < j

Wanted ==
  \A c \in Conns : conn[c].agent = "open" /\ conn[c].gateway = "open" =>
    /\ \A p \in Ptys : Busy(p) => shell[pty[p].bound].listed \/ Leaving(conn[c].toAgent, pty[p].bound)
    /\ \A f \in In(conn[c].toAgent) : f.t = "open" => shell[f.for].listed \/ Leaving(conn[c].toAgent, f.for)
    /\ InTurn(conn[c].toAgent)

LEMMA InTurnOf ==
  ASSUME NEW q \in Seq(Frames), InTurn(q)
  PROVE  /\ \A f \in Frames : f.t # "open" => InTurn(Append(q, f))
         /\ \A f \in Frames : ~Leaving(q, f.for) => InTurn(Append(q, f))
         /\ \A r \in Seq(Frames) : (\A i \in DOMAIN r : r[i].t = "open" /\ ~Leaving(q, r[i].for)) => InTurn(q \o r)
         /\ q # <<>> => InTurn(Tail(q))
         /\ InTurn(<<>>)
<1>1. ASSUME NEW f \in Frames, f.t # "open" \/ ~Leaving(q, f.for)
      PROVE  InTurn(Append(q, f))
  <2> DEFINE r == Append(q, f)
  <2>1. /\ DOMAIN r = 1 .. (Len(q) + 1) /\ Len(q) \in Nat /\ DOMAIN q = 1 .. Len(q)
        /\ (\A i \in DOMAIN q : r[i] = q[i]) /\ r[Len(q) + 1] = f
    BY InAppend
  <2> HIDE DEF r
  <2> SUFFICES ASSUME NEW i \in DOMAIN r, NEW j \in DOMAIN r, r[i].t = "open", r[j].t = "close", r[i].for = r[j].for
               PROVE  i < j
    BY DEF InTurn, r
  <2>2. CASE i \in DOMAIN q /\ j \in DOMAIN q
    BY <2>1, <2>2 DEF InTurn
  <2>3. CASE i \in DOMAIN q /\ j = Len(q) + 1
    BY <2>1, <2>3
  <2>4. CASE i = Len(q) + 1 /\ j \in DOMAIN q
    BY <1>1, <2>1, <2>4 DEF Leaving, In
  <2>5. CASE i = Len(q) + 1 /\ j = Len(q) + 1
    BY <2>1, <2>5
  <2> QED BY <2>1, <2>2, <2>3, <2>4, <2>5
<1>2. ASSUME NEW r \in Seq(Frames), \A i \in DOMAIN r : r[i].t = "open" /\ ~Leaving(q, r[i].for)
      PROVE  InTurn(q \o r)
  <2> DEFINE w == q \o r
  <2>1. /\ Len(q) \in Nat /\ Len(r) \in Nat /\ DOMAIN q = 1 .. Len(q) /\ DOMAIN r = 1 .. Len(r)
        /\ DOMAIN w = 1 .. (Len(q) + Len(r))
        /\ \A i \in 1 .. (Len(q) + Len(r)) : w[i] = IF i <= Len(q) THEN q[i] ELSE r[i - Len(q)]
    BY InConcat
  <2> HIDE DEF w
  <2> SUFFICES ASSUME NEW i \in DOMAIN w, NEW j \in DOMAIN w, w[i].t = "open", w[j].t = "close", w[i].for = w[j].for
               PROVE  i < j
    BY DEF InTurn, w
  <2>2. j \in DOMAIN q /\ w[j] = q[j]
    <3>1. CASE j <= Len(q)
      BY <2>1, <3>1
    <3>2. CASE ~(j <= Len(q))
      <4>1. j - Len(q) \in DOMAIN r /\ w[j] = r[j - Len(q)]
        BY <2>1, <3>2
      <4> QED BY <1>2, <4>1
    <3> QED BY <3>1, <3>2
  <2>3. i \in DOMAIN q /\ w[i] = q[i]
    <3>1. CASE i <= Len(q)
      BY <2>1, <3>1
    <3>2. CASE ~(i <= Len(q))
      <4>1. i - Len(q) \in DOMAIN r /\ w[i] = r[i - Len(q)]
        BY <2>1, <3>2
      <4>2. ~Leaving(q, w[i].for)
        BY <1>2, <4>1
      <4> QED BY <2>2, <4>2 DEF Leaving, In
    <3> QED BY <3>1, <3>2
  <2> QED BY <2>2, <2>3 DEF InTurn
<1>3. ASSUME q # <<>>
      PROVE  InTurn(Tail(q))
  <2> DEFINE r == Tail(q)
  <2>1. \A i \in DOMAIN r : i + 1 \in DOMAIN q /\ r[i] = q[i + 1]
    BY <1>3, InTail
  <2>2. \A i \in DOMAIN r : i \in Nat
    <3>1. Tail(q) \in Seq(Frames)
      BY <1>3, InTail
    <3> QED BY <3>1, LenProperties
  <2> HIDE DEF r
  <2> SUFFICES ASSUME NEW i \in DOMAIN r, NEW j \in DOMAIN r, r[i].t = "open", r[j].t = "close", r[i].for = r[j].for
               PROVE  i < j
    BY DEF InTurn, r
  <2>3. i + 1 < j + 1
    BY <2>1 DEF InTurn
  <2> QED BY <2>2, <2>3
<1>4. InTurn(<<>>)
  BY DEF InTurn
<1> QED BY <1>1, <1>2, <1>3, <1>4

\* A close is on its way only for a terminal that is over.
LEMMA LeavingIsOver ==
  ASSUME Base, NEW c \in Conns, NEW s, Leaving(conn[c].toAgent, s)
  PROVE  s \in Shells /\ shell[s].state = "over" /\ ~shell[s].listed
<1>1. PICK f \in In(conn[c].toAgent) : f.t = "close" /\ f.for = s
  BY DEF Leaving
<1>2. s \in Shells /\ shell[s].state = "over"
  BY <1>1 DEF Base, Addressed, ForAgent, About
<1> QED BY <1>2 DEF Base, Numbered

LEMMA InTurnStep ==
  ASSUME Base, [Next]_vars, NEW x \in Conns, InTurn(conn[x].toAgent)
  PROVE  InTurn(conn'[x].toAgent)
<1>1. conn[x].toAgent \in Seq(Frames)
  BY TypesOf DEF Base, Typed, ConnTable, Connection
<1>2. \/ ReadByAgent(x) \/ SentKill(x)
      \/ \E s \in Shells : SentClose(x, s) \/ SentOpen(x, s)
      \/ \E c \in Conns : SentResume(x, c)
  BY ToAgentStep DEF Base
<1>3. ASSUME ReadByAgent(x)
      PROVE  InTurn(conn'[x].toAgent)
  BY <1>1, <1>3, InTurnOf DEF ReadByAgent
<1>4. ASSUME SentKill(x)
      PROVE  InTurn(conn'[x].toAgent)
  BY <1>1, <1>4, InTurnOf DEF SentKill
<1>5. ASSUME NEW s \in Shells, SentClose(x, s)
      PROVE  InTurn(conn'[x].toAgent)
  BY <1>1, <1>5, InTurnOf DEF SentClose
<1>6. ASSUME NEW s \in Shells, SentOpen(x, s)
      PROVE  InTurn(conn'[x].toAgent)
  <2>1. PICK f \in Frames : /\ f.t = "open" /\ f.ch = device[devices].next /\ f.for = s
                            /\ conn'[x].toAgent = Append(conn[x].toAgent, f)
    BY <1>6 DEF SentOpen
  <2>2. shell[s].state = "idle"
    BY <1>6 DEF SentOpen, OpenShell
  <2>3. ~Leaving(conn[x].toAgent, f.for)
    BY <2>1, <2>2, LeavingIsOver
  <2> QED BY <1>1, <2>1, <2>3, InTurnOf
<1>7. ASSUME NEW c \in Conns, SentResume(x, c)
      PROVE  InTurn(conn'[x].toAgent)
  <2> DEFINE d == conn[c].device
  <2>1. PICK ids \in InOrder(ListedIds(d)) : conn'[x].toAgent = conn[x].toAgent \o ResumeFrames(d, ids)
    BY <1>7, Zenon DEF SentResume
  <2>2. /\ ResumeFrames(d, ids) \in Seq(Frames)
        /\ \A i \in 1 .. Len(ResumeFrames(d, ids)) :
             ResumeFrames(d, ids)[i].t = "open" /\ ResumeFrames(d, ids)[i].for \in Listed(d)
    BY ResumeFramesEffect, TypesOf DEF Base, Typed
  <2>3. \A i \in DOMAIN ResumeFrames(d, ids) :
          ResumeFrames(d, ids)[i].t = "open" /\ ~Leaving(conn[x].toAgent, ResumeFrames(d, ids)[i].for)
    <3>1. DOMAIN ResumeFrames(d, ids) = 1 .. Len(ResumeFrames(d, ids))
      BY <2>2, LenProperties
    <3>2. \A s \in Listed(d) : ~Leaving(conn[x].toAgent, s)
      BY LeavingIsOver DEF Listed
    <3> QED BY <2>2, <3>1, <3>2
  <2> QED BY <1>1, <2>1, <2>2, <2>3, InTurnOf
<1> QED BY <1>2, <1>3, <1>4, <1>5, <1>6, <1>7

\* Over a connection in use a terminal is taken off the list only by the gateway
\* that closes it, or once the agent has denied it.
LEMMA Unlisted ==
  ASSUME Base, LastWord, [Next]_vars, Unraced(Orphaning)', NEW c \in Conns, tunnel = c, c # 0,
         conn[c].agent = "open", conn[c].gateway = "open", conn'[c].gateway = "open",
         device[conn[c].device].socket = c,
         NEW s \in Shells, shell[s].listed, shell[s].device = conn[c].device, ~shell'[s].listed
  PROVE  \/ Leaving(conn'[c].toAgent, s)
         \/ ~Claimed(shell[s].ch) /\ UNCHANGED pty /\ conn'[c].toAgent = conn[c].toAgent
<1> DEFINE Denied == ~Claimed(shell[s].ch) /\ UNCHANGED pty /\ conn'[c].toAgent = conn[c].toAgent
<1>0. /\ conn[c].toAgent \in Seq(Frames) /\ conn[c].toGateway \in Seq(Frames) /\ conn[c].device \in Conns
      /\ "staleSocket" \notin raced' /\ "abandonedOpen" \notin raced'
  <2>1. conn[c].toAgent \in Seq(Frames) /\ conn[c].toGateway \in Seq(Frames)
    BY TypesOf DEF Base, Typed, ConnTable, Connection
  <2> QED BY <2>1 DEF Base, Typed, Placed, Unraced, Orphaning, Drops
<1>1. ASSUME EndShell(s)
      PROVE  Leaving(conn'[c].toAgent, s)
  <2> DEFINE g == Frame("close", shell[s].ch, s)
  <2>1. g \in Frames /\ g.t = "close" /\ g.for = s
    BY <1>1, EndShellFields DEF Base
  <2>2. conn'[c].toAgent = Append(conn[c].toAgent, g)
    <3>1. \A x \in Conns :
            /\ conn'[x].agent = conn[x].agent
            /\ conn'[x].gateway = conn[x].gateway
            /\ conn'[x].device = conn[x].device
            /\ conn'[x].toAgent = (IF shell[s].listed /\ x = device[shell[s].device].socket /\ conn[x].gateway = "open" /\ conn[x].agent # "closed" THEN Append(conn[x].toAgent, g) ELSE conn[x].toAgent)
            /\ conn'[x].toGateway = conn[x].toGateway
      BY <1>1, EndShellFields, Zenon DEF Base
    <3> HIDE DEF g
    <3> QED BY <3>1, ZenonT(60)
  <2> HIDE DEF g
  <2> QED BY <1>0, <2>1, <2>2, InAppend DEF Leaving
<1>2. ~OpenTimesOut(s)
  BY <1>0, OpenTimesOutEffect DEF Base
<1>3. ~GatewayRestarts
  BY GatewayRestartsFields DEF Base
<1>4. ASSUME KillDevice, shell[s].device = devices
      PROVE  FALSE
  <2>1. device[devices].socket # 0 => conn'[device[devices].socket].gateway # "open"
    BY <1>4, KillDeviceEffect DEF Base
  <2> QED BY <1>4, <2>1
<1>5. ASSUME NEW d \in Conns, GatewayGraceFires(d), shell[s].device = d
      PROVE  FALSE
  BY <1>5 DEF GatewayGraceFires, Base, Registered
<1>6. ASSUME NEW x \in Conns, GatewaySeesClose(x), Current(x), shell[s].device = conn[x].device
      PROVE  FALSE
  <2>1. x = c
    BY <1>6 DEF Current
  <2>2. conn'[c].gateway = "closed"
    BY <1>6, <2>1, GatewaySeesCloseFields DEF Base
  <2> QED BY <2>2
<1>7. ASSUME NEW x \in Conns, shell[s].device = conn[x].device, raced' = raced \cup Stale(x) \/ raced' = raced \cup {"sameTick"} \cup Stale(x)
      PROVE  x = c
  BY <1>0, <1>7 DEF Stale, Mark
<1>8. ASSUME Denying(conn[c].toGateway, shell[s].ch)
      PROVE  ~Claimed(shell[s].ch)
  BY <1>8 DEF LastWord
<1>9. ASSUME NEW x \in Conns, RecvOpenedAndExit(x), shell[s].device = conn[x].device,
             Head(Tail(conn[x].toGateway)).ch = shell[s].ch
      PROVE  Denied
  <2>1. /\ raced' = raced \cup {"sameTick"} \cup Stale(x) /\ UNCHANGED pty
        /\ conn[x].toGateway # <<>> /\ Tail(conn[x].toGateway) # <<>> /\ Head(Tail(conn[x].toGateway)).t = "exit"
    BY <1>9, RecvOpenedAndExitFields DEF Base
  <2>2. x = c
    BY <1>7, <1>9, <2>1
  <2>3. conn'[c].toAgent = conn[c].toAgent
    BY <1>9, RecvOpenedAndExitFields DEF Base
  <2>4. Denying(conn[c].toGateway, shell[s].ch)
    <3> DEFINE q == conn[c].toGateway
    <3>1. Head(Tail(q)) \in In(Tail(q)) /\ In(Tail(q)) \subseteq In(q)
      BY <1>0, <2>1, <2>2, InTail
    <3> QED BY <1>9, <2>1, <2>2, <3>1 DEF Denying
  <2> QED BY <1>8, <2>1, <2>3, <2>4
<1>10. ASSUME NEW x \in Conns, RecvError(x), shell[s].device = conn[x].device, Head(conn[x].toGateway).ch = shell[s].ch
       PROVE  Denied
  <2>1. /\ raced' = raced \cup Stale(x) /\ UNCHANGED pty
        /\ conn[x].toGateway # <<>> /\ Head(conn[x].toGateway).t = "error"
    BY <1>10, RecvErrorFields DEF Base
  <2>2. x = c
    BY <1>7, <1>10, <2>1
  <2>3. conn'[c].toAgent = conn[c].toAgent
    BY <1>10, RecvErrorFields DEF Base
  <2>4. Denying(conn[c].toGateway, shell[s].ch)
    BY <1>0, <1>10, <2>1, <2>2, InTail DEF Denying
  <2> QED BY <1>8, <2>1, <2>3, <2>4
<1>11. ASSUME NEW x \in Conns, RecvExit(x), shell[s].device = conn[x].device, Head(conn[x].toGateway).ch = shell[s].ch
       PROVE  Denied
  <2>1. /\ raced' = raced \cup Stale(x) /\ UNCHANGED pty
        /\ conn[x].toGateway # <<>> /\ Head(conn[x].toGateway).t = "exit"
    BY <1>11, RecvExitFields DEF Base
  <2>2. x = c
    BY <1>7, <1>11, <2>1
  <2>3. conn'[c].toAgent = conn[c].toAgent
    BY <1>11, RecvExitFields DEF Base
  <2>4. Denying(conn[c].toGateway, shell[s].ch)
    BY <1>0, <1>11, <2>1, <2>2, InTail DEF Denying
  <2> QED BY <1>8, <2>1, <2>3, <2>4
<1>12. Leaves(s)
  <2>1. IsOpened(s) => shell'[s].listed
    BY DEF IsOpened
  <2> QED BY <2>1, TerminalStep DEF Base
<1> HIDE DEF Denied
<1>13. Leaving(conn'[c].toAgent, s) \/ Denied
  BY <1>1, <1>2, <1>3, <1>4, <1>5, <1>6, <1>9, <1>10, <1>11, <1>12, Zenon DEF Leaves
<1> QED BY <1>13 DEF Denied

\* A close stays on its way until the agent reads it, or its end is gone.
LEMMA LeavingOn ==
  ASSUME Base, [Next]_vars, NEW c \in Conns, conn'[c].agent \notin {"closed", "unused"}, ~RecvKill(c),
         NEW s, Leaving(conn[c].toAgent, s)
  PROVE  \/ Leaving(conn'[c].toAgent, s)
         \/ RecvClose(c) /\ Head(conn[c].toAgent).for = s
<1> DEFINE q == conn[c].toAgent
<1>0. q \in Seq(Frames) /\ q # <<>>
  <2>1. q \in Seq(Frames)
    BY TypesOf DEF Base, Typed, ConnTable, Connection
  <2> QED BY <2>1, InEmpty DEF Leaving
<1>1. PICK f \in In(q) : f.t = "close" /\ f.for = s
  BY DEF Leaving
<1>2. ASSUME In(q) \subseteq In(conn'[c].toAgent)
      PROVE  Leaving(conn'[c].toAgent, s)
  BY <1>1, <1>2 DEF Leaving
<1>3. ASSUME conn'[c].toAgent = Tail(q), Head(q).t = "open"
      PROVE  Leaving(conn'[c].toAgent, s)
  BY <1>0, <1>1, <1>3, InTail DEF Leaving
<1>4. ASSUME RecvClose(c), Head(q).for # s
      PROVE  Leaving(conn'[c].toAgent, s)
  <2>1. conn'[c].toAgent = Tail(q)
    BY <1>4, RecvCloseFields DEF Base
  <2> QED BY <1>0, <1>1, <1>4, <2>1, InTail DEF Leaving
<1>5. ASSUME RecvOpenRefused(c)
      PROVE  conn'[c].toAgent = Tail(q) /\ Head(q).t = "open"
  BY <1>5, RecvOpenRefusedEffect DEF Base
<1>6. ASSUME RecvOpenHeld(c)
      PROVE  conn'[c].toAgent = Tail(q) /\ Head(q).t = "open"
  BY <1>6, RecvOpenHeldEffect DEF Base
<1>7. ASSUME NEW p \in Ptys, RecvOpenNew(c, p)
      PROVE  conn'[c].toAgent = Tail(q) /\ Head(q).t = "open"
  BY <1>7, RecvOpenNewFields DEF Base
<1>8. Takes(c) \/ In(q) \subseteq In(conn'[c].toAgent)
  BY AgentReads DEF Base
<1> HIDE DEF q
<1>9. Leaving(conn'[c].toAgent, s) \/ (RecvClose(c) /\ Head(q).for = s)
  BY <1>2, <1>3, <1>4, <1>5, <1>6, <1>7, <1>8, Zenon DEF Takes
<1> QED BY <1>9 DEF q

\* A terminal that is listed, or about to be closed, stays so until the agent
\* has denied it, or reads that it is closed.
LEMMA WantedOn ==
  ASSUME Base, LastWord, [Next]_vars, Unraced(Orphaning)', NEW c \in Conns, tunnel = c, c # 0,
         conn[c].agent = "open", conn'[c].agent = "open", conn[c].gateway = "open", conn'[c].gateway = "open",
         device[conn[c].device].socket = c,
         NEW s \in Shells, shell[s].device = conn[c].device, shell[s].listed \/ Leaving(conn[c].toAgent, s)
  PROVE  \/ shell'[s].listed \/ Leaving(conn'[c].toAgent, s)
         \/ RecvClose(c) /\ Head(conn[c].toAgent).for = s
         \/ ~Claimed(shell[s].ch) /\ UNCHANGED pty /\ conn'[c].toAgent = conn[c].toAgent
<1>1. CASE shell[s].listed
  BY <1>1, Unlisted
<1>2. CASE Leaving(conn[c].toAgent, s)
  <2>1. ~RecvKill(c)
    BY RecvKillFields DEF Base
  <2> QED BY <1>2, <2>1, LeavingOn
<1> QED BY <1>1, <1>2

LEMMA WantedStep ==
  ASSUME Base, Counting, Tended, Orderly, LastWord, Wanted, [Next]_vars, Unraced(Orphaning)'
  PROVE  Wanted'
<1> SUFFICES ASSUME NEW c \in Conns, conn'[c].agent = "open", conn'[c].gateway = "open"
             PROVE  /\ \A p \in Ptys : Busy(p)' => shell'[pty'[p].bound].listed \/ Leaving(conn'[c].toAgent, pty'[p].bound)
                    /\ \A f \in In(conn'[c].toAgent) : f.t = "open" => shell'[f.for].listed \/ Leaving(conn'[c].toAgent, f.for)
                    /\ InTurn(conn'[c].toAgent)
  BY Zenon DEF Wanted
<1> DEFINE q == conn[c].toAgent
<1>0. q \in Seq(Frames) /\ Unraced(Drops)' /\ "closeWhileSpawning" \notin raced'
  <2>1. q \in Seq(Frames)
    BY TypesOf DEF Base, Typed, ConnTable, Connection
  <2> QED BY <2>1 DEF Unraced, Orphaning, Drops
<1>1. tunnel = c /\ tunnel' = c /\ c # 0
  BY StaysOpen
<1>2. CASE Connected(c) /\ conn[c].agent = "dialing"
  <2>1. pty' = pty
    BY <1>2, Zenon DEF Connected
  <2>2. conn'[c].toAgent = q
    BY <1>2, ConnectedFields DEF Base
  <2>3. Greeting(c)
    BY <1>2 DEF Greeting
  <2>4. \A p \in Ptys : ~Busy(p)'
    BY <1>1, <2>1, <2>3 DEF Tended, Busy
  <2>5. \A f \in In(q) : f.t # "open"
    <3> SUFFICES ASSUME NEW f \in In(q), f.t = "open"
                 PROVE  FALSE
      OBVIOUS
    <3>1. f.ch \in ChannelIds
      BY DEF Base, Addressed, ForAgent, About, Numbered
    <3> QED BY <1>1, <2>3, <3>1 DEF Orderly, Opening
  <2>6. InTurn(q)
    BY <2>5 DEF InTurn, In
  <2> QED BY <2>2, <2>4, <2>5, <2>6
<1>3. CASE /\ conn[c].agent = "open" /\ conn[c].gateway = "open"
           /\ conn'[c].device = conn[c].device /\ conn[c].device \in Conns
           /\ device[conn[c].device].socket = c
  <2>1. /\ \A p \in Ptys : Busy(p) => shell[pty[p].bound].listed \/ Leaving(q, pty[p].bound)
        /\ \A f \in In(q) : f.t = "open" => shell[f.for].listed \/ Leaving(q, f.for)
        /\ InTurn(q)
    BY <1>3 DEF Wanted
  <2>2. ASSUME NEW s \in Shells, shell[s].device = conn[c].device, shell[s].listed \/ Leaving(q, s),
               Claimed(shell[s].ch), ~RecvClose(c) \/ Head(q).for # s
        PROVE  shell'[s].listed \/ Leaving(conn'[c].toAgent, s)
    BY <1>1, <1>3, <2>2, WantedOn
  <2>3. ASSUME NEW f \in In(q), f.t = "open"
        PROVE  /\ f.for \in Shells /\ shell[f.for].device = conn[c].device /\ Claimed(shell[f.for].ch)
               /\ shell[f.for].listed \/ Leaving(q, f.for)
    <3>1. About(f, c)
      BY <2>3 DEF Base, Addressed, ForAgent
    <3> QED BY <1>1, <2>1, <2>3, <3>1 DEF About, Claimed, Opening
  <2>4. ASSUME RecvClose(c)
        PROVE  /\ q # <<>> /\ Head(q).t = "close" /\ conn'[c].toAgent = Tail(q) /\ Head(q).ch \in ChannelIds
               /\ Head(q).for \in Shells /\ shell[Head(q).for].ch = Head(q).ch
    <3>1. q # <<>> /\ Head(q).t = "close" /\ conn'[c].toAgent = Tail(q)
      BY <2>4, RecvCloseFields DEF Base
    <3>2. About(Head(q), c) /\ Head(q).ch \in ChannelIds
      BY <3>1, OpenIsNumbered DEF Base
    <3> QED BY <3>1, <3>2 DEF About
  <2>5. ASSUME NEW p \in Ptys, Busy(p)'
        PROVE  shell'[pty'[p].bound].listed \/ Leaving(conn'[c].toAgent, pty'[p].bound)
    <3>1. StaysBusy(p) \/ TurnsBusy(p)
      BY <1>0, <2>5, CountingStep DEF CountsOn
    <3>2. ASSUME StaysBusy(p)
          PROVE  shell'[pty'[p].bound].listed \/ Leaving(conn'[c].toAgent, pty'[p].bound)
      <4> DEFINE s == pty[p].bound
      <4>1. Busy(p) /\ pty'[p].bound = s /\ pty[p].state \in {"spawning", "alive"}
        BY <3>2 DEF StaysBusy, Busy
      <4>2. s \in Shells /\ shell[s].ch = pty[p].ch
        BY <4>1 DEF Base, Served
      <4>3. shell[s].device = conn[c].device
        BY <1>1, <4>1 DEF Tended
      <4>4. Claimed(shell[s].ch)
        BY <4>1, <4>2 DEF Claimed
      <4>5. ~RecvClose(c) \/ Head(q).for # s
        <5> SUFFICES ASSUME RecvClose(c), Head(q).for = s
                     PROVE  FALSE
          OBVIOUS
        <5>1. Head(q).ch = pty[p].ch /\ Head(q).ch \in ChannelIds
          BY <2>4, <4>2
        <5>2. CASE pty[p].state = "spawning"
          <6>1. Spawning(Head(q).ch)
            BY <5>1, <5>2 DEF Spawning
          <6>2. raced' = raced \cup Mark("closeWhileSpawning", Spawning(Head(q).ch))
            BY RecvCloseEffect DEF Base
          <6> QED BY <1>0, <6>1, <6>2 DEF Mark
        <5>3. CASE pty[p].state = "alive"
          <6>1. p = channels[Head(q).ch]
            BY <5>1, <5>3 DEF Counting
          <6>2. pty'[p].state = (IF pty[p].state = "alive" THEN "killed" ELSE pty[p].state)
            BY <6>1, RecvCloseEffect DEF Base
          <6> QED BY <2>5, <5>3, <6>2 DEF Busy
        <5> QED BY <4>1, <5>2, <5>3
      <4>6. shell[s].listed \/ Leaving(q, s)
        BY <2>1, <4>1
      <4> HIDE DEF s
      <4>7. shell'[s].listed \/ Leaving(conn'[c].toAgent, s)
        BY <2>2, <4>2, <4>3, <4>4, <4>5, <4>6
      <4> QED BY <4>1, <4>7
    <3>3. ASSUME TurnsBusy(p)
          PROVE  shell'[pty'[p].bound].listed \/ Leaving(conn'[c].toAgent, pty'[p].bound)
      <4>1. q # <<>> /\ Head(q).t = "open" /\ pty'[p].bound = Head(q).for
        BY <1>1, <3>3 DEF TurnsBusy, Reaches
      <4>2. Head(q) \in In(q)
        BY <1>0, <4>1, InTail
      <4>3. ~RecvClose(c)
        BY <2>4, <4>1
      <4> QED BY <2>2, <2>3, <4>1, <4>2, <4>3
    <3> QED BY <3>1, <3>2, <3>3
  <2>6. ASSUME NEW f \in In(conn'[c].toAgent), f.t = "open"
        PROVE  shell'[f.for].listed \/ Leaving(conn'[c].toAgent, f.for)
    <3>1. f \in In(q) \/ AddedToAgent(f, c)
      BY FramesToAgent DEF Base, NewToAgent
    <3>2. CASE AddedToAgent(f, c)
      BY <2>6, <3>2 DEF AddedToAgent
    <3>3. CASE f \in In(q)
      <4>1. ~RecvClose(c) \/ Head(q).for # f.for
        <5> SUFFICES ASSUME RecvClose(c), Head(q).for = f.for
                     PROVE  FALSE
          OBVIOUS
        <5>1. f \in In(Tail(q)) /\ Tail(q) \in Seq(Frames)
          BY <1>0, <2>4, <2>6, InTail
        <5>2. PICK i \in DOMAIN Tail(q) : Tail(q)[i] = f
          BY <5>1 DEF In
        <5>3. i + 1 \in DOMAIN q /\ q[i + 1] = f /\ i \in Nat /\ i >= 1
          BY <1>0, <2>4, <5>1, <5>2, InTail, LenProperties
        <5>4. 1 \in DOMAIN q /\ q[1] = Head(q)
          BY <1>0, <2>4, EmptySeq
        <5> QED BY <2>1, <2>4, <2>6, <5>3, <5>4 DEF InTurn
      <4> QED BY <2>2, <2>3, <2>6, <3>3, <4>1
    <3> QED BY <3>1, <3>2, <3>3
  <2>7. InTurn(conn'[c].toAgent)
    BY <2>1, InTurnStep
  <2> QED BY <2>5, <2>6, <2>7
<1> QED BY <1>2, <1>3, StaysOpen

\* A process the agent has is, once both ends have heard all there is to hear, a
\* terminal the gateway lists, under its id, or on a countdown to its end:
\* unless a dial failed meanwhile, a process was being spawned when its
\* connection went or it was closed, an opening was given up on, or an exit or a
\* frame came late (channels.ts close, registry.ts openShell, channels.ts openShell).
THEOREM NoOrphanHolds == Spec => []NoOrphan
<1> DEFINE Inv == Base /\ Known /\ Exact /\ (Unraced(Orphaning) => Wanted)
<1>0. Unraced(Orphaning) => Unraced(Drops)
  BY DEF Unraced, Orphaning
<1>1. Init => Inv
  <2>1. Init => Wanted
    BY DEF Init, Wanted, Unused
  <2> QED BY <2>1, BaseAtStart, CountedAtStart, KnownAtStart, ExactAtStart DEF Known, Exact
<1>2. Inv /\ [Next]_vars => Inv'
  <2> SUFFICES ASSUME Inv, [Next]_vars
               PROVE  Inv'
    OBVIOUS
  <2>1. Base' /\ Known' /\ Exact'
    BY BaseStep, KnownStep, ExactStep
  <2>2. Unraced(Orphaning)' => Wanted'
    <3> SUFFICES ASSUME Unraced(Orphaning)'
                 PROVE  Wanted'
      OBVIOUS
    <3>1. Unraced(Orphaning)
      BY RacedGrows
    <3> QED BY <1>0, <3>1, WantedStep DEF Known, Exact
  <2> QED BY <2>1, <2>2
<1>3. Inv => NoOrphan
  <2> SUFFICES ASSUME Inv
               PROVE  NoOrphan
    OBVIOUS
  <2>1. ASSUME Unraced(Orphaning), NEW c \in Conns, Settled(c), NEW p \in Alive, ~CountedDown(p)
        PROVE  channels[pty[p].ch] = p /\ \E s \in Listed(conn[c].device) : shell[s].ch = pty[p].ch
    <3>1. /\ conn[c].agent = "open" /\ conn[c].gateway = "open" /\ conn[c].toAgent = <<>>
          /\ p \in Ptys /\ pty[p].state = "alive" /\ ~pty[p].timer
      BY <2>1 DEF Settled, Alive, CountedDown
    <3>2. Counting /\ Tended /\ Wanted
      BY <1>0, <2>1 DEF Known
    <3>3. channels[pty[p].ch] = p /\ Busy(p)
      BY <3>1, <3>2 DEF Counting, Busy
    <3>4. tunnel = c
      BY <3>1 DEF Base, Wired, Ends
    <3>5. /\ pty[p].bound \in Shells /\ shell[pty[p].bound].ch = pty[p].ch
          /\ shell[pty[p].bound].device = conn[c].device
      BY <3>1, <3>2, <3>3, <3>4 DEF Base, Served, Tended
    <3>6. shell[pty[p].bound].listed
      BY <3>1, <3>2, <3>3, InEmpty DEF Wanted, Leaving
    <3> QED BY <3>3, <3>5, <3>6 DEF Listed
  <2>2. HeldOnCountdown
    BY HeldWhileAway DEF Known, Counted
  <2> QED BY <2>1, <2>2 DEF NoOrphan, Orphaning, Drops
<1> QED BY <1>1, <1>2, <1>3, PTL DEF Spec

-----------------------------------------------------------------------------
(* What an open terminal hears.                                              *)

Hearing == Drops \cup {"kill", "sameTick"}

\* The gateway is still to read, from q, that id ch is open.
Answered(q, ch) == \E f \in In(q) : f.t = "opened" /\ f.ch = ch
\* It reads that it is before it reads that it is over.
Behind(q, ch) ==
  \A i \in DOMAIN q : q[i].t = "exit" /\ q[i].ch = ch =>
    \E j \in DOMAIN q : j < i /\ q[j].t = "opened" /\ q[j].ch = ch

\* A terminal that is not over is listed; one that waits for its answer does so
\* over a connection.
Present ==
  \A s \in Shells :
    /\ shell[s].state \in {"opening", "open"} => shell[s].listed
    /\ shell[s].state = "opening" => device[shell[s].device].socket # 0
\* The agent has not been asked to close its end.
Willing == \A c \in Conns : conn[c].agent # "closing"
\* Once its process is there, the answer is on its way,
Awaited ==
  \A p \in Ptys :
    /\ pty[p].state = "alive" /\ pty[p].attached
    /\ shell[pty[p].bound].state = "opening" /\ device[shell[pty[p].bound].device].socket = tunnel
    => Answered(conn[tunnel].toGateway, pty[p].ch)
\* and no exit overtakes it.
InSequence ==
  \A s \in Shells, c \in Conns :
    shell[s].state = "opening" /\ device[shell[s].device].socket = c => Behind(conn[c].toGateway, shell[s].ch)

Heard == Present /\ Willing /\ Awaited /\ InSequence

LEMMA BehindOf ==
  ASSUME NEW q \in Seq(Frames), NEW ch, Behind(q, ch)
  PROVE  /\ \A f \in Frames : f.t # "exit" \/ f.ch # ch \/ Answered(q, ch) => Behind(Append(q, f), ch)
         /\ q # <<>> /\ (Head(q).t # "opened" \/ Head(q).ch # ch) => Behind(Tail(q), ch)
<1>1. ASSUME NEW f \in Frames, f.t # "exit" \/ f.ch # ch \/ Answered(q, ch)
      PROVE  Behind(Append(q, f), ch)
  <2> DEFINE r == Append(q, f)
             n == Len(q)
  <2>1. /\ DOMAIN r = 1 .. (n + 1) /\ n \in Nat /\ DOMAIN q = 1 .. n
        /\ \A i \in DOMAIN q : r[i] = q[i]
        /\ r[n + 1] = f
    BY InAppend
  <2> HIDE DEF r, n
  <2> SUFFICES ASSUME NEW i \in DOMAIN r, r[i].t = "exit", r[i].ch = ch
               PROVE  \E j \in DOMAIN r : j < i /\ r[j].t = "opened" /\ r[j].ch = ch
    BY DEF Behind, r
  <2>2. CASE i \in DOMAIN q
    <3>1. PICK j \in DOMAIN q : j < i /\ q[j].t = "opened" /\ q[j].ch = ch
      BY <2>1, <2>2 DEF Behind
    <3>2. j \in DOMAIN r /\ r[j] = q[j]
      BY <2>1, <3>1
    <3> QED BY <3>1, <3>2
  <2>3. CASE i = n + 1
    <3>1. PICK g \in In(q) : g.t = "opened" /\ g.ch = ch
      BY <1>1, <2>1, <2>3 DEF Answered
    <3>2. PICK j \in DOMAIN q : q[j] = g
      BY DEF In
    <3>3. j \in DOMAIN r /\ r[j] = q[j] /\ j < i
      BY <2>1, <2>3, <3>2
    <3> QED BY <3>1, <3>2, <3>3
  <2> QED BY <2>1, <2>2, <2>3
<1>2. ASSUME q # <<>>, Head(q).t # "opened" \/ Head(q).ch # ch
      PROVE  Behind(Tail(q), ch)
  <2> DEFINE r == Tail(q)
  <2>1. /\ \A i \in DOMAIN r : i + 1 \in DOMAIN q /\ r[i] = q[i + 1]
        /\ \A i \in DOMAIN q : i # 1 => i - 1 \in DOMAIN r /\ r[i - 1] = q[i]
        /\ r \in Seq(Frames)
    BY <1>2, InTail
  <2>2. q[1] = Head(q) /\ (\A i \in DOMAIN q : i \in Int) /\ \A i \in DOMAIN r : i \in Int
    BY <1>2, <2>1, EmptySeq, LenProperties
  <2> HIDE DEF r
  <2> SUFFICES ASSUME NEW i \in DOMAIN r, r[i].t = "exit", r[i].ch = ch
               PROVE  \E j \in DOMAIN r : j < i /\ r[j].t = "opened" /\ r[j].ch = ch
    BY DEF Behind, r
  <2>3. PICK j \in DOMAIN q : j < i + 1 /\ q[j].t = "opened" /\ q[j].ch = ch
    BY <2>1 DEF Behind
  <2>4. j # 1
    BY <1>2, <2>2, <2>3
  <2>5. j - 1 \in DOMAIN r /\ r[j - 1] = q[j] /\ j - 1 < i
    BY <2>1, <2>2, <2>3, <2>4
  <2> QED BY <2>3, <2>5
<1> QED BY <1>1, <1>2

\* A terminal that is not over after a step was not before it, and is listed.
LEMMA WasPresent ==
  ASSUME Base, Present, InSequence, [Next]_vars, Unraced(Hearing)', NEW s \in Shells,
         shell'[s].state \in {"opening", "open"}, ~OpenShell(s)
  PROVE  /\ shell[s].state \in {"opening", "open"} /\ shell[s].listed /\ shell'[s].listed
         /\ shell'[s].state = "opening" => shell[s].state = "opening"
         /\ shell'[s].device = shell[s].device /\ shell'[s].ch = shell[s].ch
<1> DEFINE Goal == /\ shell[s].state \in {"opening", "open"} /\ shell[s].listed /\ shell'[s].listed
                   /\ shell'[s].state = "opening" => shell[s].state = "opening"
<1>0. "kill" \notin raced' /\ "sameTick" \notin raced' /\ "staleSocket" \notin raced'
  BY DEF Unraced, Hearing, Drops
<1>1. ASSUME shell'[s].state = shell[s].state, shell'[s].listed = shell[s].listed
      PROVE  Goal
  BY <1>1 DEF Present
<1>2. ASSUME IsOpened(s)
      PROVE  Goal
  BY <1>2 DEF IsOpened, Present
<1>3. ~KillDevice
  BY <1>0, KillDeviceEffect DEF Base
<1>4. ASSUME NEW c \in Conns, RecvOpenedAndExit(c)
      PROVE  FALSE
  <2>1. raced' = raced \cup {"sameTick"} \cup Stale(c)
    BY <1>4, RecvOpenedAndExitFields DEF Base
  <2> QED BY <1>0, <2>1
<1>5. ASSUME NEW d \in Conns, GatewayGraceFires(d), shell[s].device = d
      PROVE  FALSE
  <2>1. shell'[s].state = (IF s \in Listed(d) /\ shell[s].state = "open" THEN "over" ELSE shell[s].state)
    BY <1>5, GatewayGraceFiresFields DEF Base
  <2>2. shell[s].state # "opening"
    BY <1>5 DEF GatewayGraceFires, Base, Registered, Present
  <2> QED BY <1>5, <2>1, <2>2 DEF Listed, Present
<1>6. ASSUME NEW c \in Conns, RecvExit(c), shell[s].device = conn[c].device, Head(conn[c].toGateway).ch = shell[s].ch,
             shell'[s].state = (IF shell[s].state = "open" THEN "over" ELSE shell[s].state)
      PROVE  FALSE
  <2> DEFINE q == conn[c].toGateway
  <2>1. shell[s].state = "opening"
    BY <1>6
  <2>2. q # <<>> /\ Head(q).t = "exit" /\ raced' = raced \cup Stale(c)
    BY <1>6, RecvExitFields DEF Base
  <2>3. device[shell[s].device].socket = c
    BY <1>0, <1>6, <2>2 DEF Stale, Mark
  <2>4. Behind(q, shell[s].ch)
    BY <2>1, <2>3 DEF InSequence
  <2>5. q \in Seq(Frames)
    BY TypesOf DEF Base, Typed, ConnTable, Connection
  <2>6. DOMAIN q = 1 .. Len(q) /\ Len(q) \in Nat /\ 1 \in DOMAIN q /\ q[1] = Head(q)
    BY <2>2, <2>5, EmptySeq, LenProperties
  <2> QED BY <1>6, <2>2, <2>4, <2>6 DEF Behind
<1>7. ~Leaves(s)
  BY <1>3, <1>4, <1>5, <1>6, Zenon DEF Leaves
<1>8. Goal
  BY <1>1, <1>2, <1>7, TerminalStep DEF Base
<1>9. shell[s].state # "idle"
  BY <1>8
<1> QED BY <1>8, <1>9, TerminalsKept DEF Base

\* What a step does to the connection a device uses.
LEMMA SocketStep ==
  ASSUME Typed, Wired, [Next]_vars, NEW d \in Conns
  PROVE  \/ device'[d].socket = device[d].socket
         \/ \E c \in Conns : Accept(c) /\ device'[d].socket = c
         \/ GatewayRestarts
         \/ \E c \in Conns : GatewaySeesClose(c) /\ Current(c) /\ conn[c].device = d
<1> DEFINE Same == device'[d].socket = device[d].socket
<1>1. CASE device' = device
  BY <1>1
<1>2. ASSUME NEW c \in Conns, GatewayGraceFires(c)
      PROVE  Same
  BY <1>2, GatewayGraceFiresFields
<1>3. CASE Quiet
  BY <1>2, <1>3, QuietSockets DEF Wired, SameSockets
<1>4. ASSUME NEW c \in Conns, Accept(c)
      PROVE  Same \/ device'[d].socket = c
  BY <1>4, AcceptFields
<1>5. ASSUME NEW c \in Conns, GatewaySeesClose(c)
      PROVE  Same \/ (Current(c) /\ conn[c].device = d)
  <2> DEFINE e == conn[c].device
  <2>1. \A x \in Conns : device'[x].socket = (IF Current(c) /\ x = e THEN 0 ELSE device[x].socket)
    BY <1>5, GatewaySeesCloseFields, ZenonT(60)
  <2> QED BY <2>1
<1>6. ASSUME \/ UNCHANGED vars \/ DialFails \/ AgentRestarts \/ KillDevice
             \/ \E c \in Conns : Dial(c) \/ Connected(c) \/ AgentSeesClose(c) \/ RecvKill(c)
      PROVE  device' = device
  BY <1>6, Zenon DEF vars, DialFails, AgentRestarts, KillDevice, Dial, Connected, AgentSeesClose, RecvKill
<1> QED BY <1>1, <1>3, <1>4, <1>5, <1>6, Zenon DEF Next, Quiet

LEMMA PresentStep ==
  ASSUME Base, Present, InSequence, [Next]_vars, Unraced(Hearing)'
  PROVE  Present'
<1> SUFFICES ASSUME NEW s \in Shells, shell'[s].state \in {"opening", "open"}
             PROVE  /\ shell'[s].listed
                    /\ shell'[s].state = "opening" => device'[shell'[s].device].socket # 0
  BY DEF Present
<1>1. CASE OpenShell(s)
  <2>1. /\ shell'[s].listed /\ shell'[s].device = devices /\ devices \in Conns /\ Online(devices)
        /\ device'[devices].socket = device[devices].socket
    BY <1>1, OpenShellFields DEF Base
  <2> QED BY <2>1 DEF Online
<1>2. CASE ~OpenShell(s)
  <2>1. /\ shell[s].state \in {"opening", "open"} /\ shell'[s].listed
        /\ shell'[s].state = "opening" => shell[s].state = "opening"
        /\ shell'[s].device = shell[s].device
    BY <1>2, WasPresent
  <2> SUFFICES ASSUME shell'[s].state = "opening"
               PROVE  device'[shell[s].device].socket # 0
    BY <2>1
  <2>2. shell[s].state = "opening" /\ device[shell[s].device].socket # 0 /\ shell[s].device \in Conns
    BY <2>1 DEF Present, Base, Typed, Placed
  <2>3. ~GatewayRestarts
    BY <2>2, GatewayRestartsFields DEF Base
  <2>4. ASSUME NEW c \in Conns, GatewaySeesClose(c), Current(c), conn[c].device = shell[s].device
        PROVE  FALSE
    <3>1. s \in {t \in Shells : shell[t].state = "opening" /\ shell[t].device = conn[c].device}
      BY <2>2, <2>4
    <3>2. shell'[s].state = "over"
      BY <2>4, <3>1, GatewaySeesCloseFields DEF Base
    <3> QED BY <3>2
  <2> QED BY <2>2, <2>3, <2>4, SocketStep, ConnNotZero DEF Base
<1> QED BY <1>1, <1>2

\* The agent is asked to close its end only by a disconnect.
LEMMA KillIsRaced ==
  ASSUME Base, NEW c \in Conns, RecvKill(c)
  PROVE  "kill" \in raced
<1>1. conn[c].toAgent # <<>> /\ Head(conn[c].toAgent).t = "kill" /\ conn[c].toAgent \in Seq(Frames)
  BY RecvKillFields, TypesOf DEF Base, Typed, ConnTable, Connection
<1>2. Head(conn[c].toAgent) \in In(conn[c].toAgent)
  BY <1>1, InTail
<1> QED BY <1>1, <1>2 DEF Base, Addressed, ForAgent

LEMMA WillingStep ==
  ASSUME Base, Willing, [Next]_vars, Unraced(Hearing)'
  PROVE  Willing'
<1> SUFFICES ASSUME NEW c \in Conns, conn'[c].agent = "closing"
             PROVE  FALSE
  BY DEF Willing
<1>1. RecvKill(c)
  BY AgentEndStep DEF Base, AgentEndChange, Willing
<1> QED BY <1>1, KillIsRaced, RacedGrows DEF Unraced, Hearing

\* A process is attached once it is spawned, or once it is resumed.
LEMMA AttachedBy ==
  ASSUME Base, Counting, [Next]_vars, Unraced(Drops)', NEW p \in Ptys, pty'[p].state = "alive", pty'[p].attached
  PROVE  \/ /\ pty[p].state = "alive" /\ pty[p].attached
            /\ pty'[p].ch = pty[p].ch /\ pty'[p].bound = pty[p].bound
         \/ Spawned(p)
         \/ \E c \in Conns : RecvOpenHeld(c) /\ p = channels[Head(conn[c].toAgent).ch] /\ ~pty[p].attached
<1> DEFINE Kept == /\ pty[p].state = "alive" /\ pty[p].attached
                   /\ pty'[p].ch = pty[p].ch /\ pty'[p].bound = pty[p].bound
           Resumed == \E c \in Conns : RecvOpenHeld(c) /\ p = channels[Head(conn[c].toAgent).ch] /\ ~pty[p].attached
           Goal == Kept \/ Spawned(p) \/ Resumed
<1>0. FreePty.state = "free"
  BY DEF FreePty
<1>1. ASSUME UNCHANGED <<channels, pty>>
      PROVE  Goal
  BY <1>1
<1>2. ASSUME NEW R, Disconnected(R)
      PROVE  Goal
  BY <1>2, DisconnectedFields DEF Base
<1>3. ASSUME DialFails
      PROVE  Goal
  BY <1>2, <1>3, Zenon DEF DialFails
<1>4. ASSUME AgentRestarts
      PROVE  Goal
  <2>1. pty'[p] = FreePty
    BY <1>4, Zenon DEF AgentRestarts
  <2> QED BY <1>0, <2>1
<1>5. ASSUME NEW c \in Conns, AgentSeesClose(c)
      PROVE  Goal
  <2>1. PICK R : Disconnected(R)
    BY <1>5, Zenon DEF AgentSeesClose
  <2> QED BY <1>2, <2>1
<1>6. ASSUME NEW c \in Conns, RecvOpenHeld(c)
      PROVE  Goal
  <2> DEFINE q == channels[Head(conn[c].toAgent).ch]
  <2>1. /\ pty'[p].state = pty[p].state
        /\ \/ p = q /\ ~pty[q].attached
           \/ pty'[p].attached = pty[p].attached /\ pty'[p].bound = pty[p].bound /\ pty'[p].ch = pty[p].ch
    BY <1>6, RecvOpenHeldFields DEF Base
  <2> QED BY <1>6, <2>1
<1>7. ASSUME NEW c \in Conns, RecvClose(c)
      PROVE  Goal
  <2>1. \A x \in Ptys :
          /\ x # channels[Head(conn[c].toAgent).ch] => pty'[x] = pty[x]
          /\ x = channels[Head(conn[c].toAgent).ch] =>
               /\ pty'[x].state = (IF pty[x].state = "alive" THEN "killed" ELSE pty[x].state)
               /\ pty'[x].ch = pty[x].ch /\ pty'[x].attached = pty[x].attached
               /\ pty'[x].timer = FALSE /\ pty'[x].stray = pty[x].stray
               /\ pty'[x].owner = pty[x].owner /\ pty'[x].bound = pty[x].bound
    BY <1>7, RecvCloseEffect, Zenon DEF Base
  <2> QED BY <2>1
<1>8. ASSUME NEW c \in Conns, RecvKill(c)
      PROVE  Goal
  <2>1. \A x \in Ptys :
          /\ x \notin Held => pty'[x] = pty[x]
          /\ x \in Held =>
               /\ pty'[x].state = (IF pty[x].state = "alive" THEN "killed" ELSE pty[x].state)
               /\ pty'[x].ch = pty[x].ch /\ pty'[x].attached = pty[x].attached
               /\ pty'[x].timer = FALSE /\ pty'[x].stray = pty[x].stray
               /\ pty'[x].owner = pty[x].owner /\ pty'[x].bound = pty[x].bound
    BY <1>8, RecvKillEffect, Zenon DEF Base
  <2> QED BY <2>1
<1>9. ASSUME NEW c \in Conns, NEW q \in Ptys, RecvOpenNew(c, q)
      PROVE  Goal
  <2>1. \A x \in Ptys :
          /\ pty'[x].state = (IF x = q THEN "spawning" ELSE pty[x].state)
          /\ pty'[x].ch = (IF x = q THEN Head(conn[c].toAgent).ch ELSE pty[x].ch)
          /\ pty'[x].attached = (IF x = q THEN FALSE ELSE pty[x].attached)
          /\ pty'[x].timer = (IF x = q THEN FALSE ELSE pty[x].timer)
          /\ pty'[x].stray = (IF x = q THEN 0 ELSE pty[x].stray)
          /\ pty'[x].owner = (IF x = q THEN Head(conn[c].toAgent).for ELSE pty[x].owner)
          /\ pty'[x].bound = (IF x = q THEN Head(conn[c].toAgent).for ELSE pty[x].bound)
    BY <1>9, RecvOpenNewFields, Zenon DEF Base
  <2> QED BY <2>1
<1>10. ASSUME NEW q \in Ptys, Spawned(q)
       PROVE  Goal
  <2>1. /\ p # q => pty'[p].state = pty[p].state
        /\ p # q => pty'[p].attached = pty[p].attached
        /\ pty'[p].ch = pty[p].ch /\ pty'[p].bound = pty[p].bound
    BY <1>10, SpawnedFields, ZenonT(60) DEF Base
  <2> QED BY <1>10, <2>1
<1>11. ASSUME NEW q \in Ptys, SpawnFails(q)
       PROVE  Goal
  BY <1>11, SpawnFailsFields DEF Base
<1>12. ASSUME NEW q \in Ptys, PtyExits(q)
       PROVE  Goal
  <2>1. \A x \in Ptys :
          \/ pty'[x] = FreePty /\ (x = q \/ pty[x].state = "dead")
          \/ /\ pty'[x].state = (IF x = q THEN "dead" ELSE pty[x].state)
             /\ pty'[x].ch = pty[x].ch /\ pty'[x].attached = pty[x].attached
             /\ pty'[x].timer = (pty[x].timer /\ x # channels[pty[q].ch])
             /\ pty'[x].stray = pty[x].stray
             /\ pty'[x].owner = pty[x].owner /\ pty'[x].bound = pty[x].bound
    BY <1>12, PtyExitsEffect, Zenon DEF Base
  <2> QED BY <1>0, <2>1
<1>13. ASSUME NEW q \in Ptys, AgentGraceFires(q)
       PROVE  Goal
  <2>1. \/ pty'[p] = FreePty
        \/ /\ pty'[p].state = (IF p = q /\ pty[p].state = "alive" THEN "killed" ELSE pty[p].state)
           /\ pty'[p].ch = pty[p].ch /\ pty'[p].attached = pty[p].attached /\ pty'[p].bound = pty[p].bound
    BY <1>13, AgentGraceFiresEffect, ZenonT(60) DEF Base
  <2> QED BY <1>0, <2>1
<1> HIDE DEF Kept, Resumed
<1>14. Goal
  BY <1>1, <1>3, <1>4, <1>5, <1>6, <1>7, <1>8, <1>9, <1>10, <1>11, <1>12, <1>13, HandlesOrRests, Zenon DEF Handles
<1> QED BY <1>14 DEF Kept, Resumed

LEMMA AwaitedStep ==
  ASSUME Base, Counting, Tended, Orderly, Present, Willing, Awaited, InSequence, [Next]_vars, Unraced(Hearing)'
  PROVE  Awaited'
<1> SUFFICES ASSUME NEW p \in Ptys, pty'[p].state = "alive", pty'[p].attached,
                    shell'[pty'[p].bound].state = "opening",
                    device'[shell'[pty'[p].bound].device].socket = tunnel'
             PROVE  Answered(conn'[tunnel'].toGateway, pty'[p].ch)
  BY DEF Awaited
<1>0. Unraced(Drops)' /\ "sameTick" \notin raced' /\ Base'
  BY BaseStep DEF Unraced, Hearing
<1>1. Busy(p)'
  BY DEF Busy
<1>2. PICK c \in Conns : c = tunnel /\ tunnel' = c /\ ~Greeting(c)'
  <2>1. tunnel' = tunnel
    BY <1>0, <1>1, CountingStep DEF CountsOn
  <2>2. tunnel' # 0 /\ ~Greeting(tunnel)'
    BY <1>0, <1>1, TendedStep DEF Tended
  <2>3. tunnel \in Conns \cup {0}
    BY TypesOf DEF Base, Typed
  <2> QED BY <2>1, <2>2, <2>3 DEF Greeting
<1>3. PICK s \in Shells : s = pty'[p].bound /\ shell'[s].state # "idle" /\ shell'[s].ch = pty'[p].ch
  BY <1>0 DEF Base, Served
<1>4. PICK d \in Conns : d = shell'[s].device /\ device'[d].socket = c
  BY <1>0, <1>2, <1>3 DEF Base, Typed, Placed
<1>5. conn'[c].agent = "open" /\ conn'[c].gateway \in {"open", "closing"}
  <2>1. conn'[c].agent \in {"dialing", "open", "closing"}
    BY <1>0, <1>2 DEF Base, Wired, Ends
  <2>2. conn'[c].agent # "closing"
    BY WillingStep DEF Willing
  <2>3. conn'[c].gateway \in {"open", "closing"}
    BY <1>0, <1>4, ConnNotZero DEF Base, Wired, Sockets
  <2> QED BY <1>2, <2>1, <2>2, <2>3 DEF Greeting
<1>6. conn[c].toGateway \in Seq(Frames)
  BY TypesOf DEF Base, Typed, ConnTable, Connection
<1>7. ASSUME NEW g \in Frames, g.t = "opened", g.ch = pty'[p].ch,
             conn'[c].toGateway = Append(conn[c].toGateway, g)
      PROVE  Answered(conn'[c].toGateway, pty'[p].ch)
  BY <1>6, <1>7, InAppend DEF Answered
<1>8. CASE Spawned(p)
  <2> DEFINE g == Frame("opened", pty[p].ch, pty[p].owner)
  <2>1. g \in Frames /\ g.t = "opened" /\ g.ch = pty[p].ch /\ pty'[p].ch = pty[p].ch
    BY <1>8, SpawnedFields DEF Base
  <2>2. /\ conn'[c].agent = conn[c].agent /\ conn'[c].gateway = conn[c].gateway
        /\ conn'[c].toGateway = (IF c = tunnel /\ conn[c].agent = "open" /\ conn[c].gateway # "closed"
                                 THEN Append(conn[c].toGateway, g) ELSE conn[c].toGateway)
    BY <1>8, SpawnedFields, ZenonT(60) DEF Base
  <2> HIDE DEF g
  <2> QED BY <1>2, <1>5, <1>7, <2>1, <2>2
<1>9. ASSUME NEW x \in Conns, RecvOpenHeld(x), p = channels[Head(conn[x].toAgent).ch], ~pty[p].attached
      PROVE  Answered(conn'[c].toGateway, pty'[p].ch)
  <2> DEFINE f == Head(conn[x].toAgent)
             g == Frame(IF pty[channels[f.ch]].attached THEN "error" ELSE "opened", f.ch, f.for)
  <2>1. g \in Frames /\ g.t = "opened" /\ g.ch = f.ch
    BY <1>9, RecvOpenHeldEffect DEF Base
  <2>2. /\ conn'[c].agent = conn[c].agent /\ conn'[c].gateway = conn[c].gateway
        /\ conn'[c].toGateway = (IF c = tunnel /\ conn[c].agent = "open" /\ conn[c].gateway # "closed"
                                 THEN Append(conn[c].toGateway, g) ELSE conn[c].toGateway)
    BY <1>9, RecvOpenHeldEffect, ZenonT(60) DEF Base
  <2>3. f.ch \in ChannelIds
    BY <1>9, OpenFindsNoneBusy DEF RecvOpenHeld
  <2>4. pty[p].ch = f.ch /\ pty'[p].ch = pty[p].ch
    BY <1>9, <2>3, HeldIsAlive, RecvOpenHeldFields, NoValueAssumption DEF Base
  <2> HIDE DEF g, f
  <2> QED BY <1>2, <1>5, <1>7, <2>1, <2>2, <2>4
<1>10. ASSUME pty[p].state = "alive", pty[p].attached, pty'[p].ch = pty[p].ch, pty'[p].bound = pty[p].bound
       PROVE  Answered(conn'[c].toGateway, pty'[p].ch)
  <2>1. shell[s].state # "idle" /\ shell[s].ch = pty[p].ch
    BY <1>3, <1>10 DEF Base, Served
  <2>2. shell[s].state = "opening" /\ shell[s].listed /\ shell[s].device = d
    <3>1. ~OpenShell(s)
      BY <2>1 DEF OpenShell
    <3> QED BY <1>3, <1>4, <3>1, WasPresent
  <2>3. device[d].socket = c
    <3>1. ~Accept(c)
      <4> SUFFICES ASSUME Accept(c)
                   PROVE  FALSE
        OBVIOUS
      <4>1. conn[c].agent = "dialing" /\ conn'[c].agent = conn[c].agent
        BY AcceptFields DEF Accept, Base
      <4> QED BY <1>5, <4>1
    <3>2. ~GatewayRestarts
      BY <1>4, GatewayRestartsFields, ConnNotZero DEF Base
    <3>3. ASSUME NEW x \in Conns, GatewaySeesClose(x), Current(x), conn[x].device = d
          PROVE  FALSE
      <4>1. device'[d].socket = 0
        BY <3>3, GatewaySeesCloseFields DEF Base
      <4> QED BY <1>4, <4>1, ConnNotZero
    <3> QED BY <1>4, <3>1, <3>2, <3>3, SocketStep DEF Base
  <2>4. conn[c].device = d
    BY <2>3, ConnNotZero DEF Base, Wired, Sockets
  <2>5. PICK g \in In(conn[c].toGateway) : g.t = "opened" /\ g.ch = pty[p].ch
    BY <1>2, <1>3, <1>10, <2>2, <2>3 DEF Awaited, Answered
  <2>6. ASSUME conn[c].toGateway # <<>>, conn'[c].toGateway = Tail(conn[c].toGateway),
               Head(conn[c].toGateway).t # "opened" \/ Head(conn[c].toGateway).ch # pty[p].ch
        PROVE  Answered(conn'[c].toGateway, pty'[p].ch)
    BY <1>6, <1>10, <2>5, <2>6, InTail DEF Answered
  <2>7. ~RecvHello(c)
    BY <1>2, <1>10, Greeted DEF Tended, Busy
  <2>8. CASE RecvOpened(c)
    <3>1. /\ conn[c].toGateway # <<>> /\ conn'[c].toGateway = Tail(conn[c].toGateway)
          /\ s \in PendingOf(d, Head(conn[c].toGateway).ch) => shell'[s].state = "open"
      BY <2>4, <2>8, RecvOpenedFields DEF Base
    <3>2. Head(conn[c].toGateway).ch # pty[p].ch
      BY <1>3, <2>1, <2>2, <3>1 DEF PendingOf
    <3> QED BY <2>6, <3>1, <3>2
  <2>9. ~RecvOpenedAndExit(c)
    BY <1>0, RecvOpenedAndExitFields DEF Base
  <2>10. CASE RecvError(c) \/ RecvExit(c)
    <3>1. /\ conn[c].toGateway # <<>> /\ conn'[c].toGateway = Tail(conn[c].toGateway)
          /\ Head(conn[c].toGateway).t # "opened"
      BY <2>10, RecvErrorFields, RecvExitFields DEF Base
    <3> QED BY <2>6, <3>1
  <2>11. CASE In(conn[c].toGateway) \subseteq In(conn'[c].toGateway)
    BY <1>10, <2>5, <2>11 DEF Answered
  <2> QED BY <1>5, <2>7, <2>8, <2>9, <2>10, <2>11, GatewayReads DEF Base, Reads
<1> QED BY <1>0, <1>2, <1>8, <1>9, <1>10, AttachedBy

LEMMA InSequenceStep ==
  ASSUME Base, Counting, Tended, Orderly, Answerable, Spent, Present, Awaited, InSequence, [Next]_vars,
         Unraced(Hearing)'
  PROVE  InSequence'
<1> SUFFICES ASSUME NEW s \in Shells, NEW c \in Conns, shell'[s].state = "opening",
                    device'[shell'[s].device].socket = c
             PROVE  Behind(conn'[c].toGateway, shell'[s].ch)
  BY DEF InSequence
<1>0. Unraced(Drops)' /\ "sameTick" \notin raced' /\ Base'
  BY BaseStep DEF Unraced, Hearing
<1> DEFINE q == conn[c].toGateway
<1>1. q \in Seq(Frames)
  BY TypesOf DEF Base, Typed, ConnTable, Connection
<1>2. PICK d \in Conns : d = shell'[s].device /\ device'[d].socket = c
  BY <1>0 DEF Base, Typed, Placed
<1>3. \A ch : Behind(<<>>, ch)
  BY DEF Behind
<1>4. CASE OpenShell(s)
  <2>1. /\ d = devices /\ device[d].socket = c /\ shell'[s].ch = device[devices].next
        /\ conn'[c].toGateway = q
    BY <1>2, <1>4, OpenShellFields DEF Base
  <2>2. conn[c].device = d
    BY <2>1, ConnNotZero DEF Base, Wired, Sockets
  <2> SUFFICES ASSUME NEW i \in DOMAIN q, q[i].t = "exit", q[i].ch = device[devices].next
               PROVE  FALSE
    BY <2>1 DEF Behind
  <2>3. PICK t \in Shells : shell[t].state # "idle" /\ shell[t].ch = q[i].ch /\ shell[t].device = d
    BY <2>2 DEF Answerable, In
  <2>4. shell[t].ch < device[devices].next /\ shell[t].ch \in ChannelIds
    BY <2>1, <2>3 DEF Base, Numbered
  <2> QED BY <2>3, <2>4, CardType DEF ChannelIds
<1>5. CASE ~OpenShell(s)
  <2>1. PICK ch : ch = shell[s].ch /\ ch = shell'[s].ch /\ shell[s].state = "opening" /\ shell[s].listed
                  /\ shell[s].device = d
    BY <1>2, <1>5, WasPresent
  <2>2. CASE Accept(c)
    <3>1. q = <<>>
      BY <2>2 DEF Accept, Base, Wired, Ends
    <3>2. conn'[c].toGateway = q
      BY <2>2, AcceptFields DEF Base
    <3> QED BY <1>3, <3>1, <3>2
  <2>3. ~GatewayRestarts
    BY <1>2, GatewayRestartsFields, ConnNotZero DEF Base
  <2>4. ASSUME NEW x \in Conns, GatewaySeesClose(x), Current(x), conn[x].device = d
        PROVE  FALSE
    <3>1. device'[d].socket = 0
      BY <2>4, GatewaySeesCloseFields DEF Base
    <3> QED BY <1>2, <3>1, ConnNotZero
  <2>5. device[d].socket = c \/ Accept(c)
    BY <1>2, <2>3, <2>4, SocketStep DEF Base
  <2> SUFFICES ASSUME device[d].socket = c
               PROVE  Behind(conn'[c].toGateway, ch)
    BY <2>1, <2>2, <2>5
  <2>6. conn[c].device = d
    BY ConnNotZero DEF Base, Wired, Sockets
  <2>7. Behind(q, ch)
    BY <2>1 DEF InSequence
  <2>8. ASSUME q # <<>>, conn'[c].toGateway = Tail(q), Head(q).t # "opened" \/ Head(q).ch # ch
        PROVE  Behind(conn'[c].toGateway, ch)
    BY <1>1, <2>7, <2>8, BehindOf
  <2>9. ASSUME NEW f \in Frames, f.t # "exit" \/ f.ch # ch \/ Answered(q, ch), conn'[c].toGateway = Append(q, f)
        PROVE  Behind(conn'[c].toGateway, ch)
    BY <1>1, <2>7, <2>9, BehindOf
  <2>10. CASE Reads(c)
    <3>1. CASE RecvOpened(c)
      <4>1. /\ q # <<>> /\ conn'[c].toGateway = Tail(q)
            /\ s \in PendingOf(d, Head(q).ch) => shell'[s].state = "open"
        BY <2>6, <3>1, RecvOpenedFields DEF Base
      <4>2. Head(q).ch # ch
        BY <2>1, <4>1 DEF PendingOf
      <4> QED BY <2>8, <4>1, <4>2
    <3>2. CASE RecvHello(c) \/ RecvError(c) \/ RecvExit(c)
      <4>1. q # <<>> /\ Head(q).t \in {"hello", "error", "exit"}
        BY <3>2 DEF RecvHello, RecvError, RecvExit, Arrives
      <4>2. conn'[c].toGateway = Tail(q)
        <5>1. CASE RecvHello(c)
          BY <5>1, RecvHelloEffect DEF Base
        <5>2. CASE RecvError(c)
          BY <5>2, RecvErrorFields DEF Base
        <5>3. CASE RecvExit(c)
          BY <5>3, RecvExitFields DEF Base
        <5> QED BY <3>2, <5>1, <5>2, <5>3
      <4> QED BY <2>8, <4>1, <4>2
    <3>3. RecvOpenedAndExit(c) => raced' = raced \cup {"sameTick"} \cup Stale(c)
      BY RecvOpenedAndExitFields DEF Base
    <3> QED BY <1>0, <2>10, <3>1, <3>2, <3>3 DEF Reads
  <2>11. CASE SentHello(c)
    <3>1. PICK f \in Frames : f.t = "hello" /\ conn'[c].toGateway = Append(q, f)
      BY <2>11 DEF SentHello
    <3> QED BY <2>9, <3>1
  <2>12. CASE SentAnswer(c)
    <3>1. PICK f \in Frames : Answers(f) /\ conn'[c].toGateway = Append(q, f)
      BY <2>12 DEF SentAnswer
    <3>2. c = tunnel
      BY <2>12 DEF SentAnswer
    <3>3. ASSUME f.t = "exit", f.ch = ch
          PROVE  Answered(q, ch)
      <4>1. PICK p \in Ptys : PtyExits(p) /\ pty[p].attached /\ f.ch = pty[p].ch
        BY <3>1, <3>3 DEF Answers, AnswersOpen, AnswersFor
      <4>2. /\ pty[p].bound \in Shells /\ shell[pty[p].bound].state # "idle"
            /\ shell[pty[p].bound].ch = ch /\ shell[pty[p].bound].device = d
        BY <1>0, <2>6, <3>2, <3>3, <4>1, ExitIsAbout, ConnNotZero
      <4>3. pty[p].bound = s
        BY <2>1, <4>2 DEF Base, Numbered
      <4>4. pty[p].state = "alive"
        BY <2>1, <4>1, <4>3 DEF PtyExits, Spent
      <4> QED BY <2>1, <3>2, <3>3, <4>1, <4>3, <4>4 DEF Awaited
    <3> QED BY <2>9, <3>1, <3>3
  <2>13. CASE conn'[c].toGateway = q \/ conn'[c].toGateway = <<>>
    BY <1>3, <2>7, <2>13
  <2> QED BY <2>10, <2>11, <2>12, <2>13, ToGatewayStep DEF Base, ReadByGateway
<1> QED BY <1>4, <1>5

\* The registry says what is there: unless a disconnect of the API has let go of
\* a device still in use, every machine whose connection the gateway uses can be
\* found by its id, and a terminal whose channel has ended was told, unless that
\* end came in one tick with its opening, a dial failed meanwhile, a process was
\* being spawned across a drop, or an exit or a frame came late (registry.ts
\* getOrCreateDevice, detach, expireGrace, emitExit, openShell).
THEOREM RegistryIsTrueHolds == Spec => []RegistryIsTrue
<1> DEFINE Inv == Base /\ Known /\ Exact /\ (Unraced(Hearing) => Heard)
<1>0. Unraced(Hearing) => Unraced(Drops)
  BY DEF Unraced, Hearing
<1>1. Init => Inv
  <2>1. Init => Heard
    BY DEF Init, Heard, Present, Willing, Awaited, InSequence, Unused, UnopenedShell, FreePty
  <2> QED BY <2>1, BaseAtStart, CountedAtStart, KnownAtStart, ExactAtStart DEF Known, Exact
<1>2. Inv /\ [Next]_vars => Inv'
  <2> SUFFICES ASSUME Inv, [Next]_vars
               PROVE  Inv'
    OBVIOUS
  <2>1. Base' /\ Known' /\ Exact'
    BY BaseStep, KnownStep, ExactStep
  <2>2. Unraced(Hearing)' => Heard'
    <3> SUFFICES ASSUME Unraced(Hearing)'
                 PROVE  Heard'
      OBVIOUS
    <3>1. Unraced(Hearing)
      BY RacedGrows
    <3>2. Heard /\ Counting /\ Tended /\ Orderly /\ Answerable /\ Spent
      BY <1>0, <3>1 DEF Known, Exact
    <3> QED BY <3>2, PresentStep, WillingStep, AwaitedStep, InSequenceStep DEF Heard
  <2> QED BY <2>1, <2>2
<1>3. Inv => ExitIsHeard
  BY DEF ExitIsHeard, Heard, Present, Unraced, Hearing, Drops
<1>4. ConnectedIsListed /\ ExitIsHeard => RegistryIsTrue
  BY DEF RegistryIsTrue
<1> QED BY <1>1, <1>2, <1>3, <1>4, ConnectedIsListedHolds, PTL DEF Spec

-----------------------------------------------------------------------------
(* Whom a process serves, while no frame is lost and nobody gives up.        *)

Foreign == Drops \cup {"restart", "expiry", "lostClose", "abandonedOpen", "closeWhileSpawning", "kill"}

\* The agent has a process for terminal s, or is to open one.
Attended(s) ==
  \/ \E p \in Ptys : pty[p].state \in {"spawning", "alive"} /\ pty[p].owner = s
  \/ tunnel # 0 /\ \E f \in In(conn[tunnel].toAgent) : f.t = "open" /\ f.for = s
\* The gateway lists it, or is about to have it closed.
Expected(s) == shell[s].listed \/ (tunnel # 0 /\ Leaving(conn[tunnel].toAgent, s))
\* The agent has a process under id ch, or is to open one.
Living(ch) ==
  \/ \E p \in Ptys : pty[p].state \in {"spawning", "alive"} /\ pty[p].ch = ch
  \/ tunnel # 0 /\ Opening(conn[tunnel].toAgent, ch)

Owned == \A s \in Shells : Attended(s) => Expected(s)
\* There is one device, at both ends.
Sole ==
  /\ \A s \in Shells : shell[s].listed => shell[s].device = devices
  /\ tunnel # 0 /\ conn[tunnel].gateway # "none" => devices \in {0, conn[tunnel].device}
\* What is denied over the connection in use is gone.
Final ==
  \A s \in Shells, c \in Conns :
    shell[s].listed /\ device[shell[s].device].socket = c /\ Denying(conn[c].toGateway, shell[s].ch)
      => ~Living(shell[s].ch)

Homely == NoForeignShell /\ Owned /\ Sole /\ Final

LEMMA UnracedForeign ==
  ASSUME [Next]_vars, Unraced(Foreign)'
  PROVE  /\ Unraced(Drops)' /\ Unraced({"kill"})' /\ Unraced({"kill"}) /\ Unraced(Foreign)
         /\ "restart" \notin raced' /\ "expiry" \notin raced' /\ "lostClose" \notin raced' /\ "kill" \notin raced'
         /\ "abandonedOpen" \notin raced' /\ "closeWhileSpawning" \notin raced' /\ "staleSocket" \notin raced'
         /\ "lateExit" \notin raced'
BY RacedGrows DEF Unraced, Foreign, Drops

\* What a step does to whom a process serves.
LEMMA OwnerStep ==
  ASSUME Typed, [Next]_vars, NEW p \in Ptys
  PROVE  \/ pty'[p].state = "free" /\ pty'[p].bound = pty'[p].owner
         \/ /\ pty'[p].ch = pty[p].ch /\ pty'[p].owner = pty[p].owner
            /\ pty'[p].state \in {"spawning", "alive"} => pty[p].state \in {"spawning", "alive"}
            /\ \/ pty'[p].bound = pty[p].bound
               \/ \E c \in Conns : /\ RecvOpenHeld(c) /\ p = channels[Head(conn[c].toAgent).ch]
                                   /\ pty'[p].bound = Head(conn[c].toAgent).for
         \/ \E c \in Conns : /\ RecvOpenNew(c, p) /\ pty'[p].ch = Head(conn[c].toAgent).ch
                             /\ pty'[p].owner = Head(conn[c].toAgent).for
                             /\ pty'[p].bound = Head(conn[c].toAgent).for
<1> DEFINE Lives == pty'[p].state \in {"spawning", "alive"} => pty[p].state \in {"spawning", "alive"}
           Kept == pty'[p].ch = pty[p].ch /\ pty'[p].owner = pty[p].owner /\ pty'[p].bound = pty[p].bound /\ Lives
           Reset == pty'[p].state = "free" /\ pty'[p].bound = pty'[p].owner
           Resumed == \E c \in Conns : /\ RecvOpenHeld(c) /\ p = channels[Head(conn[c].toAgent).ch]
                                       /\ pty'[p].bound = Head(conn[c].toAgent).for
                                       /\ pty'[p].ch = pty[p].ch /\ pty'[p].owner = pty[p].owner /\ Lives
           New == \E c \in Conns : /\ RecvOpenNew(c, p) /\ pty'[p].ch = Head(conn[c].toAgent).ch
                                   /\ pty'[p].owner = Head(conn[c].toAgent).for
                                   /\ pty'[p].bound = Head(conn[c].toAgent).for
           Goal == Kept \/ Reset \/ Resumed \/ New
<1>0. FreePty.state = "free" /\ FreePty.bound = FreePty.owner
  BY DEF FreePty
<1>1. ASSUME UNCHANGED <<channels, pty>>
      PROVE  Goal
  BY <1>1
<1>2. ASSUME NEW R, Disconnected(R)
      PROVE  Goal
  BY <1>2, DisconnectedFields
<1>3. ASSUME DialFails
      PROVE  Goal
  BY <1>2, <1>3, Zenon DEF DialFails
<1>4. ASSUME AgentRestarts
      PROVE  Goal
  <2>1. pty'[p] = FreePty
    BY <1>4, Zenon DEF AgentRestarts
  <2> QED BY <1>0, <2>1
<1>5. ASSUME NEW c \in Conns, AgentSeesClose(c)
      PROVE  Goal
  <2>1. PICK R : Disconnected(R)
    BY <1>5, Zenon DEF AgentSeesClose
  <2> QED BY <1>2, <2>1
<1>6. ASSUME NEW c \in Conns, RecvOpenHeld(c)
      PROVE  Goal
  <2> DEFINE f == Head(conn[c].toAgent)
             q == channels[f.ch]
  <2>1. /\ pty'[p].state = pty[p].state /\ pty'[p].ch = pty[p].ch /\ pty'[p].owner = pty[p].owner
        /\ pty'[p].bound = (IF p = q /\ ~pty[q].attached THEN f.for ELSE pty[p].bound)
    BY <1>6, RecvOpenHeldFields
  <2> QED BY <1>6, <2>1
<1>7. ASSUME NEW c \in Conns, RecvClose(c)
      PROVE  Goal
  <2>1. \A x \in Ptys :
          /\ x # channels[Head(conn[c].toAgent).ch] => pty'[x] = pty[x]
          /\ x = channels[Head(conn[c].toAgent).ch] =>
               /\ pty'[x].state = (IF pty[x].state = "alive" THEN "killed" ELSE pty[x].state)
               /\ pty'[x].ch = pty[x].ch /\ pty'[x].attached = pty[x].attached
               /\ pty'[x].timer = FALSE /\ pty'[x].stray = pty[x].stray
               /\ pty'[x].owner = pty[x].owner /\ pty'[x].bound = pty[x].bound
    BY <1>7, RecvCloseEffect, Zenon
  <2> QED BY <2>1
<1>8. ASSUME NEW c \in Conns, RecvKill(c)
      PROVE  Goal
  <2>1. \A x \in Ptys :
          /\ x \notin Held => pty'[x] = pty[x]
          /\ x \in Held =>
               /\ pty'[x].state = (IF pty[x].state = "alive" THEN "killed" ELSE pty[x].state)
               /\ pty'[x].ch = pty[x].ch /\ pty'[x].attached = pty[x].attached
               /\ pty'[x].timer = FALSE /\ pty'[x].stray = pty[x].stray
               /\ pty'[x].owner = pty[x].owner /\ pty'[x].bound = pty[x].bound
    BY <1>8, RecvKillEffect, Zenon
  <2> QED BY <2>1
<1>9. ASSUME NEW c \in Conns, NEW q \in Ptys, RecvOpenNew(c, q)
      PROVE  Goal
  <2>1. \A x \in Ptys :
          /\ pty'[x].state = (IF x = q THEN "spawning" ELSE pty[x].state)
          /\ pty'[x].ch = (IF x = q THEN Head(conn[c].toAgent).ch ELSE pty[x].ch)
          /\ pty'[x].attached = (IF x = q THEN FALSE ELSE pty[x].attached)
          /\ pty'[x].timer = (IF x = q THEN FALSE ELSE pty[x].timer)
          /\ pty'[x].stray = (IF x = q THEN 0 ELSE pty[x].stray)
          /\ pty'[x].owner = (IF x = q THEN Head(conn[c].toAgent).for ELSE pty[x].owner)
          /\ pty'[x].bound = (IF x = q THEN Head(conn[c].toAgent).for ELSE pty[x].bound)
    BY <1>9, RecvOpenNewFields, Zenon
  <2> QED BY <1>9, <2>1
<1>10. ASSUME NEW q \in Ptys, Spawned(q)
       PROVE  Goal
  <2>1. /\ pty[q].state = "spawning" /\ (p # q => pty'[p].state = pty[p].state)
        /\ pty'[p].ch = pty[p].ch /\ pty'[p].owner = pty[p].owner /\ pty'[p].bound = pty[p].bound
    BY <1>10, SpawnedFields
  <2> QED BY <2>1
<1>11. ASSUME NEW q \in Ptys, SpawnFails(q)
       PROVE  Goal
  <2>1. pty'[p] = IF p = q THEN FreePty ELSE pty[p]
    BY <1>11, SpawnFailsEffect
  <2> QED BY <1>0, <2>1
<1>12. ASSUME NEW q \in Ptys, PtyExits(q)
       PROVE  Goal
  <2>1. \A x \in Ptys :
          \/ pty'[x] = FreePty /\ (x = q \/ pty[x].state = "dead")
          \/ /\ pty'[x].state = (IF x = q THEN "dead" ELSE pty[x].state)
             /\ pty'[x].ch = pty[x].ch /\ pty'[x].attached = pty[x].attached
             /\ pty'[x].timer = (pty[x].timer /\ x # channels[pty[q].ch])
             /\ pty'[x].stray = pty[x].stray
             /\ pty'[x].owner = pty[x].owner /\ pty'[x].bound = pty[x].bound
    BY <1>12, PtyExitsEffect, Zenon
  <2> QED BY <1>0, <2>1
<1>13. ASSUME NEW q \in Ptys, AgentGraceFires(q)
       PROVE  Goal
  <2>1. \/ pty'[p] = FreePty
        \/ /\ pty'[p].state = (IF p = q /\ pty[p].state = "alive" THEN "killed" ELSE pty[p].state)
           /\ pty'[p].ch = pty[p].ch /\ pty'[p].owner = pty[p].owner /\ pty'[p].bound = pty[p].bound
    BY <1>13, AgentGraceFiresEffect
  <2> QED BY <1>0, <2>1
<1> HIDE DEF Kept, Reset, Resumed, New
<1>14. Goal
  BY <1>1, <1>3, <1>4, <1>5, <1>6, <1>7, <1>8, <1>9, <1>10, <1>11, <1>12, <1>13, HandlesOrRests, Zenon DEF Handles
<1> QED BY <1>14 DEF Kept, Reset, Resumed, New

\* What a step does to the device on the list.
LEMMA DevicesStep ==
  ASSUME Typed, Wired, [Next]_vars
  PROVE  \/ devices' = devices
         \/ \E c \in Conns : Accept(c) /\ devices = 0 /\ devices' = c
         \/ KillDevice \/ GatewayRestarts
         \/ \E d \in Conns : GatewayGraceFires(d) /\ devices' = 0
         \/ \E c \in Conns : GatewaySeesClose(c) /\ Current(c) /\ Deserted(conn[c].device) /\ devices' = 0
<1>1. CASE devices' = devices
  BY <1>1
<1>2. ASSUME NEW d \in Conns, GatewayGraceFires(d)
      PROVE  devices' = 0
  BY <1>2, Zenon DEF GatewayGraceFires
<1>3. ASSUME Quiet, \A d \in Conns : ~GatewayGraceFires(d)
      PROVE  devices' = devices
  BY <1>3, QuietSockets DEF Wired, SameSockets
<1>4. ASSUME NEW c \in Conns, Accept(c)
      PROVE  devices' = devices \/ (devices = 0 /\ devices' = c)
  BY <1>4, AcceptFields
<1>5. ASSUME NEW c \in Conns, GatewaySeesClose(c)
      PROVE  devices' = devices \/ (Current(c) /\ Deserted(conn[c].device) /\ devices' = 0)
  BY <1>5, GatewaySeesCloseFields
<1>6. ASSUME \/ UNCHANGED vars \/ DialFails \/ AgentRestarts
             \/ \E c \in Conns : Dial(c) \/ Connected(c) \/ AgentSeesClose(c) \/ RecvKill(c)
      PROVE  devices' = devices
  BY <1>6, Zenon DEF vars, DialFails, AgentRestarts, Dial, Connected, AgentSeesClose, RecvKill
<1> QED BY <1>1, <1>2, <1>3, <1>4, <1>5, <1>6, Zenon DEF Next, Quiet

LEMMA SoleStep ==
  ASSUME Base, Sole, [Next]_vars, Unraced(Foreign)'
  PROVE  Sole'
<1>0. /\ "kill" \notin raced' /\ "restart" \notin raced' /\ Unraced({"kill"}) /\ Base'
  BY UnracedForeign, BaseStep
<1>1. ~KillDevice /\ ~GatewayRestarts
  BY <1>0, KillDeviceEffect, GatewayRestartsEffect DEF Base
<1>2. ASSUME NEW s \in Shells, shell'[s].listed
      PROVE  shell'[s].device = devices'
  <2>1. CASE OpenShell(s)
    <3>1. devices' = devices
      BY <2>1, Zenon DEF OpenShell
    <3>2. \A t \in Shells :
            /\ shell'[t].state = (IF t = s THEN "opening" ELSE shell[t].state)
            /\ shell'[t].device = (IF t = s THEN devices ELSE shell[t].device)
            /\ shell'[t].ch = (IF t = s THEN device[devices].next ELSE shell[t].ch)
            /\ shell'[t].listed = (IF t = s THEN TRUE ELSE shell[t].listed)
      BY <2>1, OpenShellFields, Zenon DEF Base
    <3> QED BY <3>1, <3>2
  <2>2. CASE ~OpenShell(s)
    <3>1. shell[s].listed /\ shell'[s].device = shell[s].device /\ shell[s].device = devices /\ devices \in Conns
      BY <1>2, <2>2, ListedStep DEF Base, Typed, Placed, Sole
    <3>2. ASSUME NEW d \in Conns, GatewayGraceFires(d)
          PROVE  FALSE
      <4>1. d = devices
        BY <1>0, <3>2 DEF GatewayGraceFires, Base, Registered
      <4>2. s \in Listed(d) => ~shell'[s].listed
        BY <3>2, GatewayGraceFiresFields DEF Base
      <4> QED BY <1>2, <3>1, <4>1, <4>2 DEF Listed
    <3>3. ASSUME NEW c \in Conns, GatewaySeesClose(c), Current(c), Deserted(conn[c].device)
          PROVE  FALSE
      <4>1. conn[c].device \in Conns
        BY <3>3, GatewaySeesCloseFields DEF Base
      <4>2. conn[c].device = devices
        BY <1>0, <3>3, <4>1, ConnNotZero DEF Current, Base, Registered
      <4> QED BY <3>1, <3>3, <4>2 DEF Deserted, Listed
    <3> QED BY <1>1, <3>1, <3>2, <3>3, DevicesStep, ConnNotZero DEF Base
  <2> QED BY <2>1, <2>2
<1>3. ASSUME tunnel' # 0, conn'[tunnel'].gateway # "none"
      PROVE  devices' \in {0, conn'[tunnel'].device}
  <2>1. PICK c \in Conns : c = tunnel'
    BY <1>0, <1>3, TypesOfNext DEF Base, Typed
  <2>2. ~Dial(c)
    <3> SUFFICES ASSUME Dial(c)
                 PROVE  FALSE
      OBVIOUS
    <3>1. conn[c].gateway = "none"
      BY DEF Dial, Base, Wired, Ends
    <3> QED BY <1>3, <2>1, <3>1, DialFields DEF Base
  <2>3. tunnel = c
    BY <1>3, <2>1, <2>2, TunnelStep DEF Base
  <2>4. CASE Accept(c)
    BY <2>1, <2>4, AcceptFields DEF Base
  <2>5. CASE ~Accept(c)
    <3>1. ~DialFails
      BY <1>3, DialFailsFields DEF Base
    <3>2. conn'[c].device = conn[c].device
      BY <2>5, <3>1, AgentEndStep DEF Base, DeviceOfChange
    <3>3. conn[c].gateway # "none"
      BY <1>0, <1>3, <2>1, <3>2, ConnNotZero DEF Base, Wired, Ends, Typed, Placed
    <3>4. devices \in {0, conn[c].device}
      BY <2>3, <3>3, ConnNotZero DEF Sole
    <3>5. ASSUME NEW x \in Conns, Accept(x)
          PROVE  FALSE
      BY <2>3, <2>5, <3>5 DEF Accept, Base, Wired, Ends
    <3>6. devices' = devices \/ devices' = 0
      BY <1>1, <3>5, DevicesStep, Zenon DEF Base
    <3> QED BY <2>1, <3>2, <3>4, <3>6
  <2> QED BY <2>4, <2>5
<1> QED BY <1>2, <1>3 DEF Sole

\* What the agent attends to has its id there, and is of the device it talks to.
LEMMA AttendedLives ==
  ASSUME Base, NEW s \in Shells, Attended(s)
  PROVE  Living(shell[s].ch)
<1>1. ASSUME NEW p \in Ptys, pty[p].state \in {"spawning", "alive"}, pty[p].owner = s
      PROVE  pty[p].ch = shell[s].ch
  BY <1>1 DEF Base, Served
<1>2. ASSUME tunnel # 0, NEW f \in In(conn[tunnel].toAgent), f.t = "open", f.for = s
      PROVE  Opening(conn[tunnel].toAgent, shell[s].ch)
  <2>1. tunnel \in Conns
    BY <1>2, TypesOf DEF Base, Typed
  <2>2. f.ch = shell[s].ch
    BY <1>2, <2>1 DEF Base, Addressed, ForAgent, About
  <2> QED BY <1>2, <2>2 DEF Opening
<1> QED BY <1>1, <1>2 DEF Attended, Living

LEMMA ExpectedIsHere ==
  ASSUME Base, Sole, tunnel # 0, conn[tunnel].gateway # "none", NEW s \in Shells, Expected(s)
  PROVE  shell[s].device = conn[tunnel].device /\ shell[s].state # "idle"
<1>1. tunnel \in Conns
  BY TypesOf DEF Base, Typed
<1>2. CASE shell[s].listed
  BY <1>2, ConnNotZero DEF Sole, Base, Typed, Placed
<1>3. CASE Leaving(conn[tunnel].toAgent, s)
  BY <1>1, <1>3 DEF Leaving, Base, Addressed, ForAgent, About
<1> QED BY <1>2, <1>3 DEF Expected

\* A step makes the agent attend to a terminal only when the gateway lists it.
LEMMA AttendedStep ==
  ASSUME Base, [Next]_vars, NEW s \in Shells, Attended(s)'
  PROVE  Attended(s) \/ shell'[s].listed
<1>1. ASSUME NEW p \in Ptys, pty'[p].state \in {"spawning", "alive"}, pty'[p].owner = s
      PROVE  Attended(s)
  <2>1. ASSUME NEW c \in Conns, RecvOpenNew(c, p), pty'[p].owner = Head(conn[c].toAgent).for
        PROVE  Attended(s)
    <3>1. conn[c].agent = "open" /\ conn[c].toAgent # <<>> /\ Head(conn[c].toAgent).t = "open"
      BY <2>1 DEF RecvOpenNew, Reaches
    <3>2. c = tunnel /\ tunnel # 0 /\ conn[c].toAgent \in Seq(Frames)
      BY <3>1, ConnNotZero, TypesOf DEF Base, Typed, ConnTable, Connection, Wired, Ends
    <3>3. Head(conn[c].toAgent) \in In(conn[c].toAgent)
      BY <3>1, <3>2, InTail
    <3> QED BY <1>1, <2>1, <3>1, <3>2, <3>3 DEF Attended
  <2>2. ASSUME pty'[p].owner = pty[p].owner, pty[p].state \in {"spawning", "alive"}
        PROVE  Attended(s)
    BY <1>1, <2>2 DEF Attended
  <2> QED BY <1>1, <2>1, <2>2, OwnerStep DEF Base
<1>2. ASSUME tunnel' # 0, NEW f \in In(conn'[tunnel'].toAgent), f.t = "open", f.for = s
      PROVE  Attended(s) \/ shell'[s].listed
  <2>1. PICK c \in Conns : tunnel' = c
    BY <1>2, BaseStep, TypesOfNext DEF Base, Typed
  <2>2. CASE f \in In(conn[c].toAgent)
    <3>1. ~Dial(c)
      <4> SUFFICES ASSUME Dial(c)
                   PROVE  FALSE
        OBVIOUS
      <4>1. conn[c].toAgent = <<>>
        BY DEF Dial, Base, Wired, Ends
      <4> QED BY <2>2, <4>1, InEmpty
    <3>2. tunnel = c
      BY <1>2, <2>1, <3>1, TunnelStep DEF Base
    <3> QED BY <1>2, <2>1, <2>2, <3>2 DEF Attended
  <2>3. CASE f \notin In(conn[c].toAgent)
    <3>1. AddedToAgent(f, c)
      BY <1>2, <2>1, <2>3, FramesToAgent DEF Base, NewToAgent
    <3> QED BY <1>2, <3>1 DEF AddedToAgent
  <2> QED BY <2>2, <2>3
<1> QED BY <1>1, <1>2 DEF Attended

\* What the agent attends to stays expected until it reads otherwise, or is gone.
LEMMA ExpectedOn ==
  ASSUME Base, Counting, Sole, Final, [Next]_vars, Unraced(Foreign)', NEW s \in Shells, Attended(s), Expected(s)
  PROVE  \/ Expected(s)'
         \/ tunnel \in Conns /\ RecvClose(tunnel) /\ Head(conn[tunnel].toAgent).for = s
         \/ AgentRestarts
<1>0. /\ "restart" \notin raced' /\ "expiry" \notin raced' /\ "lostClose" \notin raced' /\ "kill" \notin raced'
      /\ "abandonedOpen" \notin raced' /\ "staleSocket" \notin raced'
  BY UnracedForeign
<1>1. Living(shell[s].ch)
  BY AttendedLives
<1>2. ASSUME shell[s].listed, ~shell'[s].listed
      PROVE  Expected(s)'
  <2>0. shell[s].device \in Conns
    BY <1>2 DEF Base, Typed, Placed
  <2>1. ASSUME EndShell(s)
        PROVE  Expected(s)'
    <3> DEFINE g == Frame("close", shell[s].ch, s)
               c == device[shell[s].device].socket
    <3>1. g \in Frames /\ g.t = "close" /\ g.for = s
      BY <2>1, EndShellFields DEF Base
    <3>2. conn' # conn
      <4>1. raced' = raced \cup Mark("lostClose", conn' = conn)
        BY <1>2, <2>1, EndShellEffect DEF Base
      <4> QED BY <1>0, <4>1 DEF Mark
    <3>3. /\ \A x \in Conns : conn'[x] =
               IF x = c /\ conn[x].gateway = "open" /\ conn[x].agent # "closed"
               THEN [conn[x] EXCEPT !.toAgent = Append(@, g)] ELSE conn[x]
          /\ conn \in ConnTable /\ conn' \in ConnTable
      <4>1. \A x \in Conns : conn'[x] =
               IF x = c /\ conn[x].gateway = "open" /\ conn[x].agent # "closed"
               THEN [conn[x] EXCEPT !.toAgent = Append(@, g)] ELSE conn[x]
        BY <1>2, <2>1, EndShellEffect, Zenon DEF Base
      <4> QED BY <4>1, BaseStep, TypesOf, TypesOfNext DEF Base, Typed
    <3> HIDE DEF g
    <3>4. c \in Conns /\ conn[c].gateway = "open" /\ conn[c].agent # "closed"
      <4>1. conn = [x \in Conns |-> conn[x]] /\ conn' = [x \in Conns |-> conn'[x]]
        BY <3>3 DEF ConnTable
      <4>2. PICK x \in Conns : conn'[x] # conn[x]
        BY <3>2, <4>1
      <4> QED BY <3>3, <4>2
    <3>5. c = tunnel /\ c # 0
      BY <3>4, ConnNotZero DEF Base, Wired, Ends, Typed, TypeOK
    <3>6. conn'[c].toAgent = Append(conn[c].toAgent, g) /\ conn[c].toAgent \in Seq(Frames)
      BY <3>3, <3>4 DEF ConnTable, Connection
    <3>7. tunnel' = tunnel
      BY <2>1 DEF EndShell
    <3> HIDE DEF c
    <3>8. g \in In(conn'[c].toAgent) /\ tunnel' = c /\ tunnel' # 0
      BY <3>1, <3>5, <3>6, <3>7, InAppend
    <3> QED BY <3>1, <3>8 DEF Expected, Leaving
  <2>2. ~OpenTimesOut(s) /\ ~GatewayRestarts /\ ~KillDevice
    BY <1>0, OpenTimesOutEffect, GatewayRestartsEffect, KillDeviceEffect DEF Base
  <2>3. ASSUME NEW d \in Conns, GatewayGraceFires(d)
        PROVE  FALSE
    <3>1. Inhabited
      <4>1. ASSUME NEW p \in Ptys, pty[p].state \in {"spawning", "alive"}
            PROVE  p \in Held \/ pty[p].state = "spawning"
        BY <4>1, HeldIsAlive
      <4>2. ASSUME tunnel # 0, NEW f \in In(conn[tunnel].toAgent), f.t = "open"
            PROVE  Inhabited
        <5>1. tunnel \in Conns
          BY <4>2, TypesOf DEF Base, Typed
        <5> QED BY <4>2, <5>1 DEF In, Inhabited
      <4> QED BY <4>1, <4>2 DEF Attended, Inhabited
    <3>2. raced' = raced \cup Mark("expiry", Inhabited)
      BY <2>3, GatewayGraceFiresFields DEF Base
    <3> QED BY <1>0, <3>1, <3>2 DEF Mark
  <2>4. ASSUME NEW x \in Conns, GatewaySeesClose(x), Current(x), shell[s].device = conn[x].device,
               shell[s].state = "opening"
        PROVE  FALSE
    <3>1. raced' = raced \cup Mark("abandonedOpen", {t \in Shells : shell[t].state = "opening" /\ shell[t].device = conn[x].device} # {})
      BY <2>4, GatewaySeesCloseFields DEF Base
    <3> QED BY <1>0, <2>4, <3>1 DEF Mark
  <2>5. ASSUME NEW x \in Conns, shell[s].device = conn[x].device, Denying(conn[x].toGateway, shell[s].ch),
               raced' = raced \cup Stale(x) \/ raced' = raced \cup {"sameTick"} \cup Stale(x)
        PROVE  FALSE
    <3>1. device[shell[s].device].socket = x
      BY <1>0, <2>5 DEF Stale, Mark
    <3> QED BY <1>1, <1>2, <2>5, <3>1 DEF Final
  <2>6. ASSUME NEW x \in Conns
        PROVE  conn[x].toGateway \in Seq(Frames)
    BY TypesOf DEF Base, Typed, ConnTable, Connection
  <2>7. ASSUME NEW x \in Conns, RecvOpenedAndExit(x), shell[s].device = conn[x].device,
               Head(Tail(conn[x].toGateway)).ch = shell[s].ch
        PROVE  FALSE
    <3>1. /\ raced' = raced \cup {"sameTick"} \cup Stale(x)
          /\ conn[x].toGateway # <<>> /\ Tail(conn[x].toGateway) # <<>> /\ Head(Tail(conn[x].toGateway)).t = "exit"
      BY <2>7, RecvOpenedAndExitFields DEF Base
    <3>2. Head(Tail(conn[x].toGateway)) \in In(conn[x].toGateway)
      <4>1. \A q \in Seq(Frames) : q # <<>> /\ Tail(q) # <<>> => Head(Tail(q)) \in In(q)
        BY InTail
      <4> QED BY <2>6, <3>1, <4>1
    <3> QED BY <2>5, <2>7, <3>1, <3>2 DEF Denying
  <2>8. ASSUME NEW x \in Conns, RecvError(x), shell[s].device = conn[x].device, Head(conn[x].toGateway).ch = shell[s].ch
        PROVE  FALSE
    <3>1. raced' = raced \cup Stale(x) /\ conn[x].toGateway # <<>> /\ Head(conn[x].toGateway).t = "error"
      BY <2>8, RecvErrorFields DEF Base
    <3> QED BY <2>5, <2>6, <2>8, <3>1, InTail DEF Denying
  <2>9. ASSUME NEW x \in Conns, RecvExit(x), shell[s].device = conn[x].device, Head(conn[x].toGateway).ch = shell[s].ch
        PROVE  FALSE
    <3>1. raced' = raced \cup Stale(x) /\ conn[x].toGateway # <<>> /\ Head(conn[x].toGateway).t = "exit"
      BY <2>9, RecvExitFields DEF Base
    <3> QED BY <2>5, <2>6, <2>9, <3>1, InTail DEF Denying
  <2>10. Leaves(s)
    <3>1. IsOpened(s) => shell'[s].listed
      BY <1>2 DEF IsOpened
    <3> QED BY <1>2, <3>1, TerminalStep DEF Base
  <2> QED BY <2>1, <2>2, <2>3, <2>4, <2>7, <2>8, <2>9, <2>10, Zenon DEF Leaves
<1>3. ASSUME tunnel # 0, Leaving(conn[tunnel].toAgent, s), ~AgentRestarts
      PROVE  \/ Expected(s)'
             \/ tunnel \in Conns /\ RecvClose(tunnel) /\ Head(conn[tunnel].toAgent).for = s
  <2>1. tunnel \in Conns
    BY <1>3, TypesOf DEF Base, Typed
  <2>2. ~DialFails
    BY <1>3, <2>1, InEmpty DEF DialFails, Leaving, Base, Wired, Ends
  <2>3. ASSUME NEW c \in Conns, AgentSeesClose(c)
        PROVE  FALSE
    <3>1. c = tunnel
      BY <2>3 DEF AgentSeesClose, Base, Wired, Ends
    <3>2. PICK i \in DOMAIN conn[c].toAgent : conn[c].toAgent[i].t = "close"
      BY <1>3, <3>1 DEF Leaving, In
    <3>3. Disconnected({"lostClose"})
      BY <2>3, <3>2 DEF AgentSeesClose, Mark
    <3> QED BY <1>0, <3>3, DisconnectedFields DEF Base
  <2>4. tunnel' = tunnel
    BY <1>3, <2>2, <2>3, TunnelStep DEF Base
  <2>5. conn'[tunnel].agent \notin {"closed", "unused"}
    BY <2>1, <2>4, BaseStep DEF Base, Wired, Ends
  <2>6. ~RecvKill(tunnel)
    BY <1>0, <2>1, KillIsRaced, RacedGrows
  <2> QED BY <1>3, <2>1, <2>4, <2>5, <2>6, LeavingOn DEF Expected
<1> QED BY <1>2, <1>3 DEF Expected

\* Once the agent has read that a terminal is closed it has nothing of it.
LEMMA ClosedIsGone ==
  ASSUME Base, Counting, [Next]_vars, Unraced(Foreign)', NEW s \in Shells,
         \/ AgentRestarts
         \/ /\ tunnel \in Conns /\ RecvClose(tunnel) /\ Head(conn[tunnel].toAgent).for = s
            /\ InTurn(conn[tunnel].toAgent)
  PROVE  ~Attended(s)'
<1>1. CASE AgentRestarts
  <2>1. tunnel' = 0 /\ \A p \in Ptys : pty'[p] = FreePty
    BY <1>1 DEF AgentRestarts
  <2> QED BY <2>1 DEF Attended, FreePty
<1>2. CASE tunnel \in Conns /\ RecvClose(tunnel) /\ Head(conn[tunnel].toAgent).for = s /\ InTurn(conn[tunnel].toAgent)
  <2> DEFINE q == conn[tunnel].toAgent
             ch == Head(q).ch
  <2>0. "closeWhileSpawning" \notin raced'
    BY UnracedForeign
  <2>1. /\ q \in Seq(Frames) /\ q # <<>> /\ Head(q).t = "close" /\ tunnel' = tunnel
        /\ conn'[tunnel].toAgent = Tail(q)
    <3>1. q \in Seq(Frames)
      BY <1>2, TypesOf DEF Base, Typed, ConnTable, Connection
    <3> QED BY <1>2, <3>1, RecvCloseFields DEF Base
  <2>2. ch = shell[s].ch
    BY <1>2, <2>1, OpenIsNumbered DEF Base, About
  <2>3. ASSUME NEW p \in Ptys, pty'[p].state \in {"spawning", "alive"}, pty'[p].owner = s
        PROVE  FALSE
    <3>1. /\ p # channels[ch] => pty'[p] = pty[p]
          /\ p = channels[ch] => pty'[p].state = (IF pty[p].state = "alive" THEN "killed" ELSE pty[p].state)
          /\ p = channels[ch] => pty'[p].owner = pty[p].owner
          /\ raced' = raced \cup Mark("closeWhileSpawning", Spawning(ch))
      BY <1>2, RecvCloseEffect, ZenonT(60) DEF Base
    <3>2. pty[p].state \in {"spawning", "alive"} /\ pty[p].owner = s
      BY <2>3, <3>1
    <3>3. pty[p].ch = ch
      BY <2>2, <3>2 DEF Base, Served
    <3>4. ~Spawning(ch)
      BY <2>0, <3>1 DEF Mark
    <3>5. pty[p].state = "alive"
      BY <3>2, <3>3, <3>4 DEF Spawning
    <3>6. channels[ch] = p
      BY <3>3, <3>5 DEF Counting
    <3> QED BY <2>3, <3>1, <3>5, <3>6
  <2>4. ASSUME NEW f \in In(Tail(q)), f.t = "open", f.for = s
        PROVE  FALSE
    <3>1. PICK i \in DOMAIN Tail(q) : f = Tail(q)[i]
      BY DEF In
    <3>2. i + 1 \in DOMAIN q /\ q[i + 1] = f
      BY <2>1, <3>1, InTail
    <3>3. 1 \in DOMAIN q /\ q[1] = Head(q) /\ i \in Nat \ {0}
      BY <2>1, <3>1
    <3>4. i + 1 < 1
      BY <1>2, <2>1, <2>4, <3>2, <3>3 DEF InTurn
    <3> QED BY <3>3, <3>4
  <2> QED BY <2>1, <2>3, <2>4 DEF Attended
<1> QED BY <1>1, <1>2

LEMMA OwnedStep ==
  ASSUME Base, Counting, \A c \in Conns : InTurn(conn[c].toAgent), Sole, Owned, Final, [Next]_vars, Unraced(Foreign)'
  PROVE  Owned'
<1> SUFFICES ASSUME NEW s \in Shells, Attended(s)'
             PROVE  Expected(s)'
  BY DEF Owned
<1>1. CASE shell'[s].listed
  BY <1>1 DEF Expected
<1>2. CASE ~shell'[s].listed
  <2>1. Attended(s) /\ Expected(s)
    BY <1>2, AttendedStep DEF Owned
  <2> QED BY <2>1, ExpectedOn, ClosedIsGone
<1> QED BY <1>1, <1>2

\* A process is resumed for the terminal it was started for.
LEMMA LoyalStep ==
  ASSUME Base, Counting, Sole, Owned, NoForeignShell, [Next]_vars
  PROVE  NoForeignShell'
<1> SUFFICES ASSUME NEW p \in Ptys
             PROVE  pty'[p].bound = pty'[p].owner
  BY DEF NoForeignShell
<1>1. ASSUME NEW c \in Conns, RecvOpenHeld(c), p = channels[Head(conn[c].toAgent).ch]
      PROVE  Head(conn[c].toAgent).for = pty[p].owner
  <2> DEFINE f == Head(conn[c].toAgent)
  <2>1. conn[c].agent = "open" /\ conn[c].toAgent # <<>> /\ f.t = "open" /\ p # NoPty
    BY <1>1 DEF RecvOpenHeld, Reaches
  <2>2. About(f, c) /\ f.ch \in ChannelIds /\ f \in In(conn[c].toAgent)
    BY <2>1, OpenIsNumbered DEF Base
  <2>3. c = tunnel /\ tunnel # 0 /\ conn[tunnel].gateway # "none"
    BY <2>1, ConnNotZero DEF Base, Wired, Ends
  <2>4. Attended(f.for) /\ f.for \in Shells
    BY <2>1, <2>2, <2>3 DEF Attended, About
  <2>5. pty[p].state = "alive" /\ pty[p].ch = f.ch
    BY <1>1, <2>1, <2>2, HeldIsAlive
  <2>6. pty[p].owner \in Shells /\ shell[pty[p].owner].ch = f.ch
    BY <2>5 DEF Base, Served
  <2>7. Attended(pty[p].owner)
    BY <2>5 DEF Attended
  <2>8. /\ shell[f.for].device = shell[pty[p].owner].device
        /\ shell[f.for].state # "idle" /\ shell[pty[p].owner].state # "idle"
    BY <2>3, <2>4, <2>6, <2>7, ExpectedIsHere DEF Owned
  <2>9. shell[f.for].ch = f.ch
    BY <2>2 DEF About
  <2>10. \A t, u \in Shells :
           /\ shell[t].state # "idle" /\ shell[u].state # "idle"
           /\ shell[t].device = shell[u].device /\ shell[t].ch = shell[u].ch
           => t = u
    BY DEF Base, Numbered
  <2> QED BY <2>4, <2>6, <2>8, <2>9, <2>10
<1> QED BY <1>1, OwnerStep DEF NoForeignShell, Base

\* An open is sent over the connection its device uses.
LEMMA OpenSentOver ==
  ASSUME Base, [Next]_vars, NEW x \in Conns, NEW f \in In(conn'[x].toAgent), f \notin In(conn[x].toAgent), f.t = "open"
  PROVE  device'[conn'[x].device].socket = x
<1>1. conn[x].toAgent \in Seq(Frames)
  BY TypesOf DEF Base, Typed, ConnTable, Connection
<1>2. \A g \in Frames : conn'[x].toAgent = Append(conn[x].toAgent, g) => f = g
  BY <1>1, InAppend
<1>3. ~ReadByAgent(x)
  BY <1>1, InTail, InEmpty DEF ReadByAgent
<1>4. ~SentKill(x) /\ \A s \in Shells : ~SentClose(x, s)
  BY <1>2 DEF SentKill, SentClose
<1>5. ASSUME NEW s \in Shells, SentOpen(x, s)
      PROVE  device'[conn'[x].device].socket = x
  <2>1. OpenShell(s) /\ x = device[devices].socket
    BY <1>5 DEF SentOpen
  <2>2. devices \in Conns /\ conn[x].device = devices
    BY <2>1, ConnNotZero, OpenShellFields DEF Base, Wired, Sockets
  <2>3. conn'[x].device = conn[x].device
    BY <2>1, OpenShellFields, ZenonT(60) DEF Base
  <2>4. device'[devices].socket = device[devices].socket
    BY <2>1, <2>2, OpenShellFields, ZenonT(60) DEF Base
  <2> QED BY <2>1, <2>2, <2>3, <2>4
<1>6. ASSUME NEW c \in Conns, SentResume(x, c)
      PROVE  device'[conn'[x].device].socket = x
  <2>1. RecvHello(c) /\ x = device[conn[c].device].socket
    BY <1>6, Zenon DEF SentResume
  <2>2. conn[c].device \in Conns /\ conn[x].device = conn[c].device
    BY <2>1, ConnNotZero, RecvHelloFields DEF Base, Wired, Sockets
  <2>3. conn'[x].device = conn[x].device
    BY <2>1, RecvHelloEffect DEF Base
  <2>4. device'[conn[c].device].socket = device[conn[c].device].socket
    BY <2>1, <2>2, RecvHelloFields DEF Base
  <2> QED BY <2>1, <2>2, <2>3, <2>4
<1> QED BY <1>3, <1>4, <1>5, <1>6, ToAgentStep DEF Base

\* When the agent denies a listed terminal it has no process of it, not even one
\* that is only held.
LEMMA DeniedIsGone ==
  ASSUME Base, Counting, Tended, Orderly, Spent, [Next]_vars, Unraced(Drops)', tunnel # 0, tunnel' = tunnel,
         NEW f \in Frames, Answers(f), f.t \in {"error", "exit"},
         NEW s \in Shells, shell[s].listed, shell[s].device = conn[tunnel].device,
         NEW ch, ch = f.ch, ch = shell[s].ch
  PROVE  ~Living(ch)'
<1>1. ~Claimed(ch)'
  BY NewDenial
<1>2. ASSUME NEW p \in Ptys, pty'[p].state \in {"spawning", "alive"}, pty'[p].ch = ch
      PROVE  FALSE
  <2>1. pty'[p].state = "alive" /\ ~pty'[p].attached
    BY <1>1, <1>2 DEF Claimed, Busy
  <2>2. ASSUME NEW c \in Conns, RecvOpenHeld(c), ch = Head(conn[c].toAgent).ch
        PROVE  FALSE
    <3> DEFINE o == channels[Head(conn[c].toAgent).ch]
    <3>1. \A q \in Ptys :
            /\ pty'[q].state = pty[q].state
            /\ pty'[q].ch = pty[q].ch
            /\ pty'[q].attached = (IF q = o /\ ~pty[o].attached THEN TRUE ELSE pty[q].attached)
            /\ pty'[q].timer = (IF q = o /\ ~pty[o].attached THEN FALSE ELSE pty[q].timer)
            /\ pty'[q].stray = pty[q].stray
            /\ pty'[q].owner = pty[q].owner
            /\ pty'[q].bound = (IF q = o /\ ~pty[o].attached THEN Head(conn[c].toAgent).for ELSE pty[q].bound)
      BY <2>2, RecvOpenHeldFields, Zenon DEF Base
    <3>2. pty[p].state = "alive" /\ pty[p].ch = ch
      BY <1>2, <2>1, <3>1
    <3>3. channels[ch] = p
      BY <3>2, HeldIsAlive
    <3>4. o = p
      BY <2>2, <3>3
    <3> HIDE DEF o
    <3> QED BY <2>1, <3>1, <3>4
  <2>3. ASSUME NEW c \in Conns, RecvOpenRefused(c), ch = Head(conn[c].toAgent).ch
        PROVE  FALSE
    <3>1. UNCHANGED pty /\ channels[ch] = NoPty
      BY <2>3, Zenon DEF RecvOpenRefused
    <3> QED BY <1>2, <2>1, <3>1, HeldIsAlive
  <2>4. ASSUME NEW q \in Ptys, SpawnFails(q), pty[q].ch = ch
        PROVE  FALSE
    <3>1. pty[q].state = "spawning" /\ pty'[p] = (IF p = q THEN FreePty ELSE pty[p])
      BY <2>4, SpawnFailsEffect DEF Base
    <3>2. FreePty.state = "free"
      BY DEF FreePty
    <3> QED BY <1>2, <2>1, <2>4, <3>1, <3>2 DEF Counting
  <2>5. ASSUME NEW q \in Ptys, PtyExits(q), pty[q].attached, pty[q].ch = ch
        PROVE  FALSE
    <3>1. \A x \in Ptys :
            \/ pty'[x] = FreePty /\ (x = q \/ pty[x].state = "dead")
            \/ /\ pty'[x].state = (IF x = q THEN "dead" ELSE pty[x].state)
               /\ pty'[x].ch = pty[x].ch /\ pty'[x].attached = pty[x].attached
               /\ pty'[x].timer = (pty[x].timer /\ x # channels[pty[q].ch])
               /\ pty'[x].stray = pty[x].stray
               /\ pty'[x].owner = pty[x].owner /\ pty'[x].bound = pty[x].bound
      BY <2>5, PtyExitsEffect, Zenon DEF Base
    <3>2. FreePty.state = "free"
      BY DEF FreePty
    <3>3. p # q /\ pty[p].state = "alive" /\ pty[p].ch = ch
      BY <1>2, <2>1, <3>1, <3>2
    <3>4. pty[q].state = "killed"
      <4>1. pty[q].state \in {"alive", "killed"}
        BY <2>5, PtyExitsFields DEF Base
      <4>2. pty[q].state # "alive"
        BY <2>5, <3>3, HeldIsAlive
      <4> QED BY <4>1, <4>2
    <3>5. /\ pty[q].bound \in Shells /\ shell[pty[q].bound].state # "idle"
          /\ shell[pty[q].bound].ch = pty[q].ch /\ shell[pty[q].bound].device = conn[tunnel].device
      BY <2>5, ExitIsAbout
    <3>6. shell[s].state # "idle"
      BY DEF Base, Typed, Placed
    <3>7. pty[q].bound = s
      BY <2>5, <3>5, <3>6 DEF Base, Numbered
    <3> QED BY <2>5, <3>4, <3>7 DEF Spent
  <2>6. (\E c \in Conns : ch = Head(conn[c].toAgent).ch /\ (RecvOpenHeld(c) \/ RecvOpenRefused(c)))
        \/ \E q \in Ptys : pty[q].ch = ch /\ (SpawnFails(q) \/ (PtyExits(q) /\ pty[q].attached))
    <3>1. f.t # "opened"
      OBVIOUS
    <3> QED BY <3>1, Zenon DEF Answers, AnswersOpen, AnswersFor
  <2> QED BY <2>2, <2>3, <2>4, <2>5, <2>6
<1> QED BY <1>1, <1>2 DEF Living, Claimed

LEMMA FinalStep ==
  ASSUME Base, Counting, Tended, Orderly, Met, Answerable, Spent, LastWord, Sole, Final, [Next]_vars,
         Unraced(Foreign)'
  PROVE  Final'
<1> SUFFICES ASSUME NEW s \in Shells, NEW c \in Conns, shell'[s].listed, device'[shell'[s].device].socket = c,
                    Denying(conn'[c].toGateway, shell'[s].ch)
             PROVE  ~Living(shell[s].ch)'
  BY DEF Final
<1>0. /\ Unraced(Drops)' /\ "restart" \notin raced' /\ LastWord' /\ Sole' /\ c # 0 /\ c \in Conns
      /\ conn[c].toGateway \in Seq(Frames) /\ conn'[c].toGateway # <<>>
  <2>1. conn[c].toGateway \in Seq(Frames)
    BY TypesOf DEF Base, Typed, ConnTable, Connection
  <2>2. Unraced(Drops)' /\ "restart" \notin raced'
    BY UnracedForeign
  <2> QED BY <2>1, <2>2, LastWordStep, SoleStep, ConnNotZero, InEmpty DEF Denying
<1>1. ~Accept(c)
  <2> SUFFICES ASSUME Accept(c)
               PROVE  FALSE
    OBVIOUS
  <2>1. conn[c].toGateway = <<>>
    BY DEF Accept, Base, Wired, Ends
  <2>2. conn'[c].toGateway = conn[c].toGateway
    BY AcceptFields DEF Base
  <2> QED BY <1>0, <2>1, <2>2
<1>2. ASSUME NEW d \in Conns, device'[d].socket = c
      PROVE  device[d].socket = c /\ conn[c].device = d
  <2>1. ~GatewayRestarts
    BY <1>0, GatewayRestartsEffect DEF Base
  <2>2. ASSUME NEW x \in Conns, GatewaySeesClose(x), Current(x), conn[x].device = d
        PROVE  FALSE
    <3>1. device'[d].socket = 0
      BY <2>2, GatewaySeesCloseFields DEF Base
    <3> QED BY <1>0, <1>2, <3>1
  <2>3. device[d].socket = c
    BY <1>1, <1>2, <2>1, <2>2, SocketStep DEF Base
  <2> QED BY <1>0, <2>3 DEF Base, Wired, Sockets
<1>3. ~OpenShell(s)
  <2> SUFFICES ASSUME OpenShell(s)
               PROVE  FALSE
    OBVIOUS
  <2>0. \A x \in Conns : conn'[x].toGateway = conn[x].toGateway
    BY OpenShellFields, ZenonT(60) DEF Base
  <2>1. \A t \in Shells :
          /\ shell'[t].state = (IF t = s THEN "opening" ELSE shell[t].state)
          /\ shell'[t].device = (IF t = s THEN devices ELSE shell[t].device)
          /\ shell'[t].ch = (IF t = s THEN device[devices].next ELSE shell[t].ch)
          /\ shell'[t].listed = (IF t = s THEN TRUE ELSE shell[t].listed)
    BY OpenShellFields, Zenon DEF Base
  <2>2. shell'[s].ch = device[devices].next /\ shell'[s].device = devices
    BY <2>1
  <2>3. devices \in Conns
    BY OpenShellFields DEF Base
  <2>4. conn[c].device = devices
    BY <1>2, <2>2, <2>3
  <2>5. PICK f \in In(conn[c].toGateway) : f.t \in {"error", "exit"} /\ f.ch = device[devices].next
    BY <2>0, <2>2 DEF Denying
  <2>6. PICK t \in Shells : shell[t].state # "idle" /\ shell[t].ch = f.ch /\ shell[t].device = conn[c].device
    BY <2>5 DEF Answerable
  <2>7. device[devices].next \in Nat
    BY <2>3, TypesOf DEF Base, Typed, Device
  <2>8. shell[t].ch < device[devices].next
    BY <2>4, <2>6 DEF Base, Numbered
  <2> QED BY <2>5, <2>6, <2>7, <2>8
<1>4. shell[s].listed /\ shell'[s].device = shell[s].device /\ shell'[s].ch = shell[s].ch /\ shell[s].device \in Conns
  <2>1. shell[s].listed /\ shell'[s].device = shell[s].device /\ shell'[s].ch = shell[s].ch
    BY <1>3, ListedStep DEF Base
  <2> QED BY <2>1 DEF Base, Typed, Placed
<1>5. PICK ch : ch = shell[s].ch
  OBVIOUS
<1>6. device[shell[s].device].socket = c /\ conn[c].device = shell[s].device
  BY <1>2, <1>4
<1>7. CASE Denying(conn[c].toGateway, ch)
  <2>1. ~Living(ch)
    BY <1>4, <1>5, <1>6, <1>7 DEF Final
  <2>2. ASSUME NEW p \in Ptys, pty'[p].state \in {"spawning", "alive"}, pty'[p].ch = ch
        PROVE  FALSE
    <3>1. ASSUME NEW x \in Conns, RecvOpenNew(x, p), pty'[p].ch = Head(conn[x].toAgent).ch
          PROVE  FALSE
      <4>1. conn[x].agent = "open" /\ conn[x].toAgent # <<>> /\ Head(conn[x].toAgent).t = "open"
        BY <3>1 DEF RecvOpenNew, Reaches
      <4>2. x = tunnel /\ tunnel # 0 /\ conn[x].toAgent \in Seq(Frames)
        BY <4>1, ConnNotZero, TypesOf DEF Base, Typed, ConnTable, Connection, Wired, Ends
      <4>3. Head(conn[x].toAgent) \in In(conn[x].toAgent)
        BY <4>1, <4>2, InTail
      <4> QED BY <2>1, <2>2, <3>1, <4>1, <4>2, <4>3 DEF Living, Opening
    <3>2. ASSUME pty'[p].ch = pty[p].ch, pty[p].state \in {"spawning", "alive"}
          PROVE  FALSE
      BY <2>1, <2>2, <3>2 DEF Living
    <3> QED BY <2>2, <3>1, <3>2, OwnerStep DEF Base
  <2>3. ASSUME NEW x \in Conns, tunnel' = x, Opening(conn'[x].toAgent, ch)
        PROVE  FALSE
    <3>1. PICK f \in In(conn'[x].toAgent) : f.t = "open" /\ f.ch = ch
      BY <2>3 DEF Opening
    <3>2. CASE f \in In(conn[x].toAgent)
      <4>1. ~Dial(x)
        <5> SUFFICES ASSUME Dial(x)
                     PROVE  FALSE
          OBVIOUS
        <5>1. conn[x].toAgent = <<>>
          BY DEF Dial, Base, Wired, Ends
        <5> QED BY <3>2, <5>1, InEmpty
      <4>2. tunnel = x /\ tunnel # 0
        BY <2>3, <4>1, ConnNotZero, TunnelStep DEF Base
      <4> QED BY <2>1, <3>1, <3>2, <4>2 DEF Living, Opening
    <3>3. CASE f \notin In(conn[x].toAgent)
      <4>1. device'[conn'[x].device].socket = x
        BY <3>1, <3>3, OpenSentOver
      <4>2. f.for \in Shells /\ shell'[f.for].listed /\ shell'[f.for].device = conn'[x].device
        BY <3>1, <3>3, FramesToAgent DEF Base, NewToAgent, AddedToAgent, About
      <4>3. shell'[s].device = conn'[x].device
        BY <1>0, <4>2 DEF Sole
      <4>4. x = c
        BY <4>1, <4>3
      <4>5. ~Claimed(ch)'
        BY <1>0, <1>4, <1>5, <2>3, <4>3, <4>4 DEF LastWord, Claimed
      <4> QED BY <1>0, <2>3, <4>4, <4>5 DEF Claimed
    <3> QED BY <3>2, <3>3
  <2>4. tunnel' # 0 => tunnel' \in Conns
    BY BaseStep, TypesOfNext DEF Base, Typed
  <2>5. ~Living(ch)'
    BY <2>2, <2>3, <2>4 DEF Living
  <2> QED BY <1>4, <1>5, <2>5 DEF Living
<1>8. CASE ~Denying(conn[c].toGateway, ch)
  <2>1. PICK f \in In(conn'[c].toGateway) : f.t \in {"error", "exit"} /\ f.ch = ch
    BY <1>4, <1>5 DEF Denying
  <2>2. f \notin In(conn[c].toGateway)
    BY <1>8, <2>1 DEF Denying
  <2>3. PICK g \in Frames : /\ g.t = "hello" \/ (c = tunnel /\ Answers(g))
                            /\ conn'[c].toGateway = Append(conn[c].toGateway, g)
    <3>1. \A q \in Seq(Frames) : q # <<>> => In(Tail(q)) \subseteq In(q) /\ Tail(q) \in Seq(Frames)
      BY InTail
    <3>2. ~ReadByGateway(c)
      BY <1>0, <2>1, <2>2, <3>1, InEmpty DEF ReadByGateway
    <3>3. SentHello(c) \/ SentAnswer(c)
      BY <1>0, <3>2, ToGatewayStep DEF Base
    <3> QED BY <3>3, Zenon DEF SentHello, SentAnswer
  <2>4. f = g
    BY <1>0, <2>1, <2>2, <2>3, InAppend
  <2>5. Answers(f) /\ f \in Frames /\ c = tunnel
    BY <2>1, <2>3, <2>4
  <2>6. tunnel' = tunnel
    BY <2>5, Zenon DEF Answers, AnswersOpen, AnswersFor, RecvOpenHeld, RecvOpenRefused, Spawned, SpawnFails, PtyExits
  <2>7. ~Living(ch)'
    BY <1>0, <1>4, <1>5, <1>6, <2>1, <2>5, <2>6, DeniedIsGone
  <2> QED BY <1>4, <1>5, <2>7 DEF Living
<1> QED BY <1>7, <1>8

\* A process only ever serves the terminal it was started for, though the agent
\* goes by ids alone and an id it knows means "resume": unless the gateway lost,
\* or gave up, what the agent still had, or a frame came to the wrong device, or
\* an answer or an end came late (registry.ts:561, channels.ts open).
THEOREM NoForeignShellHolds == Spec => []NoForeignShellUnlessRaced
<1> DEFINE Ordered == \A c \in Conns : InTurn(conn[c].toAgent)
           Inv == Base /\ Known /\ Exact /\ Ordered /\ (Unraced(Foreign) => Homely)
<1>1. Init => Inv
  <2> SUFFICES ASSUME Init
               PROVE  Inv
    OBVIOUS
  <2>1. Base
    BY BaseAtStart
  <2>2. /\ \A c \in Conns : conn[c].toAgent = <<>> /\ conn[c].toGateway = <<>>
        /\ \A p \in Ptys : pty[p].state = "free" /\ pty[p].owner = NoShell /\ pty[p].bound = NoShell
        /\ \A s \in Shells : ~shell[s].listed
        /\ tunnel = 0
    BY DEF Init, Unused, FreePty, UnopenedShell
  <2>3. Homely
    BY <2>2 DEF Homely, NoForeignShell, Owned, Attended, Sole, Final
  <2>4. Ordered
    BY <2>2 DEF InTurn
  <2> QED BY <2>1, <2>3, <2>4, CountedAtStart, KnownAtStart, ExactAtStart DEF Known, Exact
<1>2. Inv /\ [Next]_vars => Inv'
  <2> SUFFICES ASSUME Inv, [Next]_vars
               PROVE  Inv'
    OBVIOUS
  <2>1. Base' /\ Known' /\ Exact'
    BY BaseStep, KnownStep, ExactStep
  <2>2. Ordered'
    BY InTurnStep
  <2>3. Unraced(Foreign)' => Homely'
    <3> SUFFICES ASSUME Unraced(Foreign)'
                 PROVE  Homely'
      OBVIOUS
    <3>1. Unraced(Foreign) /\ Unraced(Drops)
      BY UnracedForeign DEF Unraced, Foreign
    <3>2. /\ Homely /\ Ordered
          /\ Counting /\ Tended /\ Orderly /\ Met /\ Answerable /\ Spent /\ LastWord
      BY <3>1 DEF Known, Exact
    <3> QED BY <3>2, LoyalStep, OwnedStep, SoleStep, FinalStep DEF Homely
  <2> QED BY <2>1, <2>2, <2>3
<1>3. Inv => NoForeignShellUnlessRaced
  BY DEF NoForeignShellUnlessRaced, Homely, Unraced, Foreign, Drops
<1> QED BY <1>1, <1>2, <1>3, PTL DEF Spec

=============================================================================
