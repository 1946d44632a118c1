---------------------------- MODULE AgentProofs ----------------------------
(***************************************************************************)
(* Proofs about the machine's side that are not about its tunnel: how it is *)
(* enrolled and let go (Enrolment), and how a file is transferred to it or  *)
(* from it (AgentStreams).  Their types and each safety property their runs *)
(* check, for any number of codes, pairings, withdrawals, tunnels, tokens   *)
(* and connections, any files, any window and any races.                    *)
(***************************************************************************)
EXTENDS Enrolment, AgentStreams, TLAPS, FiniteSetTheorems, SequenceTheorems

\* What every value is, whichever tokens have been issued.
APairing == [stage : {"idle", "sent", "found", "allow", "answer"},
             code : Codes \cup {"none"}, token : {0} \cup Tokens]
AWithdrawal == [stage : {"idle", "found", "call"},
                kind : {"none", "revoke", "remove"}, device : {0} \cup Tokens]
ATunnel == [stage : {"off", "waiting", "asking", "found", "granted", "connected"},
            token : {0} \cup Tokens, stopped : BOOLEAN]

Shapes ==
  /\ code \in [Codes -> {"unissued", "issued", "consumed", "expired"}]
  /\ row \in [Tokens -> {"none", "active", "revoked", "removed"}]
  /\ hash \in [Tokens -> {0} \cup Tokens]
  /\ deviceOf \in [Tokens -> {0} \cup Tokens]
  /\ pairing \in [Pairings -> APairing]
  /\ withdrawal \in [Withdrawals -> AWithdrawal]
  /\ denied \subseteq Tokens
  /\ disk \in {0} \cup Tokens
  /\ tunnel \in [Tunnels -> ATunnel]
  /\ winners \in [Codes -> SUBSET Pairings]
  /\ raced \subseteq Races

\* Whatever is under way knows what it is about, and every name in use was issued.
InOrder == \E n \in Nat : Issued = 1..n
HasDevice == \A t \in Issued : deviceOf[t] \in Issued
RowsAreNamed == \A d \in Tokens : row[d] # "none" <=> d \in Devices
OneRow == \A d, e \in Enrolled : d = e
HashIsIssued == \A d \in Tokens : hash[d] # 0 => hash[d] \in Issued
PairingIsNamed ==
  \A p \in Pairings :
    /\ pairing[p].stage # "idle" => pairing[p].code \in Codes
    /\ pairing[p].stage \in {"allow", "answer"} <=> pairing[p].token # 0
    /\ pairing[p].token # 0 => pairing[p].token \in Issued
WithdrawalIsNamed ==
  \A w \in Withdrawals : /\ withdrawal[w].stage # "idle" => withdrawal[w].device # 0
                         /\ withdrawal[w].device # 0 => withdrawal[w].device \in Devices
TunnelIsNamed ==
  \A u \in Tunnels : /\ tunnel[u].stage # "off" => tunnel[u].token # 0
                     /\ tunnel[u].token # 0 => tunnel[u].token \in Issued
Names == /\ InOrder /\ HasDevice /\ RowsAreNamed /\ OneRow /\ HashIsIssued
         /\ PairingIsNamed /\ WithdrawalIsNamed /\ TunnelIsNamed
         /\ denied \subseteq Devices /\ (disk # 0 => disk \in Issued)

Well == Shapes /\ Names

-------------------------------------------------------------------------------
\* What an enrolment does, with its new token and its device named.

Enrols(p, t, d) ==
  /\ t \in Tokens /\ t \notin Issued /\ d \in Tokens
  /\ d \in Enrolled \/ (Enrolled = {} /\ d = t)
  /\ pairing[p].stage = "found" /\ pairing[p].code \in Codes /\ Unconsumed(pairing[p].code)
  /\ code' = [code EXCEPT ![pairing[p].code] = "consumed"]
  /\ winners' = [winners EXCEPT ![pairing[p].code] = @ \cup {p}]
  /\ row' = [row EXCEPT ![d] = "active"]
  /\ hash' = [hash EXCEPT ![d] = t]
  /\ deviceOf' = [deviceOf EXCEPT ![t] = d]
  /\ pairing' = [pairing EXCEPT ![p] = [[pairing[p] EXCEPT !.stage = "allow"] EXCEPT !.token = t]]
  /\ raced \subseteq raced' /\ raced' \subseteq Races
  /\ Disconnecting(d) # {} => "crossed" \in raced'
  /\ UNCHANGED <<withdrawal, denied, disk, tunnel>>
  /\ InOrder'
  /\ Issued' = Issued \cup {t}
  /\ Devices' = Devices \cup {d}

LEMMA EnrolIs ==
  ASSUME Well, NEW p \in Pairings, Enrol(p)
  PROVE  \E t, d \in Tokens : Enrols(p, t, d)
<1>. DEFINE t == Cardinality(Issued) + 1
            d == IF Enrolled = {} THEN t ELSE CHOOSE e \in Enrolled : TRUE
<1>1. PICK n \in Nat : Issued = 1..n
  BY DEF Well, Names, InOrder
<1>2. Cardinality(Issued) = n
  BY <1>1, FS_Interval
<1>3. t = n + 1 /\ t \in Tokens /\ t \notin Issued
  <2>1. t \in Tokens
    BY DEF Enrol
  <2>. QED BY <1>1, <1>2, <2>1
<1>4. d \in Enrolled \/ (Enrolled = {} /\ d = t)
  OBVIOUS
<1>5. Devices \subseteq Issued
  BY DEF Well, Names, HasDevice, Devices
<1>6. d \in Tokens
  BY <1>3, <1>4, <1>5 DEF Enrolled, Issued
<1>. HIDE DEF t, d
<1>7. /\ pairing[p].stage = "found" /\ pairing[p].code \in Codes /\ Unconsumed(pairing[p].code)
      /\ code' = [code EXCEPT ![pairing[p].code] = "consumed"]
      /\ winners' = [winners EXCEPT ![pairing[p].code] = @ \cup {p}]
      /\ row' = [row EXCEPT ![d] = "active"]
      /\ hash' = [hash EXCEPT ![d] = t]
      /\ deviceOf' = [deviceOf EXCEPT ![t] = d]
      /\ UNCHANGED <<withdrawal, denied, disk, tunnel>>
  BY DEF Enrol, Renew, t, d, Well, Names, PairingIsNamed
<1>8. pairing' = [pairing EXCEPT ![p] = [[pairing[p] EXCEPT !.stage = "allow"] EXCEPT !.token = t]]
  BY DEF Enrol, t, Well, Shapes
<1>9. raced \subseteq raced' /\ raced' \subseteq Races /\ (Disconnecting(d) # {} => "crossed" \in raced')
  BY DEF Enrol, NoteIf, Note, t, d
<1>10. \A x \in Tokens : deviceOf'[x] = IF x = t THEN d ELSE deviceOf[x]
  BY <1>3, <1>7 DEF Well, Shapes
<1>11. Issued' = Issued \cup {t}
  BY <1>3, <1>6, <1>10 DEF Issued, Tokens
<1>12. Devices' = Devices \cup {d}
  BY <1>3, <1>10, <1>11 DEF Devices, Issued
<1>13. InOrder'
  BY <1>1, <1>3, <1>11 DEF InOrder
<1>. QED BY <1>3, <1>4, <1>6, <1>7, <1>8, <1>9, <1>11, <1>12, <1>13 DEF Enrols

-------------------------------------------------------------------------------
\* The other actions, by what they leave alone.

OnCode == \E c \in Codes : IssueCode(c) \/ CodeExpires(c)
OnPairing ==
  \E p \in Pairings :
    \/ \E c \in Codes : SendPairing(p, c)
    \/ FindCode(p) \/ LoseTheRace(p) \/ Allow(p) \/ AllowIsLost(p) \/ SavePairing(p) \/ LosePairing(p)
OnWithdrawal ==
  \E w \in Withdrawals :
    \/ \E k \in {"revoke", "remove"}, d \in Devices : FindDevice(w, k, d)
    \/ Withdraw(w) \/ WithdrawFails(w) \/ Disconnect(w) \/ DisconnectIsLost(w)
OnTunnel ==
  \/ \E u \in Tunnels :
       \/ StartTunnel(u) \/ StopTunnel(u) \/ AskForToken(u) \/ FindToken(u) \/ MintToken(u)
       \/ Connect(u) \/ Drop(u)
  \/ \E d \in Tokens : DenialAges(d)
  \/ GatewayRestarts

LEMMA NextIs == Next => OnCode \/ OnPairing \/ (\E p \in Pairings : Enrol(p)) \/ OnWithdrawal \/ OnTunnel
BY DEF Next, OnCode, OnPairing, OnWithdrawal, OnTunnel

LEMMA SameNames == ASSUME UNCHANGED deviceOf PROVE Issued' = Issued /\ Devices' = Devices
BY DEF Issued, Devices, Tokens

LEMMA EnrolKeepsWell ==
  ASSUME Well, NEW p \in Pairings, NEW t \in Tokens, NEW d \in Tokens, Enrols(p, t, d)
  PROVE  Well'
<1>1. Shapes'
  <2>1. pairing' \in [Pairings -> APairing]
    <3>. DEFINE y == [pairing[p] EXCEPT !.stage = "allow"]
                x == [y EXCEPT !.token = t]
    <3>1. y \in APairing
      BY DEF Well, Shapes, APairing
    <3>. HIDE DEF y
    <3>2. x \in APairing
      BY <3>1 DEF APairing
    <3>3. pairing' = [pairing EXCEPT ![p] = x]
      BY DEF Enrols, y
    <3>. HIDE DEF x
    <3>. QED BY <3>2, <3>3 DEF Well, Shapes
  <2>2. code' \in [Codes -> {"unissued", "issued", "consumed", "expired"}] /\ winners' \in [Codes -> SUBSET Pairings]
    BY DEF Well, Shapes, Enrols
  <2>3. /\ row' \in [Tokens -> {"none", "active", "revoked", "removed"}]
        /\ hash' \in [Tokens -> {0} \cup Tokens] /\ deviceOf' \in [Tokens -> {0} \cup Tokens]
    BY DEF Well, Shapes, Enrols
  <2>. QED BY <2>1, <2>2, <2>3 DEF Well, Shapes, Enrols
<1>2. HasDevice'
  <2>1. d \in Issued'
    BY DEF Enrols, Enrolled, Devices, Well, Names, HasDevice
  <2>. QED BY <2>1 DEF Enrols, Well, Shapes, Names, HasDevice
<1>3. RowsAreNamed'
  BY DEF Enrols, Well, Shapes, Names, RowsAreNamed
<1>4. OneRow'
  <2>1. \A e \in Tokens : e # d => row'[e] = row[e]
    BY DEF Enrols, Well, Shapes
  <2>2. \A e \in Enrolled' : e = d
    <3>. SUFFICES ASSUME NEW e \in Enrolled', e # d PROVE FALSE
      OBVIOUS
    <3>1. e \in Tokens /\ row[e] \in {"active", "revoked"} /\ e \in Devices
      BY <2>1, <1>1, <1>2 DEF Enrolled, Enrols, HasDevice, Devices, Issued
    <3>. QED BY <3>1 DEF Enrolled, Enrols, Well, Names, OneRow
  <2>. QED BY <2>2 DEF OneRow
<1>5. HashIsIssued'
  BY DEF Enrols, Well, Shapes, Names, HashIsIssued
<1>6. PairingIsNamed'
  BY DEF Enrols, Well, Shapes, Names, PairingIsNamed, Tokens
<1>7. WithdrawalIsNamed' /\ TunnelIsNamed' /\ (denied \subseteq Devices)' /\ (disk # 0 => disk \in Issued)'
  BY DEF Enrols, Well, Names, WithdrawalIsNamed, TunnelIsNamed
<1>. QED BY <1>1, <1>2, <1>3, <1>4, <1>5, <1>6, <1>7 DEF Well, Names, Enrols

PairingMoves(p, x) ==
  /\ x \in APairing
  /\ x.stage # "idle" => x.code \in Codes
  /\ x.stage \in {"allow", "answer"} <=> x.token # 0
  /\ x.stage # "allow"
  /\ x.token # 0 => x.token = pairing[p].token
  /\ pairing' = [pairing EXCEPT ![p] = x]

LEMMA PairingMove ==
  ASSUME Well, NEW p \in Pairings,
         pairing[p].stage \in {"sent", "found", "allow", "answer"},
         \/ pairing' = [pairing EXCEPT ![p] = NoPairing]
         \/ pairing[p].stage = "sent" /\ pairing' = [pairing EXCEPT ![p] = [pairing[p] EXCEPT !.stage = "found"]]
         \/ pairing[p].stage = "allow" /\ pairing' = [pairing EXCEPT ![p].stage = "answer"]
  PROVE  \E x \in APairing : PairingMoves(p, x)
<1>1. /\ pairing[p] \in APairing /\ pairing[p].code \in Codes
      /\ pairing[p].stage \in {"allow", "answer"} <=> pairing[p].token # 0
  BY DEF Well, Shapes, Names, PairingIsNamed, APairing
<1>2. CASE pairing' = [pairing EXCEPT ![p] = NoPairing]
  BY <1>2 DEF NoPairing, APairing, PairingMoves
<1>3. CASE pairing[p].stage = "sent" /\ pairing' = [pairing EXCEPT ![p] = [pairing[p] EXCEPT !.stage = "found"]]
  <2>. DEFINE x == [pairing[p] EXCEPT !.stage = "found"]
  <2>1. x \in APairing /\ x.code = pairing[p].code /\ x.token = pairing[p].token /\ x.stage = "found"
    BY <1>1 DEF APairing
  <2>2. pairing' = [pairing EXCEPT ![p] = x]
    BY <1>3
  <2>. HIDE DEF x
  <2>. QED BY <1>1, <1>3, <2>1, <2>2 DEF PairingMoves
<1>4. CASE pairing[p].stage = "allow" /\ pairing' = [pairing EXCEPT ![p].stage = "answer"]
  <2>. DEFINE x == [pairing[p] EXCEPT !.stage = "answer"]
  <2>1. x \in APairing /\ x.code = pairing[p].code /\ x.token = pairing[p].token /\ x.stage = "answer"
    BY <1>1 DEF APairing
  <2>2. pairing' = [pairing EXCEPT ![p] = x]
    BY <1>4 DEF Well, Shapes
  <2>. HIDE DEF x
  <2>. QED BY <1>1, <1>4, <2>1, <2>2 DEF PairingMoves
<1>. QED BY <1>2, <1>3, <1>4

LEMMA PairingActs ==
  ASSUME Well, OnPairing
  PROVE  \E p \in Pairings, x \in APairing : PairingMoves(p, x)
<1>1. ASSUME NEW p \in Pairings, NEW c \in Codes, SendPairing(p, c)
      PROVE  \E x \in APairing : PairingMoves(p, x)
  BY <1>1 DEF SendPairing, NoPairing, APairing, PairingMoves
<1>2. ASSUME NEW p \in Pairings,
             FindCode(p) \/ LoseTheRace(p) \/ Allow(p) \/ AllowIsLost(p) \/ SavePairing(p) \/ LosePairing(p)
      PROVE  \E x \in APairing : PairingMoves(p, x)
  <2>1. /\ pairing[p].stage \in {"sent", "found", "allow", "answer"}
        /\ \/ pairing' = [pairing EXCEPT ![p] = NoPairing]
           \/ pairing[p].stage = "sent" /\ pairing' = [pairing EXCEPT ![p] = [pairing[p] EXCEPT !.stage = "found"]]
           \/ pairing[p].stage = "allow" /\ pairing' = [pairing EXCEPT ![p].stage = "answer"]
    BY <1>2 DEF FindCode, LoseTheRace, Allow, AllowIsLost, SavePairing, LosePairing
  <2>. QED BY <2>1, PairingMove
<1>. QED BY <1>1, <1>2 DEF OnPairing

LEMMA PairingKeepsWell ==
  ASSUME Well, OnPairing
  PROVE  Well'
<1>1. UNCHANGED <<code, row, hash, deviceOf, withdrawal, tunnel, winners>> /\ Issued' = Issued /\ Devices' = Devices
  BY SameNames DEF OnPairing, SendPairing, FindCode, LoseTheRace, Allow, AllowIsLost, SavePairing, LosePairing, rowVars
<1>2. raced' \subseteq Races
  BY DEF OnPairing, SendPairing, FindCode, LoseTheRace, Allow, AllowIsLost, SavePairing, LosePairing, NoteIf, Note, Well, Shapes
<1>3. denied' \subseteq denied
  BY DEF OnPairing, SendPairing, FindCode, LoseTheRace, Allow, AllowIsLost, SavePairing, LosePairing, Lift
<1>4. disk' = disk \/ \E p \in Pairings : pairing[p].stage = "answer" /\ disk' = pairing[p].token
  BY DEF OnPairing, SendPairing, FindCode, LoseTheRace, Allow, AllowIsLost, SavePairing, LosePairing
<1>5. disk' \in {0} \cup Tokens /\ (disk' # 0 => disk' \in Issued)
  BY <1>4 DEF Well, Shapes, APairing, Names, PairingIsNamed
<1>6. PICK p \in Pairings, x \in APairing : PairingMoves(p, x)
  BY PairingActs
<1>7. Shapes'
  BY <1>1, <1>2, <1>3, <1>5, <1>6 DEF Well, Shapes, PairingMoves, APairing
<1>8. PairingIsNamed'
  BY <1>1, <1>6 DEF Well, Shapes, Names, PairingIsNamed, PairingMoves
<1>9. InOrder' /\ HasDevice' /\ RowsAreNamed' /\ OneRow' /\ HashIsIssued' /\ WithdrawalIsNamed' /\ TunnelIsNamed'
  BY <1>1 DEF Well, Names, InOrder, HasDevice, RowsAreNamed, OneRow, HashIsIssued, WithdrawalIsNamed, TunnelIsNamed, Enrolled
<1>. QED BY <1>1, <1>3, <1>5, <1>7, <1>8, <1>9 DEF Well, Names

\* What an action may do to a tunnel v.
TunnelMoves(v) ==
  /\ tunnel'[v] \in ATunnel
  /\ tunnel'[v].stage # "off" => tunnel'[v].token # 0
  /\ \/ tunnel'[v].token = tunnel[v].token
     \/ tunnel'[v].stage = "waiting" /\ tunnel'[v].token = disk
  /\ tunnel'[v].stage \in {"found", "granted"} =>
       tunnel[v].stage \in {"found", "granted"} \/ (tunnel[v].stage = "asking" /\ Answers(tunnel[v].token))
  /\ tunnel'[v].stage = "connected" =>
       tunnel[v].stage = "connected" \/ (tunnel[v].stage = "granted" /\ deviceOf[tunnel[v].token] \notin denied)
  /\ tunnel'[v].stopped /\ (tunnel[v].stopped => tunnel[v].stage = "off") =>
       tunnel'[v].stage = "off" \/ "stoppedAsking" \in raced'

LEMMA Stays == ASSUME Well, NEW v \in Tunnels, tunnel'[v] = tunnel[v] PROVE TunnelMoves(v)
BY DEF TunnelMoves, Well, Shapes, Names, TunnelIsNamed

LEMMA EndedIs ==
  ASSUME Well, NEW v \in Tunnels
  PROVE  /\ Ended(v) \in ATunnel /\ Ended(v).token = tunnel[v].token /\ Ended(v).stopped = tunnel[v].stopped
         /\ Ended(v).stage \in {"off", "waiting"}
         /\ tunnel[v].stage = "off" \/ tunnel[v].stopped => Ended(v).stage = "off"
BY DEF Ended, Well, Shapes, ATunnel

LEMMA DroppedIs ==
  ASSUME Well, NEW us \in SUBSET Tunnels, tunnel' = Dropped(us)
  PROVE  tunnel' \in [Tunnels -> ATunnel] /\ \A v \in Tunnels : TunnelMoves(v)
<1>1. ASSUME NEW v \in Tunnels
      PROVE  tunnel'[v] \in ATunnel /\ TunnelMoves(v)
  <2>1. tunnel'[v] = tunnel[v] \/ tunnel'[v] = Ended(v)
    BY DEF Dropped
  <2>2. tunnel[v] \in ATunnel /\ (tunnel[v].stage # "off" => tunnel[v].token # 0)
    BY DEF Well, Shapes, Names, TunnelIsNamed
  <2>. QED BY <2>1, <2>2, EndedIs DEF TunnelMoves
<1>. QED BY <1>1 DEF Dropped

\* One tunnel goes to x and the rest stay.
LEMMA OneTunnel ==
  ASSUME Well, NEW u \in Tunnels, NEW x \in ATunnel, tunnel' = [tunnel EXCEPT ![u] = x], TunnelMoves(u)
  PROVE  tunnel' \in [Tunnels -> ATunnel] /\ \A v \in Tunnels : TunnelMoves(v)
<1>1. ASSUME NEW v \in Tunnels, v # u PROVE TunnelMoves(v)
  BY <1>1, Stays DEF Well, Shapes
<1>. QED BY <1>1 DEF Well, Shapes

LEMMA WithStage ==
  ASSUME Well, NEW u \in Tunnels, NEW st \in {"off", "waiting", "asking", "found", "granted", "connected"}
  PROVE  /\ [tunnel EXCEPT ![u].stage = st] = [tunnel EXCEPT ![u] = [tunnel[u] EXCEPT !.stage = st]]
         /\ [tunnel[u] EXCEPT !.stage = st] \in ATunnel
         /\ [tunnel[u] EXCEPT !.stage = st].stage = st
         /\ [tunnel[u] EXCEPT !.stage = st].token = tunnel[u].token
         /\ [tunnel[u] EXCEPT !.stage = st].stopped = tunnel[u].stopped
BY DEF Well, Shapes, ATunnel

StoppedAt(u, st) == [[tunnel[u] EXCEPT !.stopped = TRUE] EXCEPT !.stage = st]
LEMMA StoppedWithStage ==
  ASSUME Well, NEW u \in Tunnels, NEW st \in {"off", "waiting", "asking", "found", "granted", "connected"}
  PROVE  /\ [tunnel EXCEPT ![u].stopped = TRUE, ![u].stage = st] = [tunnel EXCEPT ![u] = StoppedAt(u, st)]
         /\ StoppedAt(u, st) \in ATunnel /\ StoppedAt(u, st).stage = st
         /\ StoppedAt(u, st).token = tunnel[u].token /\ StoppedAt(u, st).stopped = TRUE
BY DEF Well, Shapes, ATunnel, StoppedAt

LEMMA TunnelActs ==
  ASSUME Well, OnTunnel
  PROVE  tunnel' \in [Tunnels -> ATunnel] /\ \A v \in Tunnels : TunnelMoves(v)
<1>0. \A v \in Tunnels : /\ tunnel[v] \in ATunnel /\ (tunnel[v].stage # "off" => tunnel[v].token # 0)
                         /\ tunnel[v].stopped \in BOOLEAN
  BY DEF Well, Shapes, ATunnel, Names, TunnelIsNamed
<1>1. ASSUME NEW u \in Tunnels, StartTunnel(u)
      PROVE  tunnel' \in [Tunnels -> ATunnel] /\ \A v \in Tunnels : TunnelMoves(v)
  <2>. DEFINE x == [stage |-> "waiting", token |-> disk, stopped |-> FALSE]
  <2>1. x \in ATunnel /\ disk # 0 /\ tunnel' = [tunnel EXCEPT ![u] = x]
    BY <1>1 DEF StartTunnel, Well, Shapes, ATunnel
  <2>2. TunnelMoves(u)
    BY <2>1 DEF TunnelMoves, Well, Shapes
  <2>. QED BY <2>1, <2>2, OneTunnel
<1>2. ASSUME NEW u \in Tunnels, StopTunnel(u)
      PROVE  tunnel' \in [Tunnels -> ATunnel] /\ \A v \in Tunnels : TunnelMoves(v)
  <2>. DEFINE x == StoppedAt(u, Stop(u))
  <2>1. Stop(u) \in {"off", "asking", "found", "granted"} /\ (Asking(u) \/ Stop(u) = "off") /\ (Asking(u) => Stop(u) = tunnel[u].stage)
    BY <1>2 DEF Stop, Asking
  <2>2. x \in ATunnel /\ x.stage = Stop(u) /\ x.token = tunnel[u].token /\ x.stopped = TRUE /\ tunnel' = [tunnel EXCEPT ![u] = x]
    <3>1. Stop(u) \in {"off", "waiting", "asking", "found", "granted", "connected"}
      BY <2>1
    <3>. HIDE DEF Stop
    <3>2. tunnel' = [tunnel EXCEPT ![u].stopped = TRUE, ![u].stage = Stop(u)]
      BY <1>2 DEF StopTunnel
    <3>. QED BY <3>1, <3>2, StoppedWithStage, ZenonT(40)
  <2>3. Asking(u) => "stoppedAsking" \in raced'
    BY <1>2 DEF StopTunnel, NoteIf, Note
  <2>. HIDE DEF x
  <2>4. tunnel'[u] = x
    BY <2>2 DEF Well, Shapes
  <2>5. TunnelMoves(u)
    BY <1>0, <2>1, <2>2, <2>3, <2>4 DEF TunnelMoves, Asking
  <2>. QED BY <2>2, <2>5, OneTunnel
<1>3. ASSUME NEW u \in Tunnels, AskForToken(u)
      PROVE  tunnel' \in [Tunnels -> ATunnel] /\ \A v \in Tunnels : TunnelMoves(v)
  <2>. DEFINE x == [tunnel[u] EXCEPT !.stage = "asking"]
  <2>1. x \in ATunnel /\ x.stage = "asking" /\ x.token = tunnel[u].token /\ x.stopped = tunnel[u].stopped
        /\ tunnel' = [tunnel EXCEPT ![u] = x]
    BY <1>3, WithStage DEF AskForToken
  <2>. HIDE DEF x
  <2>2. TunnelMoves(u)
    BY <1>0, <1>3, <2>1 DEF AskForToken, TunnelMoves, Well, Shapes
  <2>. QED BY <2>1, <2>2, OneTunnel
<1>4. ASSUME NEW u \in Tunnels, NEW st \in {"found", "granted"},
             tunnel[u].stage = IF st = "found" THEN "asking" ELSE "found",
             st = "found" => Answers(tunnel[u].token),
             tunnel' = [tunnel EXCEPT ![u] = [tunnel[u] EXCEPT !.stage = st]]
      PROVE  tunnel' \in [Tunnels -> ATunnel] /\ \A v \in Tunnels : TunnelMoves(v)
  <2>. DEFINE x == [tunnel[u] EXCEPT !.stage = st]
  <2>0. st \in {"off", "waiting", "asking", "found", "granted", "connected"}
    OBVIOUS
  <2>1. x \in ATunnel /\ x.stage = st /\ x.token = tunnel[u].token /\ x.stopped = tunnel[u].stopped
        /\ tunnel' = [tunnel EXCEPT ![u] = x]
    BY <1>4, <2>0, WithStage
  <2>. HIDE DEF x
  <2>2. TunnelMoves(u)
    BY <1>0, <1>4, <2>1 DEF TunnelMoves, Well, Shapes
  <2>. QED BY <2>1, <2>2, OneTunnel
<1>5. ASSUME NEW u \in Tunnels, tunnel' = [tunnel EXCEPT ![u] = Ended(u)]
      PROVE  tunnel' \in [Tunnels -> ATunnel] /\ \A v \in Tunnels : TunnelMoves(v)
  <2>1. TunnelMoves(u)
    BY <1>0, <1>5, EndedIs DEF TunnelMoves, Well, Shapes
  <2>. QED BY <1>5, <2>1, EndedIs, OneTunnel
<1>6. ASSUME NEW u \in Tunnels, FindToken(u) \/ MintToken(u)
      PROVE  tunnel' \in [Tunnels -> ATunnel] /\ \A v \in Tunnels : TunnelMoves(v)
  BY <1>4, <1>5, <1>6 DEF FindToken, MintToken
<1>7. ASSUME NEW u \in Tunnels, Connect(u)
      PROVE  tunnel' \in [Tunnels -> ATunnel] /\ \A v \in Tunnels : TunnelMoves(v)
  <2>. DEFINE d == deviceOf[tunnel[u].token]
  <2>1. CASE ~Admits(d)
    BY <1>7, <2>1, DroppedIs DEF Connect
  <2>2. CASE Admits(d)
    <3>1. tunnel' = [Dropped(Connected(d)) EXCEPT ![u].stage = "connected"] /\ tunnel[u].stage = "granted" /\ d \notin denied
      BY <1>7, <2>2 DEF Connect, Admits
    <3>2. u \notin Connected(d)
      BY <3>1 DEF Connected
    <3>. DEFINE x == [tunnel[u] EXCEPT !.stage = "connected"]
    <3>3. tunnel' = [v \in Tunnels |-> IF v = u THEN x ELSE IF v \in Connected(d) THEN Ended(v) ELSE tunnel[v]]
      BY <3>1, <3>2 DEF Dropped, Well, Shapes
    <3>4. x \in ATunnel /\ x.stage = "connected" /\ x.token = tunnel[u].token /\ x.stopped = tunnel[u].stopped
      BY WithStage
    <3>. HIDE DEF x
    <3>5. TunnelMoves(u)
      BY <1>0, <3>1, <3>3, <3>4 DEF TunnelMoves
    <3>6. ASSUME NEW v \in Tunnels, v # u PROVE TunnelMoves(v)
      BY <1>0, <3>3, <3>6, EndedIs DEF TunnelMoves
    <3>7. tunnel' \in [Tunnels -> ATunnel]
      BY <1>0, <3>3, <3>4, EndedIs
    <3>. QED BY <3>5, <3>6, <3>7
  <2>. QED BY <2>1, <2>2
<1>8. ASSUME NEW u \in Tunnels, Drop(u)
      PROVE  tunnel' \in [Tunnels -> ATunnel] /\ \A v \in Tunnels : TunnelMoves(v)
  BY <1>8, DroppedIs DEF Drop
<1>9. ASSUME GatewayRestarts
      PROVE  tunnel' \in [Tunnels -> ATunnel] /\ \A v \in Tunnels : TunnelMoves(v)
  BY <1>9, DroppedIs DEF GatewayRestarts
<1>10. ASSUME NEW d \in Tokens, DenialAges(d)
      PROVE  tunnel' \in [Tunnels -> ATunnel] /\ \A v \in Tunnels : TunnelMoves(v)
  BY <1>10, Stays DEF DenialAges, Well, Shapes
<1>. QED BY <1>1, <1>2, <1>3, <1>6, <1>7, <1>8, <1>9, <1>10 DEF OnTunnel

\* A denial goes by itself once no attempt needs it, or with the gateway, which is a race.
LEMMA TunnelSpares ==
  ASSUME Well, OnTunnel
  PROVE  /\ UNCHANGED <<code, rowVars, pairing, withdrawal, disk, winners>>
         /\ Issued' = Issued /\ Devices' = Devices
         /\ denied' \subseteq denied /\ raced \subseteq raced' /\ raced' \subseteq Races
         /\ \A d \in denied \ denied' : Attempting(d) = {} \/ "gatewayForgets" \in raced'
         /\ denied' = denied \/ tunnel' = tunnel \/ GatewayRestarts
<1>. USE DEF StartTunnel, StopTunnel, AskForToken, FindToken, MintToken, Connect, Drop, DenialAges, GatewayRestarts
<1>1. UNCHANGED <<code, rowVars, pairing, withdrawal, disk, winners>>
  BY DEF OnTunnel
<1>2. Issued' = Issued /\ Devices' = Devices
  BY <1>1, SameNames DEF rowVars
<1>3. raced \subseteq raced' /\ raced' \subseteq Races
  BY DEF OnTunnel, NoteIf, Note, Well, Shapes
<1>4. /\ denied' \subseteq denied
      /\ \A d \in denied \ denied' : Attempting(d) = {} \/ "gatewayForgets" \in raced'
  BY DEF OnTunnel, NoteIf, Note
<1>5. denied' = denied \/ tunnel' = tunnel \/ GatewayRestarts
  BY DEF OnTunnel
<1>. QED BY <1>1, <1>2, <1>3, <1>4, <1>5

LEMMA MovesKeepNames ==
  ASSUME Well, tunnel' \in [Tunnels -> ATunnel], \A v \in Tunnels : TunnelMoves(v), disk' = disk, Issued' = Issued
  PROVE  TunnelIsNamed'
<1>. SUFFICES ASSUME NEW v \in Tunnels
     PROVE  /\ tunnel'[v].stage # "off" => tunnel'[v].token # 0
            /\ tunnel'[v].token # 0 => tunnel'[v].token \in Issued
  BY DEF TunnelIsNamed
<1>1. tunnel'[v].token = tunnel[v].token \/ tunnel'[v].token = disk
  BY DEF TunnelMoves
<1>2. /\ tunnel[v].token # 0 => tunnel[v].token \in Issued
      /\ disk # 0 => disk \in Issued
  BY DEF Well, Names, TunnelIsNamed
<1>. QED BY <1>1, <1>2 DEF TunnelMoves

LEMMA TunnelKeepsWell ==
  ASSUME Well, OnTunnel
  PROVE  Well'
<1>1. TunnelIsNamed' /\ tunnel' \in [Tunnels -> ATunnel]
  BY TunnelActs, TunnelSpares, MovesKeepNames
<1>2. Shapes'
  BY <1>1, TunnelSpares DEF Well, Shapes, rowVars
<1>3. InOrder' /\ HasDevice' /\ RowsAreNamed' /\ OneRow' /\ HashIsIssued' /\ PairingIsNamed' /\ WithdrawalIsNamed'
  BY TunnelSpares DEF Well, Names, InOrder, HasDevice, RowsAreNamed, OneRow, HashIsIssued, PairingIsNamed,
     WithdrawalIsNamed, Enrolled, rowVars
<1>. QED BY <1>1, <1>2, <1>3, TunnelSpares DEF Well, Names

-------------------------------------------------------------------------------
\* Withdrawals.

\* What an action on a withdrawal does: it finds a device, takes its row, or tells the gateway.
Finds(w, d) == /\ withdrawal[w].stage = "idle" /\ d \in Devices /\ UNCHANGED <<row, hash, denied, tunnel>>
               /\ withdrawal'[w].stage = "found" /\ withdrawal'[w].device = d
Takes(w, d) == /\ withdrawal[w].stage = "found" /\ d = withdrawal[w].device /\ UNCHANGED <<denied, tunnel>>
               /\ row[d] # "removed" /\ withdrawal'[w].stage = "call" /\ withdrawal'[w].device = d
               /\ \E to \in {"revoked", "removed"} : row' = [row EXCEPT ![d] = to]
               /\ hash' = [hash EXCEPT ![d] = 0]
               /\ Allowing(d) # {} => "crossed" \in raced'
GivesUp(w) == /\ withdrawal[w].stage = "found" /\ UNCHANGED <<row, hash, denied, tunnel>>
              /\ withdrawal'[w].stage = "idle" /\ withdrawal'[w].device = 0
Tells(w, d) == /\ withdrawal[w].stage = "call" /\ d = withdrawal[w].device /\ UNCHANGED <<row, hash>>
               /\ withdrawal'[w].stage = "idle" /\ withdrawal'[w].device = 0
               /\ \/ denied' = denied \cup {d} /\ tunnel' = Dropped(Connected(d))
                  \/ "disconnectLost" \in raced' /\ UNCHANGED <<denied, tunnel>>

LEMMA WithdrawalActs ==
  ASSUME Well, OnWithdrawal
  PROVE  \E w \in Withdrawals :
           /\ GivesUp(w) \/ \E d \in Tokens : Finds(w, d) \/ Takes(w, d) \/ Tells(w, d)
           /\ withdrawal'[w] \in AWithdrawal
           /\ withdrawal' = [withdrawal EXCEPT ![w] = withdrawal'[w]]
<1>1. ASSUME NEW w \in Withdrawals PROVE withdrawal[w] \in AWithdrawal /\
         (withdrawal[w].stage # "idle" => withdrawal[w].device \in Tokens)
  BY DEF Well, Shapes, AWithdrawal, Names, WithdrawalIsNamed
<1>2. Devices \subseteq Tokens
  BY DEF Well, Names, HasDevice, Devices, Issued
<1>3. ASSUME NEW w \in Withdrawals, NEW k \in {"revoke", "remove"}, NEW d \in Devices, FindDevice(w, k, d)
      PROVE  /\ Finds(w, d) /\ withdrawal'[w] \in AWithdrawal
             /\ withdrawal' = [withdrawal EXCEPT ![w] = withdrawal'[w]]
  <2>. DEFINE x == [stage |-> "found", kind |-> k, device |-> d]
  <2>1. withdrawal' = [withdrawal EXCEPT ![w] = x] /\ withdrawal[w].stage = "idle"
    BY <1>3 DEF FindDevice, NoWithdrawal
  <2>2. withdrawal'[w] = x
    BY <2>1 DEF Well, Shapes
  <2>3. x \in AWithdrawal /\ x.stage = "found" /\ x.device = d
    BY <1>2 DEF AWithdrawal
  <2>. HIDE DEF x
  <2>. QED BY <1>3, <2>1, <2>2, <2>3 DEF FindDevice, Finds, rowVars
<1>4. ASSUME NEW w \in Withdrawals, Withdraw(w)
      PROVE  /\ Takes(w, withdrawal[w].device) /\ withdrawal'[w] \in AWithdrawal
             /\ withdrawal' = [withdrawal EXCEPT ![w] = withdrawal'[w]]
  <2>. DEFINE x == [withdrawal[w] EXCEPT !.stage = "call"]
  <2>1. withdrawal' = [withdrawal EXCEPT ![w] = x] /\ x \in AWithdrawal /\ x.stage = "call" /\ x.device = withdrawal[w].device
    BY <1>1, <1>4 DEF Withdraw, Well, Shapes, AWithdrawal
  <2>. HIDE DEF x
  <2>2. withdrawal'[w] = x
    BY <2>1 DEF Well, Shapes
  <2>3. Allowing(withdrawal[w].device) # {} => "crossed" \in raced'
    BY <1>4 DEF Withdraw, NoteIf, Note
  <2>. QED BY <1>4, <2>1, <2>2, <2>3 DEF Withdraw, Takes
<1>5. ASSUME NEW w \in Withdrawals, withdrawal' = [withdrawal EXCEPT ![w] = NoWithdrawal]
      PROVE  /\ withdrawal'[w].stage = "idle" /\ withdrawal'[w].device = 0 /\ withdrawal'[w] \in AWithdrawal
             /\ withdrawal' = [withdrawal EXCEPT ![w] = withdrawal'[w]]
  <2>1. withdrawal'[w] = NoWithdrawal
    BY <1>5 DEF Well, Shapes
  <2>2. NoWithdrawal \in AWithdrawal /\ NoWithdrawal.stage = "idle" /\ NoWithdrawal.device = 0
    BY DEF NoWithdrawal, AWithdrawal
  <2>. QED BY <1>5, <2>1, <2>2
<1>6. ASSUME NEW w \in Withdrawals, WithdrawFails(w)
      PROVE  GivesUp(w) /\ withdrawal'[w] \in AWithdrawal /\ withdrawal' = [withdrawal EXCEPT ![w] = withdrawal'[w]]
  BY <1>5, <1>6 DEF WithdrawFails, GivesUp, rowVars
<1>7. ASSUME NEW w \in Withdrawals, Disconnect(w) \/ DisconnectIsLost(w)
      PROVE  /\ Tells(w, withdrawal[w].device) /\ withdrawal'[w] \in AWithdrawal
             /\ withdrawal' = [withdrawal EXCEPT ![w] = withdrawal'[w]]
  BY <1>5, <1>7 DEF Disconnect, DisconnectIsLost, Tells, rowVars, Deny, Note
<1>8. ASSUME NEW w \in Withdrawals, withdrawal[w].stage # "idle"
      PROVE  withdrawal[w].device \in Tokens
  BY <1>1, <1>8
<1>. QED BY <1>2, <1>3, <1>4, <1>6, <1>7, <1>8 DEF OnWithdrawal, Takes, Tells

LEMMA WithdrawalSpares ==
  ASSUME Well, OnWithdrawal
  PROVE  /\ UNCHANGED <<code, deviceOf, pairing, disk, winners>>
         /\ Issued' = Issued /\ Devices' = Devices
         /\ raced \subseteq raced' /\ raced' \subseteq Races
<1>. USE DEF FindDevice, Withdraw, WithdrawFails, Disconnect, DisconnectIsLost
<1>1. UNCHANGED <<code, deviceOf, pairing, disk, winners>>
  BY DEF OnWithdrawal, rowVars
<1>2. raced \subseteq raced' /\ raced' \subseteq Races
  BY DEF OnWithdrawal, NoteIf, Note, Well, Shapes
<1>. QED BY <1>1, <1>2, SameNames

LEMMA WithdrawalKeepsWell ==
  ASSUME Well, OnWithdrawal
  PROVE  Well'
<1>1. PICK w \in Withdrawals :
        /\ GivesUp(w) \/ \E d \in Tokens : Finds(w, d) \/ Takes(w, d) \/ Tells(w, d)
        /\ withdrawal'[w] \in AWithdrawal
        /\ withdrawal' = [withdrawal EXCEPT ![w] = withdrawal'[w]]
  BY WithdrawalActs
<1>2. \A o \in Withdrawals : o # w => withdrawal'[o] = withdrawal[o]
  BY <1>1 DEF Well, Shapes
<1>3. withdrawal' \in [Withdrawals -> AWithdrawal]
  <2>. DEFINE x == withdrawal'[w]
  <2>1. x \in AWithdrawal /\ withdrawal' = [withdrawal EXCEPT ![w] = x]
    BY <1>1
  <2>. HIDE DEF x
  <2>. QED BY <2>1 DEF Well, Shapes
<1>4. WithdrawalIsNamed'
  <2>1. withdrawal'[w].stage # "idle" => withdrawal'[w].device # 0
    BY <1>1 DEF GivesUp, Finds, Takes, Tells, Well, Names, WithdrawalIsNamed, Tokens
  <2>2. withdrawal'[w].device # 0 => withdrawal'[w].device \in Devices
    BY <1>1 DEF GivesUp, Finds, Takes, Tells, Well, Names, WithdrawalIsNamed
  <2>. QED BY <1>2, <2>1, <2>2, WithdrawalSpares DEF WithdrawalIsNamed, Well, Names
<1>5. /\ row' \in [Tokens -> {"none", "active", "revoked", "removed"}]
      /\ \A d \in Tokens : row'[d] # row[d] => row[d] \in {"active", "revoked"} /\ row'[d] \in {"revoked", "removed"}
  <2>1. CASE row' = row
    BY <2>1 DEF Well, Shapes
  <2>2. CASE row' # row
    <3>1. PICK d \in Tokens : Takes(w, d)
      BY <1>1, <2>2 DEF GivesUp, Finds, Tells
    <3>2. d \in Devices
      BY <3>1 DEF Takes, Well, Names, WithdrawalIsNamed
    <3>3. row[d] \in {"active", "revoked"}
      BY <3>1, <3>2 DEF Takes, Well, Names, RowsAreNamed, Shapes
    <3>. QED BY <3>1, <3>3 DEF Takes, Well, Shapes
  <2>. QED BY <2>1, <2>2
<1>6. RowsAreNamed' /\ OneRow'
  <2>1. RowsAreNamed'
    BY <1>5, WithdrawalSpares DEF Well, Names, RowsAreNamed
  <2>2. ASSUME NEW d \in Enrolled' PROVE d \in Enrolled
    <3>1. d \in Devices /\ d \in Tokens /\ row'[d] \in {"active", "revoked"}
      BY WithdrawalSpares DEF Enrolled, Well, Names, HasDevice, Devices, Issued
    <3>. QED BY <1>5, <3>1 DEF Enrolled
  <2>. QED BY <2>1, <2>2 DEF OneRow, Well, Names
<1>7. hash' \in [Tokens -> {0} \cup Tokens] /\ HashIsIssued'
  BY <1>1, WithdrawalSpares DEF GivesUp, Finds, Takes, Tells, Well, Shapes, Names, HashIsIssued
<1>8. tunnel' \in [Tunnels -> ATunnel] /\ \A v \in Tunnels : TunnelMoves(v)
  <2>1. CASE tunnel' = tunnel
    BY <2>1, Stays DEF Well, Shapes
  <2>2. CASE \E d : tunnel' = Dropped(Connected(d))
    BY <2>2, DroppedIs DEF Connected
  <2>. QED BY <1>1, <2>1, <2>2 DEF GivesUp, Finds, Takes, Tells
<1>9. denied' \subseteq Devices
  BY <1>1 DEF GivesUp, Finds, Takes, Tells, Well, Names, WithdrawalIsNamed
<1>10. TunnelIsNamed'
  BY <1>8, WithdrawalSpares, MovesKeepNames
<1>11. Devices \subseteq Tokens
  BY DEF Well, Names, HasDevice, Devices, Issued
<1>12. Shapes'
  BY <1>3, <1>5, <1>7, <1>8, <1>9, <1>11, WithdrawalSpares DEF Well, Shapes
<1>13. InOrder' /\ HasDevice' /\ PairingIsNamed'
  BY WithdrawalSpares DEF Well, Names, InOrder, HasDevice, PairingIsNamed
<1>. QED BY <1>4, <1>6, <1>7, <1>9, <1>10, <1>12, <1>13, WithdrawalSpares DEF Well, Names

LEMMA CodeKeepsWell ==
  ASSUME Well, OnCode
  PROVE  Well'
<1>1. UNCHANGED <<rowVars, pairing, withdrawal, denied, disk, tunnel, winners, raced>>
  BY DEF OnCode, IssueCode, CodeExpires
<1>2. code' \in [Codes -> {"unissued", "issued", "consumed", "expired"}]
  BY DEF OnCode, IssueCode, CodeExpires, Well, Shapes
<1>3. Issued' = Issued /\ Devices' = Devices
  BY <1>1, SameNames DEF rowVars
<1>4. Shapes'
  BY <1>1, <1>2 DEF Well, Shapes, rowVars
<1>5. Names'
  BY <1>1, <1>3 DEF Well, Names, InOrder, HasDevice, RowsAreNamed, OneRow, HashIsIssued, PairingIsNamed,
     WithdrawalIsNamed, TunnelIsNamed, Enrolled, rowVars
<1>. QED BY <1>4, <1>5 DEF Well

LEMMA WellInit == Init => Well
<1>. SUFFICES ASSUME Init PROVE Well
  OBVIOUS
<1>1. 1 \in Tokens
  BY BoundsAssumption DEF Tokens
<1>2. Issued = {1} /\ Devices = {1}
  BY <1>1 DEF Init, Issued, Devices
<1>3. InOrder
  BY <1>2 DEF InOrder
<1>4. Shapes
  BY <1>1 DEF Init, Shapes, APairing, AWithdrawal, ATunnel, NoPairing, NoWithdrawal, Off
<1>5. HasDevice /\ RowsAreNamed /\ OneRow /\ HashIsIssued
  BY <1>1, <1>2 DEF Init, HasDevice, RowsAreNamed, OneRow, HashIsIssued, Enrolled
<1>6. PairingIsNamed /\ WithdrawalIsNamed /\ TunnelIsNamed
  BY DEF Init, PairingIsNamed, WithdrawalIsNamed, TunnelIsNamed, NoPairing, NoWithdrawal, Off
<1>. QED BY <1>2, <1>3, <1>4, <1>5, <1>6 DEF Well, Names, Init

LEMMA WellNext ==
  ASSUME Well, Next
  PROVE  Well'
<1>1. ASSUME NEW p \in Pairings, Enrol(p) PROVE Well'
  BY <1>1, EnrolIs, EnrolKeepsWell
<1>. QED BY <1>1, NextIs, CodeKeepsWell, PairingKeepsWell, WithdrawalKeepsWell, TunnelKeepsWell

LEMMA WellStutters ==
  ASSUME Well, UNCHANGED vars
  PROVE  Well'
<1>1. Issued' = Issued /\ Devices' = Devices
  BY SameNames DEF vars, rowVars
<1>. QED BY <1>1 DEF vars, rowVars, Well, Shapes, Names, InOrder, HasDevice, RowsAreNamed, OneRow, HashIsIssued, PairingIsNamed,
     WithdrawalIsNamed, TunnelIsNamed, Enrolled

\* TypeOK, in the terms of Enrolment.
LEMMA WellIsTyped == Well => TypeOK
<1>. SUFFICES ASSUME Well PROVE TypeOK
  OBVIOUS
<1>1. \A d, e \in Tokens : {row[d], row[e]} \subseteq {"active", "revoked"} => d = e
  BY DEF Well, Names, RowsAreNamed, OneRow, Enrolled
<1>2. hash \in [Tokens -> {0} \cup Issued] /\ deviceOf \in [Tokens -> {0} \cup Issued]
  BY DEF Well, Shapes, Names, HashIsIssued, HasDevice, Issued
<1>3. pairing \in [Pairings -> [stage : {"idle", "sent", "found", "allow", "answer"},
                                code : Codes \cup {"none"}, token : {0} \cup Issued]]
  BY DEF Well, Shapes, APairing, Names, PairingIsNamed
<1>4. withdrawal \in [Withdrawals -> [stage : {"idle", "found", "call"}, kind : {"none", "revoke", "remove"},
                                      device : {0} \cup Devices]]
  BY DEF Well, Shapes, AWithdrawal, Names, WithdrawalIsNamed
<1>5. tunnel \in [Tunnels -> [stage : {"off", "waiting", "asking", "found", "granted", "connected"},
                              token : {0} \cup Issued, stopped : BOOLEAN]]
  BY DEF Well, Shapes, ATunnel, Names, TunnelIsNamed
<1>. QED BY <1>1, <1>2, <1>3, <1>4, <1>5 DEF TypeOK, Well, Shapes, Names

\* Type correctness of Enrolment: a machine has at most one row that is not removed, and every token and
\* device that a row, a request, the deny list, the file or a tunnel names was issued.
THEOREM TypeCorrect == Spec => []TypeOK
<1>1. Well /\ [Next]_vars => Well'
  BY WellNext, WellStutters
<1>. QED BY <1>1, WellInit, WellIsTyped, PTL DEF Spec

-------------------------------------------------------------------------------
\* A code enrols once.

Once == \A c \in Codes : winners[c] = {} \/ (code[c] = "consumed" /\ \E p \in Pairings : winners[c] = {p})

LEMMA OnceStays ==
  ASSUME Well, Once, Next
  PROVE  Once'
<1>1. CASE OnCode
  BY <1>1 DEF OnCode, IssueCode, CodeExpires, Well, Shapes, Once
<1>2. CASE UNCHANGED <<code, winners>>
  BY <1>2 DEF Once
<1>3. ASSUME NEW p \in Pairings, NEW t \in Tokens, NEW d \in Tokens, Enrols(p, t, d)
      PROVE  Once'
  BY <1>3 DEF Enrols, Unconsumed, Well, Shapes, Once
<1>4. CASE OnPairing
  BY <1>2, <1>4 DEF OnPairing, SendPairing, FindCode, LoseTheRace, Allow, AllowIsLost, SavePairing, LosePairing
<1>. QED BY <1>1, <1>2, <1>3, <1>4, EnrolIs, NextIs, WithdrawalSpares, TunnelSpares

\* Two agents racing on one code do not both end up enrolled, for any number of codes and pairings: the code
\* that an enrolment uses up is looked at in the transaction that uses it.
THEOREM OneEnrolmentHolds == Spec => []OneEnrolmentPerCode
<1>1. Init => Well /\ Once
  BY WellInit DEF Init, Once
<1>2. Well /\ Once /\ [Next]_vars => (Well /\ Once)'
  <2>1. ASSUME Once, UNCHANGED vars PROVE Once'
    BY <2>1 DEF vars, Once
  <2>. QED BY <2>1, WellNext, WellStutters, OnceStays
<1>3. Once => OneEnrolmentPerCode
  <2>. SUFFICES ASSUME Once, NEW c \in Codes PROVE Cardinality(winners[c]) <= 1
    BY DEF OneEnrolmentPerCode
  <2>1. CASE winners[c] = {}
    BY <2>1, FS_EmptySet
  <2>2. ASSUME NEW p \in Pairings, winners[c] = {p} PROVE Cardinality(winners[c]) <= 1
    <3>1. Cardinality({p}) = 1
      BY FS_Singleton
    <3>. QED BY <2>2, <3>1
  <2>3. winners[c] = {} \/ \E p \in Pairings : winners[c] = {p}
    BY DEF Once
  <2>. QED BY <2>1, <2>2, <2>3
<1>. QED BY <1>1, <1>2, <1>3, PTL DEF Spec

-------------------------------------------------------------------------------
\* What is stopped stays off.

StaysOff == "stoppedAsking" \notin raced => \A u \in Tunnels : tunnel[u].stopped => tunnel[u].stage = "off"

LEMMA PairingRaces == ASSUME OnPairing PROVE raced \subseteq raced'
BY DEF OnPairing, SendPairing, FindCode, LoseTheRace, Allow, AllowIsLost, SavePairing, LosePairing, NoteIf, Note

LEMMA StaysOffStays ==
  ASSUME Well, StaysOff, Next
  PROVE  StaysOff'
<1>1. ASSUME \A v \in Tunnels : TunnelMoves(v), raced \subseteq raced'
      PROVE  StaysOff'
  BY <1>1 DEF StaysOff, TunnelMoves
<1>2. CASE tunnel' = tunnel /\ raced \subseteq raced'
  BY <1>2 DEF StaysOff
<1>3. CASE OnTunnel
  BY <1>1, <1>3, TunnelActs, TunnelSpares
<1>4. CASE OnWithdrawal
  <2>1. tunnel' = tunnel \/ \E d : tunnel' = Dropped(Connected(d))
    BY <1>4, WithdrawalActs DEF GivesUp, Finds, Takes, Tells
  <2>2. (\E d : tunnel' = Dropped(Connected(d))) => \A v \in Tunnels : TunnelMoves(v)
    BY DroppedIs DEF Connected
  <2>. QED BY <1>1, <1>2, <1>4, <2>1, <2>2, WithdrawalSpares
<1>5. CASE OnPairing
  BY <1>2, <1>5, PairingRaces DEF OnPairing, SendPairing, FindCode, LoseTheRace, Allow, AllowIsLost, SavePairing, LosePairing
<1>6. ASSUME NEW p \in Pairings, Enrol(p) PROVE StaysOff'
  BY <1>2, <1>6, EnrolIs DEF Enrols
<1>7. CASE OnCode
  BY <1>2, <1>7 DEF OnCode, IssueCode, CodeExpires
<1>. QED BY <1>3, <1>4, <1>5, <1>6, <1>7, NextIs

\* A tunnel that was stopped is never connected, for any number of tunnels, unless it was stopped while it asked
\* for its JWT (desktop sharing.ts, AgentTunnel.stop).
THEOREM StoppedIsOffHolds == Spec => []StoppedIsOffUnlessRaced
<1>1. Init => Well /\ StaysOff
  BY WellInit DEF Init, StaysOff, Off
<1>2. Well /\ StaysOff /\ [Next]_vars => (Well /\ StaysOff)'
  <2>1. ASSUME StaysOff, UNCHANGED vars PROVE StaysOff'
    BY <2>1 DEF vars, StaysOff
  <2>. QED BY <2>1, WellNext, WellStutters, StaysOffStays
<1>3. StaysOff => StoppedIsOffUnlessRaced
  BY DEF StaysOff, StoppedIsOffUnlessRaced, Unless
<1>. QED BY <1>1, <1>2, <1>3, PTL DEF Spec

-------------------------------------------------------------------------------
\* What the row says and what the gateway does.

\* A withdrawal and a pairing of one device are not both on their way to the gateway.
Uncrossed ==
  "crossed" \notin raced =>
    \A d \in Devices : /\ Withdrawn(d) => Allowing(d) = {}
                       /\ row[d] = "active" => Disconnecting(d) = {}
\* Once the gateway was told, a withdrawn device has no connection, and no attempt that is not denied.
Cutting == {"disconnectLost", "gatewayForgets", "crossed"}
Cut ==
  raced \cap Cutting = {} =>
    \A d \in Devices : Withdrawn(d) /\ Disconnecting(d) = {} =>
      Connected(d) = {} /\ (Attempting(d) = {} \/ d \in denied)
Welcoming == {"allowLost", "crossed"}
Welcome ==
  raced \cap Welcoming = {} => \A d \in Devices : row[d] = "active" /\ Allowing(d) = {} => d \notin denied
Agrees == Uncrossed /\ Cut /\ Welcome

LEMMA EnrolAgrees ==
  ASSUME Well, Agrees, NEW p \in Pairings, NEW t \in Tokens, NEW d \in Tokens, Enrols(p, t, d)
  PROVE  Agrees'
<1>1. \A x \in Issued : deviceOf'[x] = deviceOf[x] /\ x # t
  BY DEF Enrols, Well, Shapes, Issued
<1>2. row'[d] = "active" /\ \A e \in Tokens : e # d => row'[e] = row[e]
  BY DEF Enrols, Well, Shapes
<1>3. \A e : Connected(e)' = Connected(e) /\ Attempting(e)' = Attempting(e) /\ Disconnecting(e)' = Disconnecting(e)
  <2>1. \A u \in Tunnels : tunnel[u].stage # "off" => tunnel[u].token \in Issued
    BY DEF Well, Names, TunnelIsNamed
  <2>. QED BY <1>1, <2>1 DEF Connected, Attempting, Disconnecting, Enrols
<1>4. /\ p \in Allowing(d)'
      /\ \A e : e # d => Allowing(e)' = Allowing(e)
  <2>1. \A q \in Pairings : pairing[q].stage = "allow" => pairing[q].token \in Issued
    BY DEF Well, Names, PairingIsNamed
  <2>2. \A q \in Pairings : q # p => pairing'[q] = pairing[q]
    BY DEF Enrols, Well, Shapes
  <2>3. pairing'[p].stage = "allow" /\ pairing'[p].token = t /\ pairing[p].stage # "allow"
    BY DEF Enrols, Well, Shapes, APairing
  <2>4. deviceOf'[t] = d
    BY DEF Enrols, Well, Shapes
  <2>. QED BY <1>1, <2>1, <2>2, <2>3, <2>4 DEF Allowing
<1>5. \A e \in Devices' : e # d => e \in Devices /\ e \in Tokens
  BY DEF Enrols, Well, Names, HasDevice, Devices, Issued
<1>6. raced \subseteq raced' /\ (Disconnecting(d) # {} => "crossed" \in raced') /\ denied' = denied
  BY DEF Enrols
<1>7. Uncrossed'
  BY <1>2, <1>3, <1>4, <1>5, <1>6 DEF Agrees, Uncrossed, Withdrawn
<1>8. Cut'
  BY <1>2, <1>3, <1>5, <1>6 DEF Agrees, Cut, Withdrawn
<1>9. Welcome'
  BY <1>2, <1>4, <1>5, <1>6 DEF Agrees, Welcome
<1>. QED BY <1>7, <1>8, <1>9 DEF Agrees

\* The gateway hears of pairings: what it lifts was being allowed, and what is no longer being allowed it
\* has lifted, unless the call was lost.
Told == /\ denied' \subseteq denied /\ \A d \in denied \ denied' : Allowing(d) # {}
        /\ \A d : Allowing(d)' \subseteq Allowing(d)
        /\ \A d : Allowing(d)' # Allowing(d) => d \notin denied' \/ "allowLost" \in raced'
LEMMA PairingTells ==
  ASSUME Well, OnPairing
  PROVE  Told
<1>1. UNCHANGED deviceOf
  BY DEF OnPairing, SendPairing, FindCode, LoseTheRace, Allow, AllowIsLost, SavePairing, LosePairing, rowVars
<1>2. ASSUME NEW p \in Pairings, Allow(p) \/ AllowIsLost(p)
      PROVE  Told
  <2>. DEFINE a == deviceOf[pairing[p].token]
  <2>1. pairing[p].stage = "allow" /\ pairing' = [pairing EXCEPT ![p].stage = "answer"]
    BY <1>2 DEF Allow, AllowIsLost
  <2>2. pairing'[p].stage = "answer" /\ \A q \in Pairings : q # p => pairing'[q] = pairing[q]
    BY <2>1 DEF Well, Shapes, APairing
  <2>3. \A d : Allowing(d)' = Allowing(d) \ {p}
    BY <1>1, <2>2 DEF Allowing
  <2>4. p \in Allowing(a) /\ \A d : p \in Allowing(d) => d = a
    BY <2>1 DEF Allowing
  <2>5. denied' = denied \ {a} \/ (denied' = denied /\ "allowLost" \in raced')
    BY <1>2 DEF Allow, AllowIsLost, Lift, Note
  <2>. HIDE DEF a
  <2>6. \A d : Allowing(d)' # Allowing(d) => d = a
    BY <2>3, <2>4
  <2>7. denied' \subseteq denied /\ \A d \in denied \ denied' : Allowing(d) # {}
    BY <2>4, <2>5
  <2>. QED BY <2>3, <2>5, <2>6, <2>7 DEF Told
<1>3. ASSUME NEW p \in Pairings, NEW c \in Codes,
             SendPairing(p, c) \/ FindCode(p) \/ LoseTheRace(p) \/ SavePairing(p) \/ LosePairing(p)
      PROVE  Told
  <2>1. denied' = denied /\ pairing[p].stage # "allow"
    <3>1. NoPairing.stage # "allow"
      BY DEF NoPairing
    <3>. QED BY <1>3, <3>1 DEF SendPairing, FindCode, LoseTheRace, SavePairing, LosePairing
  <2>2. \E x : x.stage # "allow" /\ pairing' = [pairing EXCEPT ![p] = x]
    <3>1. CASE SendPairing(p, c)
      <4>1. [NoPairing EXCEPT !.stage = "sent", !.code = c].stage # "allow"
        BY DEF NoPairing
      <4>. QED BY <3>1, <4>1 DEF SendPairing
    <3>2. CASE pairing' = [pairing EXCEPT ![p] = NoPairing]
      BY <3>2 DEF NoPairing
    <3>3. CASE pairing' = [pairing EXCEPT ![p] = [pairing[p] EXCEPT !.stage = "found"]]
      <4>1. [pairing[p] EXCEPT !.stage = "found"].stage # "allow"
        BY DEF Well, Shapes, APairing
      <4>. QED BY <3>3, <4>1
    <3>. QED BY <1>3, <3>1, <3>2, <3>3 DEF FindCode, LoseTheRace, SavePairing, LosePairing
  <2>3. pairing'[p].stage # "allow" /\ \A q \in Pairings : q # p => pairing'[q] = pairing[q]
    BY <2>2 DEF Well, Shapes
  <2>4. \A d : Allowing(d)' = Allowing(d)
    BY <1>1, <2>1, <2>3 DEF Allowing
  <2>. QED BY <2>1, <2>4 DEF Told
<1>4. ASSUME NEW p \in Pairings, FindCode(p) \/ LoseTheRace(p) \/ SavePairing(p) \/ LosePairing(p)
      PROVE  Told
  <2>1. pairing[p].code \in Codes
    BY <1>4 DEF FindCode, LoseTheRace, SavePairing, LosePairing, Well, Names, PairingIsNamed
  <2>. QED BY <1>3, <1>4, <2>1
<1>. QED BY <1>2, <1>3, <1>4 DEF OnPairing

LEMMA PairingAgrees ==
  ASSUME Well, Agrees, OnPairing
  PROVE  Agrees'
<1>1. UNCHANGED <<rowVars, withdrawal, tunnel>> /\ raced \subseteq raced'
  BY PairingRaces DEF OnPairing, SendPairing, FindCode, LoseTheRace, Allow, AllowIsLost, SavePairing, LosePairing
<1>2. /\ Devices' = Devices
      /\ \A e : Connected(e)' = Connected(e) /\ Attempting(e)' = Attempting(e) /\ Disconnecting(e)' = Disconnecting(e)
  BY <1>1, SameNames DEF rowVars, Connected, Attempting, Disconnecting
<1>3. Uncrossed'
  BY <1>1, <1>2, PairingTells DEF Told, rowVars, Agrees, Uncrossed, Withdrawn
<1>4. Cut'
  <2>. SUFFICES ASSUME raced' \cap Cutting = {}, NEW d \in Devices, Withdrawn(d), Disconnecting(d) = {}
       PROVE  Connected(d) = {} /\ (Attempting(d) = {} \/ d \in denied')
    BY <1>1, <1>2 DEF Cut, Withdrawn, rowVars
  <2>1. Connected(d) = {} /\ (Attempting(d) = {} \/ d \in denied) /\ Allowing(d) = {}
    BY <1>1 DEF Agrees, Cut, Uncrossed, Cutting
  <2>. QED BY <2>1, PairingTells DEF Told
<1>5. Welcome'
  <2>. SUFFICES ASSUME raced' \cap Welcoming = {}, NEW d \in Devices, row[d] = "active", Allowing(d)' = {}
       PROVE  d \notin denied'
    BY <1>1, <1>2 DEF Welcome, rowVars
  <2>. QED BY <1>1, PairingTells DEF Told, Agrees, Welcome, Welcoming
<1>. QED BY <1>3, <1>4, <1>5 DEF Agrees

LEMMA DroppedCuts ==
  ASSUME Well, NEW us \in SUBSET Tunnels, tunnel' = Dropped(us), deviceOf' = deviceOf
  PROVE  \A e : Connected(e)' = Connected(e) \ us /\ Attempting(e)' \subseteq Attempting(e)
<1>1. ASSUME NEW v \in Tunnels
      PROVE  IF v \in us THEN tunnel'[v].stage \in {"off", "waiting"} ELSE tunnel'[v] = tunnel[v]
  BY EndedIs DEF Dropped
<1>. QED BY <1>1 DEF Connected, Attempting

LEMMA WithdrawalAgrees ==
  ASSUME Well, Agrees, OnWithdrawal
  PROVE  Agrees'
<1>1. PICK w \in Withdrawals :
        /\ GivesUp(w) \/ \E d \in Tokens : Finds(w, d) \/ Takes(w, d) \/ Tells(w, d)
        /\ withdrawal' = [withdrawal EXCEPT ![w] = withdrawal'[w]]
  BY WithdrawalActs
<1>2. \A o \in Withdrawals : o # w => withdrawal'[o] = withdrawal[o]
  BY <1>1 DEF Well, Shapes
<1>3. /\ deviceOf' = deviceOf /\ Devices' = Devices /\ raced \subseteq raced'
      /\ \A e : Allowing(e)' = Allowing(e)
  BY WithdrawalSpares DEF Allowing
<1>4. ASSUME tunnel' = tunnel
      PROVE  \A e : Connected(e)' = Connected(e) /\ Attempting(e)' = Attempting(e)
  BY <1>3, <1>4 DEF Connected, Attempting
<1>5. ASSUME UNCHANGED <<row, denied, tunnel>>, \A e : Disconnecting(e)' = Disconnecting(e)
      PROVE  Agrees'
  BY <1>3, <1>4, <1>5 DEF Agrees, Uncrossed, Cut, Welcome, Withdrawn
<1>6. CASE GivesUp(w) \/ \E d \in Tokens : Finds(w, d)
  <2>1. withdrawal[w].stage # "call" /\ withdrawal'[w].stage # "call" /\ UNCHANGED <<row, denied, tunnel>>
    BY <1>6 DEF GivesUp, Finds
  <2>2. \A e : Disconnecting(e)' = Disconnecting(e)
    BY <1>2, <2>1 DEF Disconnecting
  <2>. QED BY <1>5, <2>1, <2>2
<1>7. ASSUME NEW d \in Tokens, Takes(w, d) PROVE Agrees'
  <2>1. withdrawal[w].stage # "call" /\ withdrawal'[w].stage = "call" /\ withdrawal'[w].device = d
    BY <1>7 DEF Takes
  <2>2. w \in Disconnecting(d)' /\ \A e : e # d => Disconnecting(e)' = Disconnecting(e)
    BY <1>2, <2>1 DEF Disconnecting
  <2>3. row'[d] \in {"revoked", "removed"} /\ \A e \in Tokens : e # d => row'[e] = row[e]
    BY <1>7 DEF Takes, Well, Shapes
  <2>4. UNCHANGED <<denied, tunnel>> /\ (Allowing(d) # {} => "crossed" \in raced')
    BY <1>7 DEF Takes
  <2>5. Devices \subseteq Tokens
    BY DEF Well, Names, HasDevice, Devices, Issued
  <2>6. Uncrossed'
    BY <1>3, <2>2, <2>3, <2>4, <2>5 DEF Agrees, Uncrossed, Withdrawn
  <2>7. Cut'
    BY <1>3, <1>4, <2>2, <2>3, <2>4, <2>5 DEF Agrees, Cut, Withdrawn
  <2>8. Welcome'
    BY <1>3, <2>3, <2>4, <2>5 DEF Agrees, Welcome
  <2>. QED BY <2>6, <2>7, <2>8 DEF Agrees
<1>8. ASSUME NEW d \in Tokens, Tells(w, d) PROVE Agrees'
  <2>1. /\ withdrawal[w].stage = "call" /\ withdrawal[w].device = d /\ withdrawal'[w].stage # "call"
        /\ row' = row
    BY <1>8 DEF Tells
  <2>2. w \in Disconnecting(d) /\ \A e : Disconnecting(e)' \subseteq Disconnecting(e)
    BY <1>2, <2>1 DEF Disconnecting
  <2>3. \A e : e # d => Disconnecting(e)' = Disconnecting(e)
    BY <1>2, <2>1 DEF Disconnecting
  <2>4. Uncrossed'
    BY <1>3, <2>1, <2>2 DEF Agrees, Uncrossed, Withdrawn
  <2>5. CASE "disconnectLost" \in raced' /\ UNCHANGED <<denied, tunnel>>
    <3>1. Cut'
      BY <2>5 DEF Cut, Cutting
    <3>2. Welcome'
      BY <1>3, <2>1, <2>5 DEF Agrees, Welcome
    <3>. QED BY <2>4, <3>1, <3>2 DEF Agrees
  <2>6. CASE denied' = denied \cup {d} /\ tunnel' = Dropped(Connected(d))
    <3>1. \A e : Connected(e)' = Connected(e) \ Connected(d) /\ Attempting(e)' \subseteq Attempting(e)
      BY <1>3, <2>6, DroppedCuts DEF Connected
    <3>2. Cut'
      <4>. SUFFICES ASSUME raced' \cap Cutting = {}, NEW e \in Devices, Withdrawn(e), Disconnecting(e)' = {}
           PROVE  Connected(e)' = {} /\ (Attempting(e)' = {} \/ e \in denied')
        BY <1>3, <2>1 DEF Cut, Withdrawn
      <4>1. CASE e = d
        BY <2>6, <3>1, <4>1
      <4>2. CASE e # d
        <5>1. Connected(e) = {} /\ (Attempting(e) = {} \/ e \in denied)
          BY <1>3, <2>3, <4>2 DEF Agrees, Cut
        <5>. QED BY <2>6, <3>1, <5>1
      <4>. QED BY <4>1, <4>2
    <3>3. Welcome'
      <4>. SUFFICES ASSUME raced' \cap Welcoming = {}, NEW e \in Devices, row[e] = "active", Allowing(e) = {}
           PROVE  e \notin denied'
        BY <1>3, <2>1 DEF Welcome
      <4>1. e # d /\ e \notin denied
        BY <1>3, <2>2 DEF Agrees, Uncrossed, Welcome, Welcoming
      <4>. QED BY <2>6, <4>1
    <3>. QED BY <2>4, <3>2, <3>3 DEF Agrees
  <2>. QED BY <1>8, <2>5, <2>6 DEF Tells
<1>. QED BY <1>1, <1>6, <1>7, <1>8

LEMMA TunnelAgrees ==
  ASSUME Well, Agrees, OnTunnel
  PROVE  Agrees'
<1>1. /\ UNCHANGED <<row, hash, deviceOf>> /\ Devices' = Devices /\ denied' \subseteq denied /\ raced \subseteq raced'
      /\ \A e \in denied \ denied' : Attempting(e) = {} \/ "gatewayForgets" \in raced'
      /\ \A e : Allowing(e)' = Allowing(e) /\ Disconnecting(e)' = Disconnecting(e)
  BY TunnelSpares DEF rowVars, Allowing, Disconnecting
<1>2. Uncrossed'
  BY <1>1 DEF Agrees, Uncrossed, Withdrawn
<1>3. Welcome'
  BY <1>1 DEF Agrees, Welcome
<1>4. Cut'
  <2>. SUFFICES ASSUME raced' \cap Cutting = {}, NEW d \in Devices, Withdrawn(d), Disconnecting(d) = {}
       PROVE  Connected(d)' = {} /\ (Attempting(d)' = {} \/ d \in denied')
    BY <1>1 DEF Cut, Withdrawn
  <2>1. Connected(d) = {} /\ (Attempting(d) = {} \/ d \in denied)
    BY <1>1 DEF Agrees, Cut
  <2>2. ASSUME NEW v \in Tunnels, tunnel'[v].stage \in {"found", "granted", "connected"}
        PROVE  tunnel'[v].token = tunnel[v].token
    BY <2>2, TunnelActs DEF TunnelMoves
  <2>3. ASSUME NEW v \in Attempting(d)' PROVE v \in Attempting(d)
    <3>1. v \in Tunnels /\ tunnel'[v].stage \in {"found", "granted"} /\ deviceOf[tunnel[v].token] = d
      BY <1>1, <2>2 DEF Attempting
    <3>2. ~Answers(tunnel[v].token)
      BY <3>1 DEF Answers, Withdrawn
    <3>3. tunnel[v].stage \in {"found", "granted"}
      BY <3>1, <3>2, TunnelActs DEF TunnelMoves
    <3>. QED BY <3>1, <3>3 DEF Attempting
  <2>4. ASSUME NEW v \in Connected(d)' PROVE FALSE
    <3>1. v \in Tunnels /\ tunnel'[v].stage = "connected" /\ deviceOf[tunnel[v].token] = d
      BY <1>1, <2>2 DEF Connected
    <3>2. tunnel[v].stage = "connected" \/ (tunnel[v].stage = "granted" /\ d \notin denied)
      BY <3>1, TunnelActs DEF TunnelMoves
    <3>. QED BY <2>1, <3>1, <3>2 DEF Connected, Attempting
  <2>. QED BY <1>1, <2>1, <2>3, <2>4 DEF Cutting
<1>. QED BY <1>2, <1>3, <1>4 DEF Agrees

LEMMA AgreesInit == Init => Agrees
<1>. SUFFICES ASSUME Init PROVE Agrees
  OBVIOUS
<1>1. 1 \in Tokens
  BY BoundsAssumption DEF Tokens
<1>2. Devices = {1} /\ row[1] = "active"
  BY <1>1 DEF Init, Issued, Devices
<1>3. \A d : Allowing(d) = {} /\ Disconnecting(d) = {}
  BY DEF Init, Allowing, Disconnecting, NoPairing, NoWithdrawal
<1>. QED BY <1>2, <1>3 DEF Init, Agrees, Uncrossed, Cut, Welcome, Withdrawn

LEMMA AgreesStays ==
  ASSUME Well, Agrees, [Next]_vars
  PROVE  Agrees'
<1>1. CASE UNCHANGED <<rowVars, pairing, withdrawal, denied, tunnel, raced>>
  BY <1>1, SameNames DEF rowVars, Agrees, Uncrossed, Cut, Welcome, Withdrawn, Connected, Attempting, Allowing, Disconnecting
<1>2. CASE OnCode
  BY <1>1, <1>2 DEF OnCode, IssueCode, CodeExpires
<1>3. CASE UNCHANGED vars
  BY <1>1, <1>3 DEF vars
<1>4. ASSUME NEW p \in Pairings, Enrol(p) PROVE Agrees'
  BY <1>4, EnrolIs, EnrolAgrees
<1>. QED BY <1>2, <1>3, <1>4, NextIs, PairingAgrees, WithdrawalAgrees, TunnelAgrees

\* A revocation or a removal that has been answered has ended the machine's connection and lets none come back,
\* for any number of machines, tunnels and requests, unless its call was lost, forgotten or crossed a pairing's
\* (api routes/modules/agents.ts, gateway agents/registry.ts).
THEOREM WithdrawnIsCutHolds == Spec => []WithdrawnIsCutUnlessRaced
<1>1. Init => Well /\ Agrees
  BY WellInit, AgreesInit
<1>2. Well /\ Agrees /\ [Next]_vars => (Well /\ Agrees)'
  BY WellNext, WellStutters, AgreesStays
<1>3. Agrees => WithdrawnIsCutUnlessRaced
  BY DEF Agrees, Cut, Cutting, WithdrawnIsCutUnlessRaced, Unless
<1>. QED BY <1>1, <1>2, <1>3, PTL DEF Spec

\* A machine whose pairing is answered is refused no more by the gateway, for any number of machines and requests,
\* unless the call that says so was lost or crossed a withdrawal's (docs/agent.md).
THEOREM PairedIsWelcomeHolds == Spec => []PairedIsWelcomeUnlessRaced
<1>1. Init => Well /\ Agrees
  BY WellInit, AgreesInit
<1>2. Well /\ Agrees /\ [Next]_vars => (Well /\ Agrees)'
  BY WellNext, WellStutters, AgreesStays
<1>3. Agrees => PairedIsWelcomeUnlessRaced
  BY DEF Agrees, Welcome, Welcoming, PairedIsWelcomeUnlessRaced, Unless
<1>. QED BY <1>1, <1>2, <1>3, PTL DEF Spec

-------------------------------------------------------------------------------
\* The row and the machine's file.

\* Pairings come one at a time, and the token an active row answers to is on its way or, when nothing is, in the file.
Alone == \A p, q \in Pairings : pairing[p] # NoPairing /\ pairing[q] # NoPairing => p = q
Held(d) == \/ \E p \in Pairings : pairing[p].token # 0 /\ pairing[p].token = hash[d]
           \/ (\A p \in Pairings : pairing[p].token = 0) /\ disk = hash[d]
Holding == {"answerLost", "pairedTwice"}
Holds == raced \cap Holding = {} => Alone /\ \A d \in Devices : row[d] = "active" => Held(d)

LEMMA SameTokens ==
  ASSUME Holds, UNCHANGED <<rowVars, disk>>, raced \subseteq raced',
         \A q \in Pairings : pairing'[q].token = pairing[q].token, raced' \cap Holding = {} => Alone'
  PROVE  Holds'
BY SameNames DEF Holds, Held, rowVars

LEMMA PairingHolds ==
  ASSUME Well, Holds, OnPairing
  PROVE  Holds'
<1>0. /\ NoPairing.token = 0 /\ NoPairing.stage = "idle"
      /\ \A q \in Pairings : pairing[q] \in APairing
  BY DEF NoPairing, Well, Shapes
<1>1. ASSUME NEW p \in Pairings, NEW c \in Codes, SendPairing(p, c) PROVE Holds'
  <2>. DEFINE x == [NoPairing EXCEPT !.stage = "sent", !.code = c]
  <2>1. x.token = 0
    BY DEF NoPairing
  <2>2. pairing[p] = NoPairing /\ pairing' = [pairing EXCEPT ![p] = x]
    BY <1>1 DEF SendPairing
  <2>. HIDE DEF x
  <2>3. \A q \in Pairings : pairing'[q].token = pairing[q].token
    BY <1>0, <2>1, <2>2 DEF Well, Shapes
  <2>4. raced \subseteq raced' /\ ((\E q \in Pairings \ {p} : pairing[q] # NoPairing) => "pairedTwice" \in raced')
    BY <1>1 DEF SendPairing, NoteIf, Note
  <2>5. raced' \cap Holding = {} => Alone'
    BY <2>2, <2>4 DEF Alone, Holding, Well, Shapes
  <2>. QED BY <1>1, <2>3, <2>4, <2>5, SameTokens DEF SendPairing
<1>2. ASSUME NEW p \in Pairings, pairing[p] # NoPairing, NEW x, pairing' = [pairing EXCEPT ![p] = x],
             x.token = pairing[p].token, UNCHANGED <<rowVars, disk>>, raced \subseteq raced'
      PROVE  Holds'
  <2>1. \A q \in Pairings : pairing'[q].token = pairing[q].token
    BY <1>2 DEF Well, Shapes
  <2>2. \A q \in Pairings : pairing'[q] # NoPairing => pairing[q] # NoPairing
    BY <1>2 DEF Well, Shapes
  <2>3. raced' \cap Holding = {} => Alone'
    BY <1>2, <2>2 DEF Holds, Alone
  <2>. QED BY <1>2, <2>1, <2>3, SameTokens
<1>3. ASSUME NEW p \in Pairings, FindCode(p) \/ LoseTheRace(p) PROVE Holds'
  <2>1. pairing[p] # NoPairing /\ pairing[p].token = 0 /\ UNCHANGED <<rowVars, disk, raced>>
    BY <1>0, <1>3 DEF FindCode, LoseTheRace, Well, Names, PairingIsNamed
  <2>2. [pairing[p] EXCEPT !.stage = "found"].token = pairing[p].token
    BY <1>0 DEF APairing
  <2>3. \/ pairing' = [pairing EXCEPT ![p] = NoPairing]
        \/ pairing' = [pairing EXCEPT ![p] = [pairing[p] EXCEPT !.stage = "found"]]
    BY <1>3 DEF FindCode, LoseTheRace
  <2>. QED BY <1>0, <1>2, <2>1, <2>2, <2>3
<1>4. ASSUME NEW p \in Pairings, Allow(p) \/ AllowIsLost(p) PROVE Holds'
  <2>. DEFINE x == [pairing[p] EXCEPT !.stage = "answer"]
  <2>1. pairing[p] # NoPairing /\ UNCHANGED <<rowVars, disk>> /\ raced \subseteq raced'
    BY <1>0, <1>4 DEF Allow, AllowIsLost, Note
  <2>2. x.token = pairing[p].token
    BY <1>0 DEF APairing
  <2>3. pairing' = [pairing EXCEPT ![p] = x]
    BY <1>0, <1>4 DEF Allow, AllowIsLost, Well, Shapes
  <2>. HIDE DEF x
  <2>. QED BY <1>2, <2>1, <2>2, <2>3
<1>5. ASSUME NEW p \in Pairings, SavePairing(p) PROVE Holds'
  <2>1. /\ pairing[p].stage = "answer" /\ disk' = pairing[p].token /\ pairing' = [pairing EXCEPT ![p] = NoPairing]
        /\ UNCHANGED rowVars /\ raced \subseteq raced'
    BY <1>5 DEF SavePairing, NoteIf, Note
  <2>2. pairing[p].token # 0 /\ pairing[p] # NoPairing
    BY <1>0, <2>1 DEF Well, Names, PairingIsNamed
  <2>. SUFFICES ASSUME raced' \cap Holding = {} PROVE Alone' /\ \A d \in Devices : row[d] = "active" => Held(d)'
    BY <2>1, SameNames DEF Holds, rowVars
  <2>3. Alone /\ \A d \in Devices : row[d] = "active" => Held(d)
    BY <2>1 DEF Holds
  <2>4. \A q \in Pairings : pairing'[q] = NoPairing
    BY <2>1, <2>2, <2>3 DEF Alone, Well, Shapes
  <2>5. \A q \in Pairings : q # p => pairing[q].token = 0
    BY <1>0, <2>2, <2>3 DEF Alone
  <2>6. ASSUME NEW d \in Devices, row[d] = "active" PROVE Held(d)'
    <3>1. hash[d] = pairing[p].token
      BY <2>2, <2>3, <2>5, <2>6 DEF Held
    <3>. QED BY <1>0, <2>1, <2>4, <3>1 DEF Held, rowVars
  <2>. QED BY <2>4, <2>6 DEF Alone
<1>6. ASSUME NEW p \in Pairings, LosePairing(p) PROVE Holds'
  <2>1. CASE pairing[p].stage = "answer"
    <3>1. "answerLost" \in raced'
      BY <1>6, <2>1 DEF LosePairing, NoteIf, Note
    <3>. QED BY <3>1 DEF Holds, Holding
  <2>2. CASE pairing[p].stage = "sent"
    <3>1. pairing[p].token = 0 /\ pairing[p] # NoPairing /\ UNCHANGED <<rowVars, disk>> /\ raced \subseteq raced'
      BY <1>0, <1>6, <2>2 DEF LosePairing, NoteIf, Note, Well, Names, PairingIsNamed
    <3>2. pairing' = [pairing EXCEPT ![p] = NoPairing]
      BY <1>6 DEF LosePairing
    <3>. QED BY <1>0, <1>2, <3>1, <3>2
  <2>. QED BY <1>6, <2>1, <2>2 DEF LosePairing
<1>. QED BY <1>1, <1>3, <1>4, <1>5, <1>6 DEF OnPairing

LEMMA EnrolHolds ==
  ASSUME Well, Holds, NEW p \in Pairings, NEW t \in Tokens, NEW d \in Tokens, Enrols(p, t, d)
  PROVE  Holds'
<1>1. pairing'[p].token = t /\ t # 0 /\ hash'[d] = t /\ row'[d] = "active" /\ pairing[p] # NoPairing
  BY DEF Enrols, Well, Shapes, APairing, Tokens, NoPairing
<1>2. \A q \in Pairings : q # p => pairing'[q] = pairing[q]
  BY DEF Enrols, Well, Shapes
<1>3. raced \subseteq raced'
  BY DEF Enrols
<1>4. \A e \in Devices' : row'[e] = "active" => e = d
  <2>1. OneRow'
    BY EnrolKeepsWell DEF Well, Names
  <2>2. d \in Devices'
    BY DEF Enrols
  <2>. QED BY <1>1, <2>1, <2>2 DEF OneRow, Enrolled
<1>5. Held(d)'
  BY <1>1 DEF Held
<1>6. Alone => Alone'
  BY <1>1, <1>2 DEF Alone
<1>. QED BY <1>3, <1>4, <1>5, <1>6 DEF Holds

LEMMA WithdrawalHolds ==
  ASSUME Well, Holds, OnWithdrawal
  PROVE  Holds'
<1>1. PICK w \in Withdrawals : GivesUp(w) \/ \E d \in Tokens : Finds(w, d) \/ Takes(w, d) \/ Tells(w, d)
  BY WithdrawalActs
<1>2. \A e \in Devices : row'[e] = "active" => row[e] = "active" /\ hash'[e] = hash[e]
  <2>1. CASE UNCHANGED <<row, hash>>
    BY <2>1
  <2>2. ASSUME NEW d \in Tokens, Takes(w, d)
        PROVE  \A e \in Devices : row'[e] = "active" => row[e] = "active" /\ hash'[e] = hash[e]
    <3>1. Devices \subseteq Tokens
      BY DEF Well, Names, HasDevice, Devices, Issued
    <3>. QED BY <2>2, <3>1 DEF Takes, Well, Shapes
  <2>. QED BY <1>1, <2>1, <2>2 DEF GivesUp, Finds, Tells
<1>3. UNCHANGED <<pairing, disk>> /\ Devices' = Devices /\ raced \subseteq raced'
  BY WithdrawalSpares
<1>. QED BY <1>2, <1>3 DEF Holds, Alone, Held

LEMMA HoldsStays ==
  ASSUME Well, Holds, [Next]_vars
  PROVE  Holds'
<1>1. CASE UNCHANGED <<rowVars, pairing, disk>> /\ raced \subseteq raced'
  BY <1>1, SameNames DEF rowVars, Holds, Alone, Held
<1>2. CASE OnCode
  BY <1>1, <1>2 DEF OnCode, IssueCode, CodeExpires
<1>3. CASE OnTunnel
  BY <1>1, <1>3, TunnelSpares
<1>4. CASE UNCHANGED vars
  BY <1>1, <1>4 DEF vars
<1>5. ASSUME NEW p \in Pairings, Enrol(p) PROVE Holds'
  BY <1>5, EnrolIs, EnrolHolds
<1>. QED BY <1>2, <1>3, <1>4, <1>5, NextIs, PairingHolds, WithdrawalHolds

\* Once no pairing is under way, the token in the machine's file is the one its active row answers to, for any number
\* of codes and pairings, unless the answer with the new token was lost or two pairings were under way at once
\* (api routes/modules/agents.ts, agent pair.ts).
THEOREM HoldsItsTokenHolds == Spec => []HoldsItsTokenUnlessRaced
<1>1. Init => Well /\ Holds
  <2>. SUFFICES ASSUME Init PROVE Holds
    BY WellInit
  <2>1. 1 \in Tokens
    BY BoundsAssumption DEF Tokens
  <2>2. Devices = {1} /\ hash[1] = 1 /\ disk = 1
    BY <2>1 DEF Init, Issued, Devices
  <2>. QED BY <2>2 DEF Init, Holds, Alone, Held, NoPairing
<1>2. Well /\ Holds /\ [Next]_vars => (Well /\ Holds)'
  BY WellNext, WellStutters, HoldsStays
<1>3. Well /\ Holds => HoldsItsTokenUnlessRaced
  BY DEF Holds, Held, Holding, HoldsItsTokenUnlessRaced, Unless
<1>. QED BY <1>1, <1>2, <1>3, PTL DEF Spec

-----------------------------------------------------------------------------
(* A transfer: what every value is.                                          *)

ToAgentFrames == [t : ToAgent, n : Nat]
ToGatewayFrames == [t : ToGateway, n : Nat]
AReader == [state : {"active", "ended", "done", "failed", "cancelled"},
            buffer : Seq(Chunks), taken : Seq(Chunks), owed : Nat, reading : BOOLEAN]
AWriter == [state : PendingStates \cup {"idle", "done", "failed"}, next : Nat \ {0},
            credit : Int, failure : BOOLEAN, destroyed : BOOLEAN]
AHandle == [state : {"none", "opening", "open", "closed"}, listed : BOOLEAN, cut : BOOLEAN,
            credit : Int, next : Nat \ {0}, paused : BOOLEAN,
            got : Seq(Chunks), flushed : Nat, since : Nat,
            draining : BOOLEAN, ending : BOOLEAN]

Values ==
  /\ kind \in {"read", "write"} /\ file \in Files
  /\ made \in Conns /\ dialled \in {0, made} /\ socket \in {0, made} /\ open \subseteq 1 .. made
  /\ up \in [Conns -> Seq(ToGatewayFrames)]
  /\ down \in [Conns -> Seq(ToAgentFrames)]
  /\ rpc \in {"pending", "resolved", "rejected"} /\ sink \in BOOLEAN
  /\ reader \in AReader /\ writer \in AWriter
  /\ handle \in AHandle /\ handle.flushed <= Len(handle.got)
  /\ lapsed \subseteq StreamRaces

\* Frames travel on the connection in use, or wait on one the gateway still reads.
Travels ==
  /\ socket # 0 => socket \in open
  /\ \A c \in Conns : (up[c] # <<>> => c \in open) /\ (down[c] # <<>> => c = dialled)

\* Chunks are chunks of the file and go one way, credit the other.
OneWay ==
  /\ \A c \in Conns : \A i \in DOMAIN up[c] :
       /\ up[c][i].t = "data" => kind = "read" /\ up[c][i].n \in Chunks
       /\ up[c][i].t = "credit" => kind = "write"
  /\ \A c \in Conns : \A i \in DOMAIN down[c] :
       /\ down[c][i].t = "data" => kind = "write" /\ down[c][i].n \in Chunks
       /\ down[c][i].t = "credit" => kind = "read"
Measured ==
  /\ handle.next <= Len(file) + 1 /\ writer.next <= Len(file) + 1
  /\ writer.state \in {"opening", "waiting"} => writer.next <= Len(file)
  /\ handle.listed <=> handle.state = "open"
  /\ kind = "read" => writer = NewWriter /\ handle.got = <<>>
  /\ kind = "write" => reader = NewReader

\* The call that opens the stream is sent once, before anything else.
OneOpen ==
  \A c \in Conns : \A i \in DOMAIN down[c] :
    down[c][i].t = "open" => i = 1 /\ c = 1 /\ handle.state = "none"

Transfer == Values /\ Travels /\ OneWay /\ Measured /\ OneOpen

-----------------------------------------------------------------------------
(* What a queue holds after it grows, shrinks or is emptied.                 *)

LEMMA FileSizes ==
  ASSUME file \in Files
  PROVE  Len(file) \in Nat /\ DOMAIN file = Chunks /\ \A n \in Chunks : file[n] \in Nat \ {0}
BY FilesAssumption DEF Chunks

LEMMA Joined ==
  ASSUME NEW S, NEW q \in Seq(S), NEW p \in Seq(S), NEW r, r = q \o p
  PROVE  /\ r \in Seq(S) /\ Len(q) \in Nat /\ Len(p) \in Nat /\ Len(r) = Len(q) + Len(p)
         /\ DOMAIN q = 1 .. Len(q) /\ DOMAIN p = 1 .. Len(p) /\ DOMAIN r = 1 .. (Len(q) + Len(p))
         /\ \A i \in DOMAIN q : i \in DOMAIN r /\ r[i] = q[i]
         /\ \A i \in DOMAIN r : r[i] = IF i <= Len(q) THEN q[i] ELSE p[i - Len(q)]
<1>1. /\ r \in Seq(S) /\ Len(r) = Len(q) + Len(p)
      /\ \A i \in 1 .. Len(q) + Len(p) : r[i] = IF i <= Len(q) THEN q[i] ELSE p[i - Len(q)]
  BY ConcatProperties
<1>2. /\ Len(q) \in Nat /\ Len(p) \in Nat
      /\ DOMAIN q = 1 .. Len(q) /\ DOMAIN p = 1 .. Len(p) /\ DOMAIN r = 1 .. (Len(q) + Len(p))
  BY <1>1
<1> QED BY <1>1, <1>2

LEMMA Grown ==
  ASSUME NEW S, NEW q \in Seq(S), NEW f \in S, NEW r, r = Append(q, f)
  PROVE  /\ r \in Seq(S) /\ Len(q) \in Nat /\ Len(r) = Len(q) + 1 /\ r # <<>>
         /\ DOMAIN q = 1 .. Len(q) /\ DOMAIN r = 1 .. (Len(q) + 1) /\ r[Len(q) + 1] = f
         /\ \A i \in DOMAIN q : i \in DOMAIN r /\ r[i] = q[i]
<1>1. /\ r \in Seq(S) /\ Len(r) = Len(q) + 1 /\ r # <<>> /\ r[Len(q) + 1] = f
      /\ \A i \in 1 .. Len(q) : r[i] = q[i]
  BY AppendProperties
<1>2. Len(q) \in Nat /\ DOMAIN q = 1 .. Len(q) /\ DOMAIN r = 1 .. (Len(q) + 1)
  BY <1>1
<1> QED BY <1>1, <1>2

LEMMA Shrunk ==
  ASSUME NEW S, NEW q \in Seq(S), q # <<>>, NEW r, r = Tail(q)
  PROVE  /\ r \in Seq(S) /\ Len(q) \in Nat \ {0} /\ Len(r) = Len(q) - 1
         /\ DOMAIN q = 1 .. Len(q) /\ DOMAIN r = 1 .. (Len(q) - 1)
         /\ 1 \in DOMAIN q /\ Head(q) = q[1] /\ Head(q) \in S
         /\ \A i \in DOMAIN r : i + 1 \in DOMAIN q /\ r[i] = q[i + 1]
         /\ \A i \in DOMAIN q : i # 1 => i - 1 \in DOMAIN r /\ r[i - 1] = q[i]
<1>1. /\ r \in Seq(S) /\ Len(r) = Len(q) - 1 /\ Head(q) \in S
      /\ \A i \in 1 .. Len(r) : r[i] = q[i + 1]
  BY HeadTailProperties
<1>2. Len(q) \in Nat \ {0} /\ DOMAIN q = 1 .. Len(q)
  BY EmptySeq
<1>3. DOMAIN r = 1 .. (Len(q) - 1)
  BY <1>1, <1>2
<1>4. Head(q) = q[1]
  OBVIOUS
<1> QED BY <1>1, <1>2, <1>3, <1>4

LEMMA Empty == ASSUME NEW S PROVE <<>> \in Seq(S) /\ DOMAIN <<>> = {} /\ Len(<<>>) = 0
OBVIOUS

-----------------------------------------------------------------------------
(* What a step does to what travels.                                         *)

\* What is on its way afterwards was on its way before, no nearer the front, or
\* is one of the frames just sent.
DownFrom(F) == \A c \in Conns : \A i \in DOMAIN down'[c] :
                 \/ \E j \in DOMAIN down[c] : i <= j /\ down'[c][i] = down[c][j]
                 \/ down'[c][i] \in F /\ c = dialled
UpFrom(F) == \A c \in Conns : \A i \in DOMAIN up'[c] :
                 \/ \E j \in DOMAIN up[c] : i <= j /\ up'[c][i] = up[c][j]
                 \/ up'[c][i] \in F /\ c = dialled

DownSound == /\ down' \in [Conns -> Seq(ToAgentFrames)]
             /\ \A c \in Conns : down'[c] # <<>> => c = dialled
UpSound == /\ up' \in [Conns -> Seq(ToGatewayFrames)]
           /\ \A c \in Conns : up'[c] # <<>> => c \in open

LEMMA InUse == ASSUME Values, dialled # 0 PROVE dialled \in Conns /\ dialled = made
BY DEF Values

LEMMA FramesAre ==
  /\ \A t \in ToAgent, n \in Nat : Frame(t, n) \in ToAgentFrames /\ Frame(t, n).t = t /\ Frame(t, n).n = n
  /\ \A t \in ToGateway, n \in Nat : Frame(t, n) \in ToGatewayFrames /\ Frame(t, n).t = t /\ Frame(t, n).n = n
BY DEF Frame, ToAgentFrames, ToGatewayFrames

LEMMA DownStays == ASSUME Values, Travels, UNCHANGED down PROVE DownSound /\ DownFrom({})
<1>1. \A c \in Conns : down'[c] = down[c] /\ \A i \in DOMAIN down[c] : i \in Nat
  <2> SUFFICES ASSUME NEW c \in Conns PROVE \A i \in DOMAIN down[c] : i \in Nat
    OBVIOUS
  <2>1. down[c] \in Seq(ToAgentFrames)
    BY DEF Values
  <2>2. DOMAIN down[c] = 1 .. Len(down[c]) /\ Len(down[c]) \in Nat
    BY <2>1
  <2> QED BY <2>2
<1> QED BY <1>1 DEF Values, Travels, DownSound, DownFrom

LEMMA UpStays == ASSUME Values, Travels, UNCHANGED up PROVE UpSound /\ UpFrom({})
<1>1. \A c \in Conns : up'[c] = up[c] /\ \A i \in DOMAIN up[c] : i \in Nat
  <2> SUFFICES ASSUME NEW c \in Conns PROVE \A i \in DOMAIN up[c] : i \in Nat
    OBVIOUS
  <2>1. up[c] \in Seq(ToGatewayFrames)
    BY DEF Values
  <2>2. DOMAIN up[c] = 1 .. Len(up[c]) /\ Len(up[c]) \in Nat
    BY <2>1
  <2> QED BY <2>2
<1> QED BY <1>1 DEF Values, Travels, UpSound, UpFrom

LEMMA DownGrows ==
  ASSUME Values, Travels, NEW f \in ToAgentFrames, Send(f)
  PROVE  /\ DownSound /\ DownFrom({f})
         /\ UNCHANGED down \/ /\ socket = dialled /\ dialled # 0
                              /\ down' = [down EXCEPT ![dialled] = Append(down[dialled], f)]
<1>1. CASE UNCHANGED down
  BY <1>1, DownStays DEF DownFrom
<1>2. CASE socket = dialled /\ dialled # 0 /\ down' = [down EXCEPT ![dialled] = Append(down[dialled], f)]
  <2> DEFINE r == Append(down[dialled], f)
  <2>1. dialled \in Conns /\ down[dialled] \in Seq(ToAgentFrames)
    BY <1>2, InUse DEF Values
  <2>2. /\ r \in Seq(ToAgentFrames) /\ DOMAIN r = 1 .. (Len(down[dialled]) + 1)
        /\ Len(down[dialled]) \in Nat /\ r[Len(down[dialled]) + 1] = f
        /\ DOMAIN down[dialled] = 1 .. Len(down[dialled])
        /\ \A i \in DOMAIN down[dialled] : r[i] = down[dialled][i]
    BY <2>1, Grown
  <2> HIDE DEF r
  <2>3. down' = [down EXCEPT ![dialled] = r]
    BY <1>2 DEF r
  <2>4. DownSound
    BY <2>1, <2>2, <2>3 DEF Values, Travels, DownSound
  <2>5. ASSUME NEW c \in Conns, NEW i \in DOMAIN down'[c]
        PROVE  \/ \E j \in DOMAIN down[c] : i <= j /\ down'[c][i] = down[c][j]
               \/ down'[c][i] \in {f} /\ c = dialled
    <3>1. CASE c # dialled
      <4>1. down'[c] = down[c] /\ down[c] \in Seq(ToAgentFrames)
        BY <3>1, <2>3 DEF Values
      <4>2. i \in Nat
        BY <4>1
      <4> QED BY <4>1, <4>2
    <3>2. CASE c = dialled
      <4>1. down'[c] = r
        BY <3>2, <2>1, <2>3 DEF Values
      <4> QED BY <4>1, <3>2, <2>2
    <3> QED BY <3>1, <3>2
  <2> QED BY <1>2, <2>4, <2>5 DEF DownFrom
<1> QED BY <1>1, <1>2 DEF Send

LEMMA DownShrinks ==
  ASSUME Values, Travels, NEW t, Delivered(t)
  PROVE  /\ DownSound /\ DownFrom({})
         /\ dialled \in Conns /\ dialled = made /\ dialled # 0 /\ down[dialled] # <<>>
         /\ down[dialled] \in Seq(ToAgentFrames)
         /\ down' = [down EXCEPT ![dialled] = Tail(down[dialled])]
         /\ Head(down[dialled]) = down[dialled][1] /\ 1 \in DOMAIN down[dialled]
         /\ Head(down[dialled]).t = t /\ Head(down[dialled]).n \in Nat
<1>1. /\ dialled \in Conns /\ down[dialled] \in Seq(ToAgentFrames) /\ down[dialled] # <<>> /\ dialled # 0
      /\ dialled = made
  BY InUse DEF Values, Delivered
<1> DEFINE r == Tail(down[dialled])
<1>2. /\ r \in Seq(ToAgentFrames) /\ DOMAIN r = 1 .. (Len(down[dialled]) - 1)
      /\ Len(down[dialled]) \in Nat /\ 1 \in DOMAIN down[dialled]
      /\ Head(down[dialled]) = down[dialled][1] /\ Head(down[dialled]) \in ToAgentFrames
      /\ \A i \in DOMAIN r : i + 1 \in DOMAIN down[dialled] /\ r[i] = down[dialled][i + 1]
  BY <1>1, Shrunk
<1> HIDE DEF r
<1>3. down' = [down EXCEPT ![dialled] = r]
  BY DEF Delivered, r
<1>4. DownSound
  BY <1>1, <1>2, <1>3 DEF Values, Travels, DownSound
<1>5. ASSUME NEW c \in Conns, NEW i \in DOMAIN down'[c]
      PROVE  \E j \in DOMAIN down[c] : i <= j /\ down'[c][i] = down[c][j]
  <2>1. CASE c # dialled
    <3>1. down'[c] = down[c] /\ down[c] \in Seq(ToAgentFrames)
      BY <2>1, <1>3 DEF Values
    <3>2. i \in Nat
      BY <3>1
    <3> QED BY <3>1, <3>2
  <2>2. CASE c = dialled
    <3>1. down'[c] = r
      BY <2>2, <1>1, <1>3 DEF Values
    <3>2. i + 1 \in DOMAIN down[c] /\ r[i] = down[c][i + 1] /\ i <= i + 1
      BY <3>1, <2>2, <1>2
    <3> QED BY <3>1, <3>2
  <2> QED BY <2>1, <2>2
<1>6. DownFrom({})
  BY <1>5 DEF DownFrom
<1>7. Head(down[dialled]).n \in Nat
  BY <1>2 DEF ToAgentFrames
<1> QED BY <1>1, <1>2, <1>4, <1>6, <1>7 DEF Delivered

LEMMA UpGrows ==
  ASSUME Values, Travels, NEW fs \in Seq(ToGatewayFrames), Reply(fs)
  PROVE  /\ UpSound /\ UpFrom({fs[i] : i \in DOMAIN fs})
         /\ \/ dialled \notin open /\ UNCHANGED up
            \/ dialled \in open /\ dialled \in Conns /\ up' = [up EXCEPT ![dialled] = up[dialled] \o fs]
<1>1. CASE dialled \notin open
  BY <1>1, UpStays DEF UpFrom, Reply
<1>2. CASE dialled \in open
  <2> DEFINE q == up[dialled]
             r == q \o fs
  <2>1. dialled \in Conns /\ q \in Seq(ToGatewayFrames)
    BY <1>2, InUse DEF Values
  <2>2. /\ r \in Seq(ToGatewayFrames) /\ Len(q) \in Nat /\ Len(fs) \in Nat
        /\ DOMAIN q = 1 .. Len(q) /\ DOMAIN fs = 1 .. Len(fs) /\ DOMAIN r = 1 .. (Len(q) + Len(fs))
        /\ \A i \in DOMAIN r : r[i] = IF i <= Len(q) THEN q[i] ELSE fs[i - Len(q)]
    BY <2>1, Joined
  <2>3. up' = [up EXCEPT ![dialled] = r]
    BY <1>2 DEF Reply
  <2> HIDE DEF r
  <2>4. UpSound
    BY <1>2, <2>1, <2>2, <2>3 DEF Values, Travels, UpSound
  <2>5. ASSUME NEW c \in Conns, NEW i \in DOMAIN up'[c]
        PROVE  \/ \E j \in DOMAIN up[c] : i <= j /\ up'[c][i] = up[c][j]
               \/ up'[c][i] \in {fs[k] : k \in DOMAIN fs} /\ c = dialled
    <3>1. CASE c # dialled
      <4>1. up'[c] = up[c] /\ up[c] \in Seq(ToGatewayFrames)
        BY <3>1, <2>3 DEF Values
      <4>2. i \in Nat
        BY <4>1
      <4> QED BY <4>1, <4>2
    <3>2. CASE c = dialled
      <4>1. up'[c] = r /\ up[c] = q
        BY <3>2, <2>1, <2>3 DEF Values
      <4>2. CASE i <= Len(q)
        BY <4>1, <4>2, <2>2
      <4>3. CASE ~(i <= Len(q))
        <5>1. i - Len(q) \in DOMAIN fs /\ r[i] = fs[i - Len(q)]
          BY <4>1, <4>3, <2>2
        <5> QED BY <4>1, <5>1, <3>2
      <4> QED BY <4>2, <4>3
    <3> QED BY <3>1, <3>2
  <2> QED BY <1>2, <2>1, <2>3, <2>4, <2>5 DEF UpFrom, r
<1> QED BY <1>1, <1>2

LEMMA UpShrinks ==
  ASSUME Values, Travels, NEW c \in Conns, NEW t, Received(c, t)
  PROVE  /\ UpSound /\ UpFrom({})
         /\ c \in open /\ up[c] # <<>> /\ up[c] \in Seq(ToGatewayFrames)
         /\ up' = [up EXCEPT ![c] = Tail(up[c])]
         /\ Head(up[c]) = up[c][1] /\ 1 \in DOMAIN up[c]
         /\ Head(up[c]).t = t /\ Head(up[c]).n \in Nat
<1>1. c \in open /\ up[c] \in Seq(ToGatewayFrames) /\ up[c] # <<>>
  BY DEF Values, Received
<1> DEFINE r == Tail(up[c])
<1>2. /\ r \in Seq(ToGatewayFrames) /\ DOMAIN r = 1 .. (Len(up[c]) - 1)
      /\ Len(up[c]) \in Nat /\ 1 \in DOMAIN up[c]
      /\ Head(up[c]) = up[c][1] /\ Head(up[c]) \in ToGatewayFrames
      /\ \A i \in DOMAIN r : i + 1 \in DOMAIN up[c] /\ r[i] = up[c][i + 1]
  BY <1>1, Shrunk
<1> HIDE DEF r
<1>3. up' = [up EXCEPT ![c] = r]
  BY DEF Received, r
<1>4. UpSound
  BY <1>1, <1>2, <1>3 DEF Values, Travels, UpSound
<1>5. ASSUME NEW d \in Conns, NEW i \in DOMAIN up'[d]
      PROVE  \E j \in DOMAIN up[d] : i <= j /\ up'[d][i] = up[d][j]
  <2>1. CASE d # c
    <3>1. up'[d] = up[d] /\ up[d] \in Seq(ToGatewayFrames)
      BY <2>1, <1>3 DEF Values
    <3>2. i \in Nat
      BY <3>1
    <3> QED BY <3>1, <3>2
  <2>2. CASE d = c
    <3>1. up'[d] = r
      BY <2>2, <1>1, <1>3 DEF Values
    <3>2. i + 1 \in DOMAIN up[d] /\ r[i] = up[d][i + 1] /\ i <= i + 1
      BY <3>1, <2>2, <1>2
    <3> QED BY <3>1, <3>2
  <2> QED BY <2>1, <2>2
<1>6. UpFrom({})
  BY <1>5 DEF UpFrom
<1>7. Head(up[c]).n \in Nat
  BY <1>2 DEF ToGatewayFrames
<1> QED BY <1>1, <1>2, <1>4, <1>6, <1>7 DEF Received

LEMMA OneWayStays ==
  ASSUME OneWay, NEW F, NEW G, DownFrom(F), UpFrom(G), UNCHANGED <<kind, file>>,
         \A f \in F : /\ f.t = "data" => kind = "write" /\ f.n \in Chunks
                      /\ f.t = "credit" => kind = "read",
         \A g \in G : /\ g.t = "data" => kind = "read" /\ g.n \in Chunks
                      /\ g.t = "credit" => kind = "write"
  PROVE  OneWay'
<1>1. Chunks' = Chunks
  BY DEF Chunks
<1>2. \A c \in Conns : \A i \in DOMAIN up'[c] :
       /\ up'[c][i].t = "data" => kind = "read" /\ up'[c][i].n \in Chunks
       /\ up'[c][i].t = "credit" => kind = "write"
  BY DEF UpFrom, OneWay
<1>3. \A c \in Conns : \A i \in DOMAIN down'[c] :
       /\ down'[c][i].t = "data" => kind = "write" /\ down'[c][i].n \in Chunks
       /\ down'[c][i].t = "credit" => kind = "read"
  BY DEF DownFrom, OneWay
<1> QED BY <1>1, <1>2, <1>3 DEF OneWay

-----------------------------------------------------------------------------
(* Every step keeps every value what it is.                                  *)

SameConnections == UNCHANGED <<kind, file, made, dialled, socket, open>>
DownFit(F) == \A f \in F : /\ f.t = "data" => kind = "write" /\ f.n \in Chunks
                           /\ f.t = "credit" => kind = "read"
                           /\ f.t # "open"
UpFit(G) == \A g \in G : /\ g.t = "data" => kind = "read" /\ g.n \in Chunks
                         /\ g.t = "credit" => kind = "write"
SomeValues ==
  /\ rpc' \in {"pending", "resolved", "rejected"} /\ sink' \in BOOLEAN
  /\ reader' \in AReader /\ writer' \in AWriter
  /\ handle' \in AHandle /\ handle'.flushed <= Len(handle'.got)
  /\ lapsed' \subseteq StreamRaces

LEMMA TransferStays ==
  ASSUME Transfer, SameConnections, DownSound, UpSound, SomeValues, Measured',
         (handle.state = "none" => handle'.state = "none") \/ OneOpen',
         NEW F, NEW G, DownFrom(F), UpFrom(G), DownFit(F), UpFit(G)
  PROVE  Transfer'
<1>1. OneWay'
  <2>1. UNCHANGED <<kind, file>> /\ OneWay
    BY DEF SameConnections, Transfer
  <2> QED BY <2>1, OneWayStays DEF DownFit, UpFit
<1>2. AReader' = AReader /\ AWriter' = AWriter /\ AHandle' = AHandle
  BY DEF SameConnections, AReader, AWriter, AHandle, Chunks
<1>3. Values'
  BY <1>2 DEF Transfer, Values, SameConnections, DownSound, UpSound, SomeValues
<1>4. Travels'
  BY DEF Transfer, Travels, SameConnections, DownSound, UpSound
<1>5. OneOpen'
  <2>1. \A c \in Conns : DOMAIN down'[c] \subseteq Nat \ {0}
    <3> TAKE c \in Conns
    <3>1. down'[c] \in Seq(ToAgentFrames)
      BY DEF DownSound
    <3>2. DOMAIN down'[c] = 1 .. Len(down'[c]) /\ Len(down'[c]) \in Nat
      BY <3>1
    <3> QED BY <3>2
  <2>2. SUFFICES ASSUME handle.state = "none" => handle'.state = "none",
                        NEW c \in Conns, NEW i \in DOMAIN down'[c], down'[c][i].t = "open"
                 PROVE  i = 1 /\ c = 1 /\ handle'.state = "none"
    BY DEF OneOpen
  <2>3. PICK j \in DOMAIN down[c] : i <= j /\ down'[c][i] = down[c][j]
    BY <2>2 DEF DownFrom, DownFit
  <2>4. j = 1 /\ c = 1 /\ handle.state = "none"
    BY <2>2, <2>3 DEF Transfer, OneOpen
  <2>5. i \in Nat \ {0}
    BY <2>1
  <2> QED BY <2>2, <2>3, <2>4, <2>5
<1> QED BY <1>1, <1>3, <1>4, <1>5 DEF Transfer

LEMMA StillThere ==
  ASSUME Transfer
  PROVE  /\ rpc \in {"pending", "resolved", "rejected"} /\ sink \in BOOLEAN
         /\ reader \in AReader /\ writer \in AWriter
         /\ handle \in AHandle /\ handle.flushed <= Len(handle.got) /\ Len(handle.got) \in Nat
         /\ lapsed \subseteq StreamRaces
         /\ DownFit({}) /\ UpFit({})
<1>1. handle.got \in Seq(Chunks)
  BY DEF Transfer, Values, AHandle
<1> QED BY <1>1 DEF Transfer, Values, DownFit, UpFit

\* A call that is rejected, an end that is failed.
LEMMA Rejected ==
  ASSUME Transfer, RejectOpen
  PROVE  /\ rpc' = "rejected" /\ sink' = FALSE /\ reader' \in AReader /\ writer' \in AWriter
         /\ writer'.next = writer.next /\ writer'.destroyed = writer.destroyed
         /\ writer'.state \in {writer.state, "failed"}
         /\ writer'.failure = (writer.failure \/ kind = "write")
         /\ reader'.buffer = reader.buffer /\ reader'.taken = reader.taken
         /\ reader'.state \in {reader.state, "failed"}
         /\ kind = "read" => writer' = writer
         /\ kind = "write" => reader' = reader
<1>1. kind \in {"read", "write"} /\ reader \in AReader /\ writer \in AWriter
  BY DEF Transfer, Values
<1>2. CASE kind = "read"
  BY <1>1, <1>2 DEF RejectOpen, BreakReader, AReader, AWriter
<1>3. CASE kind = "write"
  <2> DEFINE state == IF writer.state \in PendingStates THEN "failed" ELSE writer.state
  <2>1. /\ rpc' = "rejected" /\ sink' = FALSE /\ reader' = reader
        /\ writer' = [writer EXCEPT !.failure = TRUE, !.state = state]
    BY <1>3 DEF RejectOpen
  <2>2. state \in {writer.state, "failed"}
    OBVIOUS
  <2> HIDE DEF state
  <2> QED BY <1>1, <1>3, <2>1, <2>2 DEF AWriter
<1> QED BY <1>1, <1>2, <1>3

LEMMA Failed ==
  ASSUME Transfer, FailSink
  PROVE  /\ sink' = FALSE /\ reader' \in AReader /\ writer' \in AWriter
         /\ writer'.next = writer.next /\ writer'.destroyed = writer.destroyed
         /\ writer'.state \in {writer.state, "failed"}
         /\ reader'.buffer = reader.buffer /\ reader'.taken = reader.taken
         /\ reader'.state \in {reader.state, "failed"}
         /\ kind = "read" => writer' = writer
         /\ kind = "write" => reader' = reader
<1>1. kind \in {"read", "write"} /\ reader \in AReader /\ writer \in AWriter
  BY DEF Transfer, Values
<1>2. CASE kind = "read"
  BY <1>1, <1>2 DEF FailSink, BreakReader, AReader, AWriter
<1>3. CASE kind = "write"
  BY <1>1, <1>3 DEF FailSink, BreakReader, AReader, AWriter
<1> QED BY <1>1, <1>2, <1>3

\* A chunk that is pushed, an end that is announced.
PushFails(w) == (w.failure \/ ~sink) /\ writer' = [w EXCEPT !.state = "failed"] /\ UNCHANGED down
PushWaits(w) == ~w.failure /\ writer' = [w EXCEPT !.state = "waiting"] /\ UNCHANGED down
PushGoes(w) ==
  /\ sink /\ ~w.failure
  /\ writer' = [w EXCEPT !.state = "idle", !.credit = @ - file[w.next], !.next = @ + 1]
  /\ Send(Frame("data", w.next))

LEMMA Pushed ==
  ASSUME Transfer, NEW w \in AWriter, w.next <= Len(file), kind = "write", PushChunk(w)
  PROVE  /\ PushFails(w) \/ PushWaits(w) \/ PushGoes(w)
         /\ writer' \in AWriter /\ writer'.destroyed = w.destroyed /\ writer'.failure = w.failure
         /\ writer'.next <= Len(file) + 1 /\ writer'.next \in {w.next, w.next + 1}
         /\ writer'.state = "waiting" => writer'.next <= Len(file)
         /\ writer'.state \in {"failed", "waiting", "idle"}
         /\ DownSound /\ DownFrom({Frame("data", w.next)}) /\ DownFit({Frame("data", w.next)})
<1>1. /\ w.next \in Chunks /\ w.next \in Nat /\ Len(file) \in Nat /\ file[w.next] \in Nat
      /\ w.credit \in Int /\ Values /\ Travels
  BY FileSizes DEF Transfer, Values, AWriter, Chunks
<1>2. PushFails(w) \/ PushWaits(w) \/ PushGoes(w)
  BY <1>1 DEF PushChunk, PushFails, PushWaits, PushGoes
<1>3. /\ Frame("data", w.next) \in ToAgentFrames
      /\ Frame("data", w.next).t = "data" /\ Frame("data", w.next).n = w.next
  BY <1>1, FramesAre DEF ToAgent
<1>4. DownFit({Frame("data", w.next)})
  BY <1>1, <1>3 DEF DownFit
<1>5. CASE PushFails(w) \/ PushWaits(w)
  <2>1. DownSound /\ DownFrom({})
    BY <1>5, <1>1, DownStays DEF PushFails, PushWaits
  <2>2. DownFrom({Frame("data", w.next)})
    BY <2>1 DEF DownFrom
  <2>3. /\ writer' \in AWriter /\ writer'.destroyed = w.destroyed /\ writer'.failure = w.failure
        /\ writer'.next = w.next /\ writer'.state \in {"failed", "waiting", "idle"}
    BY <1>5 DEF PushFails, PushWaits, AWriter, PendingStates
  <2> QED BY <1>1, <1>2, <1>4, <2>1, <2>2, <2>3
<1>6. CASE PushGoes(w)
  <2>1. DownSound /\ DownFrom({Frame("data", w.next)})
    BY <1>6, <1>1, <1>3, DownGrows DEF PushGoes
  <2>2. /\ writer' \in AWriter /\ writer'.destroyed = w.destroyed /\ writer'.failure = w.failure
        /\ writer'.next = w.next + 1 /\ writer'.state = "idle"
    <3> DEFINE credit == w.credit - file[w.next]
               next == w.next + 1
    <3>1. credit \in Int /\ next \in Nat \ {0}
      BY <1>1
    <3>2. writer' = [w EXCEPT !.state = "idle", !.credit = credit, !.next = next]
      BY <1>6 DEF PushGoes
    <3> HIDE DEF credit, next
    <3> QED BY <3>1, <3>2 DEF AWriter, next
  <2>3. writer'.next <= Len(file) + 1
    BY <1>1, <2>2
  <2> QED BY <1>2, <1>4, <2>1, <2>2, <2>3
<1> QED BY <1>2, <1>5, <1>6

EndFails(w) == (w.failure \/ ~sink) /\ writer' = [w EXCEPT !.state = "failed"] /\ UNCHANGED down
EndGoes(w) == sink /\ ~w.failure /\ writer' = [w EXCEPT !.state = "ending"] /\ Send(Frame("end", 0))

LEMMA Finalized ==
  ASSUME Transfer, NEW w \in AWriter, Finalize(w)
  PROVE  /\ EndFails(w) \/ EndGoes(w)
         /\ writer' \in AWriter /\ writer'.destroyed = w.destroyed /\ writer'.failure = w.failure
         /\ writer'.next = w.next /\ writer'.state \in {"failed", "ending"}
         /\ DownSound /\ DownFrom({Frame("end", 0)}) /\ DownFit({Frame("end", 0)})
<1>1. Values /\ Travels
  BY DEF Transfer
<1>2. EndFails(w) \/ EndGoes(w)
  BY DEF Finalize, EndFails, EndGoes
<1>3. Frame("end", 0) \in ToAgentFrames /\ Frame("end", 0).t = "end"
  BY FramesAre DEF ToAgent
<1>4. DownFit({Frame("end", 0)})
  BY <1>3 DEF DownFit
<1>5. DownSound /\ DownFrom({Frame("end", 0)})
  <2>1. CASE UNCHANGED down
    BY <2>1, <1>1, DownStays DEF DownFrom
  <2>2. CASE Send(Frame("end", 0))
    BY <2>2, <1>1, <1>3, DownGrows
  <2> QED BY <1>2, <2>1, <2>2 DEF EndFails, EndGoes
<1>6. /\ writer' \in AWriter /\ writer'.destroyed = w.destroyed /\ writer'.failure = w.failure
      /\ writer'.next = w.next /\ writer'.state \in {"failed", "ending"}
  BY <1>2 DEF EndFails, EndGoes, AWriter, PendingStates
<1> QED BY <1>2, <1>4, <1>5, <1>6

LEMMA QuietKeepsTransfer ==
  ASSUME Transfer, RpcTimesOut \/ SourceFails \/ Take \/ TakeEnd
  PROVE  Transfer'
<1> USE StillThere
<1>1. Values /\ Travels /\ Measured /\ SameConnections /\ UNCHANGED <<up, down, handle>>
  BY DEF Transfer, RpcTimesOut, SourceFails, Take, TakeEnd, SameConnections
<1>2. DownSound /\ UpSound /\ DownFrom({}) /\ UpFrom({})
  BY <1>1, DownStays, UpStays
<1>3. SomeValues /\ Measured'
  <2>1. CASE RpcTimesOut
    <3>1. /\ rpc' = "rejected" /\ sink' = FALSE /\ reader' \in AReader /\ writer' \in AWriter
          /\ writer'.next = writer.next /\ writer'.state \in {writer.state, "failed"}
          /\ kind = "read" => writer' = writer
          /\ kind = "write" => reader' = reader
      BY <2>1, Rejected DEF RpcTimesOut
    <3>2. UNCHANGED <<kind, file, handle>> /\ lapsed' \subseteq StreamRaces
      BY <2>1 DEF RpcTimesOut, Lapse
    <3>3. SomeValues
      BY <3>1, <3>2 DEF SomeValues, AHandle
    <3> QED BY <1>1, <3>1, <3>2, <3>3 DEF Measured, NewWriter
  <2>2. CASE SourceFails
    <3>1. /\ writer' = [writer EXCEPT !.destroyed = TRUE] /\ kind = "write"
          /\ UNCHANGED <<kind, file, handle, rpc, sink, reader>> /\ lapsed' \subseteq StreamRaces
      BY <2>2 DEF SourceFails, Lapse
    <3>2. writer' \in AWriter /\ writer'.next = writer.next /\ writer'.state = writer.state
      BY <3>1 DEF AWriter
    <3>3. SomeValues
      BY <3>1, <3>2 DEF SomeValues, AHandle
    <3> QED BY <1>1, <3>1, <3>2, <3>3 DEF Measured
  <2>3. CASE Take
    <3>1. /\ reader' = [reader EXCEPT !.buffer = Tail(@), !.taken = Append(@, Head(reader.buffer))]
          /\ kind = "read" /\ reader.buffer # <<>>
          /\ UNCHANGED <<kind, file, handle, rpc, sink, writer, lapsed>>
      BY <2>3 DEF Take
    <3>2. reader.buffer \in Seq(Chunks) /\ reader.taken \in Seq(Chunks)
      BY DEF AReader
    <3>3. Tail(reader.buffer) \in Seq(Chunks) /\ Append(reader.taken, Head(reader.buffer)) \in Seq(Chunks)
      BY <3>1, <3>2, Shrunk, Grown
    <3>4. reader' \in AReader
      <4> DEFINE b == Tail(reader.buffer)
                 k == Append(reader.taken, Head(reader.buffer))
      <4>1. reader' = [reader EXCEPT !.buffer = b, !.taken = k]
        BY <3>1
      <4>2. b \in Seq(Chunks) /\ k \in Seq(Chunks)
        BY <3>3
      <4> HIDE DEF b, k
      <4> QED BY <4>1, <4>2 DEF AReader
    <3>5. SomeValues
      BY <3>1, <3>4 DEF SomeValues
    <3> QED BY <1>1, <3>1, <3>5 DEF Measured
  <2>4. CASE TakeEnd
    <3>1. /\ reader' = [reader EXCEPT !.state = "done"] /\ kind = "read"
          /\ UNCHANGED <<kind, file, handle, rpc, sink, writer, lapsed>>
      BY <2>4 DEF TakeEnd
    <3>2. SomeValues
      BY <3>1 DEF SomeValues, AReader
    <3> QED BY <1>1, <3>1, <3>2 DEF Measured
  <2> QED BY <2>1, <2>2, <2>3, <2>4
<1> QED BY <1>1, <1>2, <1>3, TransferStays

LEMMA SendingKeepsTransfer ==
  ASSUME Transfer, WriteChunk \/ FinishWriting \/ Read \/ CancelRead
  PROVE  Transfer'
<1> USE StillThere
<1>1. Values /\ Travels /\ Measured /\ SameConnections /\ UNCHANGED <<up, kind, file, handle, rpc, lapsed>>
  BY DEF Transfer, WriteChunk, FinishWriting, Read, CancelRead, SameConnections
<1>2. UpSound /\ UpFrom({})
  BY <1>1, UpStays
<1>3. \E F : DownSound /\ DownFrom(F) /\ DownFit(F) /\ SomeValues /\ Measured'
  <2>1. CASE WriteChunk
    <3>1. /\ kind = "write" /\ writer.next <= Len(file) /\ UNCHANGED <<sink, reader>>
      BY <2>1 DEF WriteChunk
    <3>2. CASE rpc = "pending"
      <4>1. writer' = [writer EXCEPT !.state = "opening"] /\ UNCHANGED down
        BY <2>1, <3>2 DEF WriteChunk
      <4>2. writer' \in AWriter /\ writer'.next = writer.next
        BY <4>1 DEF AWriter, PendingStates
      <4>3. SomeValues
        BY <1>1, <3>1, <4>2 DEF SomeValues
      <4>4. Measured'
        BY <1>1, <3>1, <4>2 DEF Measured
      <4> QED BY <1>1, <4>1, <4>3, <4>4, DownStays
    <3>3. CASE rpc # "pending"
      <4>1. PushChunk(writer)
        BY <2>1, <3>3 DEF WriteChunk
      <4>2. /\ writer' \in AWriter
            /\ writer'.next <= Len(file) + 1
            /\ writer'.state = "waiting" => writer'.next <= Len(file)
            /\ writer'.state \in {"failed", "waiting", "idle"}
            /\ DownSound /\ DownFrom({Frame("data", writer.next)}) /\ DownFit({Frame("data", writer.next)})
        BY <3>1, <4>1, Pushed
      <4>3. SomeValues
        BY <1>1, <3>1, <4>2 DEF SomeValues
      <4>4. Measured'
        BY <1>1, <3>1, <4>2 DEF Measured
      <4> QED BY <4>2, <4>3, <4>4
    <3> QED BY <3>2, <3>3
  <2>2. CASE FinishWriting
    <3>1. /\ kind = "write" /\ UNCHANGED <<sink, reader>>
      BY <2>2 DEF FinishWriting
    <3>2. CASE rpc = "pending"
      <4>1. writer' = [writer EXCEPT !.state = "finalOpening"] /\ UNCHANGED down
        BY <2>2, <3>2 DEF FinishWriting
      <4>2. writer' \in AWriter /\ writer'.next = writer.next /\ writer'.state = "finalOpening"
        BY <4>1 DEF AWriter, PendingStates
      <4>3. SomeValues
        BY <1>1, <3>1, <4>2 DEF SomeValues
      <4>4. Measured'
        BY <1>1, <3>1, <4>2 DEF Measured
      <4> QED BY <1>1, <4>1, <4>3, <4>4, DownStays
    <3>3. CASE rpc # "pending"
      <4>1. Finalize(writer)
        BY <2>2, <3>3 DEF FinishWriting
      <4>2. /\ writer' \in AWriter /\ writer'.next = writer.next /\ writer'.state \in {"failed", "ending"}
            /\ DownSound /\ DownFrom({Frame("end", 0)}) /\ DownFit({Frame("end", 0)})
        BY <4>1, Finalized
      <4>3. SomeValues
        BY <1>1, <3>1, <4>2 DEF SomeValues
      <4>4. Measured'
        BY <1>1, <3>1, <4>2 DEF Measured
      <4> QED BY <4>2, <4>3, <4>4
    <3> QED BY <3>2, <3>3
  <2>3. CASE Read
    <3>1. /\ kind = "read" /\ UNCHANGED <<sink, writer>>
          /\ reader' = [reader EXCEPT !.reading = TRUE, !.owed = 0]
      BY <2>3 DEF Read
    <3>2. SomeValues
      BY <1>1, <3>1 DEF SomeValues, AReader
    <3>3. Measured'
      BY <1>1, <3>1 DEF Measured
    <3>4. CASE reader.owed > 0
      <4>1. reader.owed \in Nat
        BY DEF AReader
      <4>2. /\ Frame("credit", reader.owed) \in ToAgentFrames
            /\ Frame("credit", reader.owed).t = "credit"
        BY <4>1, FramesAre DEF ToAgent
      <4>3. Send(Frame("credit", reader.owed))
        BY <2>3, <3>4 DEF Read
      <4>4. DownSound /\ DownFrom({Frame("credit", reader.owed)})
        BY <1>1, <4>2, <4>3, DownGrows
      <4>5. DownFit({Frame("credit", reader.owed)})
        BY <3>1, <4>2 DEF DownFit
      <4> QED BY <3>2, <3>3, <4>4, <4>5
    <3>5. CASE ~(reader.owed > 0)
      BY <1>1, <2>3, <3>2, <3>3, <3>5, DownStays DEF Read
    <3> QED BY <3>4, <3>5
  <2>4. CASE CancelRead
    <3>1. /\ kind = "read" /\ UNCHANGED writer /\ sink' = FALSE
          /\ reader' = [reader EXCEPT !.state = "cancelled"]
      BY <2>4 DEF CancelRead
    <3>2. SomeValues
      BY <1>1, <3>1 DEF SomeValues, AReader
    <3>3. Measured'
      BY <1>1, <3>1 DEF Measured
    <3>4. CASE sink
      <4>2. Frame("end", 0) \in ToAgentFrames /\ Frame("end", 0).t = "end"
        BY FramesAre DEF ToAgent
      <4>3. Send(Frame("end", 0))
        BY <2>4, <3>4 DEF CancelRead
      <4>4. DownSound /\ DownFrom({Frame("end", 0)})
        BY <1>1, <4>2, <4>3, DownGrows
      <4>5. DownFit({Frame("end", 0)})
        BY <4>2 DEF DownFit
      <4> QED BY <3>2, <3>3, <4>4, <4>5
    <3>5. CASE ~sink
      BY <1>1, <2>4, <3>2, <3>3, <3>5, DownStays DEF CancelRead
    <3> QED BY <3>4, <3>5
  <2> QED BY <2>1, <2>2, <2>3, <2>4
<1> QED BY <1>1, <1>2, <1>3, TransferStays

LEMMA ReceivedFits ==
  ASSUME Transfer, NEW c \in Conns, NEW t, Received(c, t)
  PROVE  /\ Head(up[c]).n \in Nat
         /\ t = "data" => kind = "read" /\ Head(up[c]).n \in Chunks
         /\ t = "credit" => kind = "write"
         /\ UpSound /\ UpFrom({})
         /\ SameConnections /\ UNCHANGED <<handle, lapsed>>
<1>1. Values /\ Travels
  BY DEF Transfer
<1>2. /\ Head(up[c]).n \in Nat /\ Head(up[c]) = up[c][1] /\ 1 \in DOMAIN up[c] /\ Head(up[c]).t = t
      /\ UpSound /\ UpFrom({})
  BY <1>1, UpShrinks
<1>3. SameConnections /\ UNCHANGED <<handle, lapsed>>
  BY DEF Received, SameConnections
<1> QED BY <1>2, <1>3 DEF Transfer, OneWay

LEMMA ReceivingKeepsTransfer ==
  ASSUME Transfer, NEW c \in Conns, Receive(c)
  PROVE  Transfer'
<1> USE StillThere
<1>1. Values /\ Travels /\ Measured
  BY DEF Transfer
<1>2. /\ UpSound /\ UpFrom({}) /\ SameConnections /\ UNCHANGED <<handle, lapsed, kind, file>>
  <2>1. \E t : Received(c, t)
    BY DEF Receive, RecvOk, RecvErr, RecvData, RecvEnd, RecvError, RecvCredit
  <2>2. /\ UpSound /\ UpFrom({}) /\ SameConnections /\ UNCHANGED <<handle, lapsed>>
    BY <2>1, ReceivedFits
  <2> QED BY <2>2 DEF SameConnections
<1>3. ASSUME UNCHANGED down PROVE DownSound /\ DownFrom({}) /\ DownFit({})
  BY <1>1, <1>3, DownStays
<1>4. \E F : DownSound /\ DownFrom(F) /\ DownFit(F) /\ SomeValues /\ Measured'
  <2>1. CASE RecvOk(c)
    <3>1. UNCHANGED <<sink, reader>> /\ rpc' \in {"pending", "resolved", "rejected"}
      BY <2>1 DEF RecvOk
    <3>2. CASE rpc = "pending" /\ writer.state = "opening"
      <4>1. PushChunk(writer) /\ kind = "write" /\ writer.next <= Len(file)
        BY <2>1, <3>2, <1>1 DEF RecvOk, Measured, NewWriter, Values
      <4>2. /\ writer' \in AWriter
            /\ writer'.next <= Len(file) + 1
            /\ writer'.state = "waiting" => writer'.next <= Len(file)
            /\ writer'.state \in {"failed", "waiting", "idle"}
            /\ DownSound /\ DownFrom({Frame("data", writer.next)}) /\ DownFit({Frame("data", writer.next)})
        BY <4>1, Pushed
      <4>3. SomeValues
        BY <1>2, <3>1, <4>2 DEF SomeValues
      <4>4. Measured'
        BY <1>1, <1>2, <3>1, <4>1, <4>2 DEF Measured
      <4> QED BY <4>2, <4>3, <4>4
    <3>3. CASE rpc = "pending" /\ writer.state = "finalOpening"
      <4>1. Finalize(writer) /\ kind = "write"
        BY <2>1, <3>3, <1>1 DEF RecvOk, Measured, NewWriter, Values
      <4>2. /\ writer' \in AWriter /\ writer'.next = writer.next /\ writer'.state \in {"failed", "ending"}
            /\ DownSound /\ DownFrom({Frame("end", 0)}) /\ DownFit({Frame("end", 0)})
        BY <4>1, Finalized
      <4>3. SomeValues
        BY <1>2, <3>1, <4>2 DEF SomeValues
      <4>4. Measured'
        BY <1>1, <1>2, <3>1, <4>1, <4>2 DEF Measured
      <4> QED BY <4>2, <4>3, <4>4
    <3>4. CASE ~(rpc = "pending" /\ writer.state = "opening") /\ ~(rpc = "pending" /\ writer.state = "finalOpening")
      <4>1. UNCHANGED <<writer, down>>
        BY <2>1, <3>4 DEF RecvOk
      <4>2. SomeValues
        BY <1>2, <3>1, <4>1 DEF SomeValues
      <4>3. Measured'
        BY <1>1, <1>2, <3>1, <4>1 DEF Measured
      <4> QED BY <1>3, <4>1, <4>2, <4>3
    <3> QED BY <3>2, <3>3, <3>4
  <2>2. CASE RecvErr(c)
    <3>1. UNCHANGED down
      BY <2>2 DEF RecvErr
    <3>2. CASE rpc = "pending"
      <4>1. /\ rpc' = "rejected" /\ sink' = FALSE /\ reader' \in AReader /\ writer' \in AWriter
            /\ writer'.next = writer.next /\ writer'.state \in {writer.state, "failed"}
            /\ kind = "read" => writer' = writer
            /\ kind = "write" => reader' = reader
        BY <2>2, <3>2, Rejected DEF RecvErr
      <4>2. SomeValues
        BY <1>2, <4>1 DEF SomeValues
      <4>3. Measured'
        BY <1>1, <1>2, <4>1 DEF Measured, NewWriter
      <4> QED BY <1>3, <3>1, <4>2, <4>3
    <3>3. CASE rpc # "pending"
      <4>1. UNCHANGED <<rpc, sink, reader, writer>>
        BY <2>2, <3>3 DEF RecvErr
      <4>2. SomeValues /\ Measured'
        BY <1>1, <1>2, <4>1 DEF SomeValues, Measured
      <4> QED BY <1>3, <3>1, <4>2
    <3> QED BY <3>2, <3>3
  <2>3. CASE RecvData(c)
    <3> DEFINE n == Head(up[c]).n
    <3>1. n \in Chunks /\ kind = "read" /\ UNCHANGED <<down, rpc, sink, writer>>
      BY <2>3, ReceivedFits DEF RecvData
    <3>2. reader' \in AReader
      <4>1. /\ reader.owed \in Nat /\ file[n] \in Nat /\ reader.buffer \in Seq(Chunks)
        BY <1>1, <3>1, FileSizes DEF AReader, Values
      <4> DEFINE owed == reader.owed + file[n]
                 buffer == Append(reader.buffer, n)
      <4>2. owed \in Nat /\ buffer \in Seq(Chunks)
        BY <4>1, <3>1, Grown
      <4>3. reader' \in {reader, [reader EXCEPT !.owed = owed, !.reading = FALSE, !.buffer = buffer]}
        BY <2>3 DEF RecvData
      <4> HIDE DEF owed, buffer
      <4> QED BY <4>2, <4>3 DEF AReader
    <3>3. SomeValues
      BY <1>2, <3>1, <3>2 DEF SomeValues
    <3>4. Measured'
      BY <1>1, <1>2, <3>1 DEF Measured
    <3> QED BY <1>3, <3>1, <3>3, <3>4
  <2>4. CASE RecvEnd(c)
    <3>1. /\ UNCHANGED <<down, rpc>> /\ sink' = FALSE
          /\ reader' = IF sink /\ kind = "read" THEN [reader EXCEPT !.state = "ended"] ELSE reader
          /\ writer' = IF sink /\ kind = "write" /\ writer.state = "ending"
                       THEN [writer EXCEPT !.state = "done"] ELSE writer
      BY <2>4 DEF RecvEnd
    <3>2. reader' \in AReader /\ (kind = "write" => reader' = reader)
      BY <3>1 DEF AReader
    <3>3. /\ writer' \in AWriter /\ (kind = "read" => writer' = writer)
          /\ writer'.next = writer.next /\ writer'.state \in {writer.state, "done"}
      BY <3>1 DEF AWriter
    <3>4. SomeValues
      BY <1>2, <3>1, <3>2, <3>3 DEF SomeValues
    <3>5. Measured'
      BY <1>1, <1>2, <3>2, <3>3 DEF Measured, NewWriter
    <3> QED BY <1>3, <3>1, <3>4, <3>5
  <2>5. CASE RecvError(c)
    <3>1. /\ UNCHANGED <<down, rpc>> /\ sink' = FALSE /\ reader' \in AReader /\ writer' \in AWriter
          /\ writer'.next = writer.next /\ writer'.state \in {writer.state, "failed"}
          /\ kind = "read" => writer' = writer
          /\ kind = "write" => reader' = reader
      BY <2>5, Failed DEF RecvError
    <3>2. SomeValues
      BY <1>2, <3>1 DEF SomeValues
    <3>3. Measured'
      BY <1>1, <1>2, <3>1 DEF Measured, NewWriter
    <3> QED BY <1>3, <3>1, <3>2, <3>3
  <2>6. CASE RecvCredit(c)
    <3>1. kind = "write" /\ Head(up[c]).n \in Nat /\ UNCHANGED <<rpc, sink, reader>>
      BY <2>6, ReceivedFits DEF RecvCredit
    <3> DEFINE credit == writer.credit + Head(up[c]).n
               w == [writer EXCEPT !.credit = credit]
    <3>2. credit \in Int
      BY <3>1 DEF AWriter
    <3>3. /\ \/ PushChunk(w) /\ w.state = "waiting"
             \/ writer' \in {w, writer} /\ UNCHANGED down
      BY <2>6 DEF RecvCredit
    <3> HIDE DEF credit
    <3>4. w \in AWriter /\ w.next = writer.next /\ w.state = writer.state
      BY <3>2 DEF AWriter
    <3> HIDE DEF w
    <3>5. CASE PushChunk(w) /\ w.state = "waiting"
      <4>1. w.next <= Len(file)
        BY <1>1, <3>4, <3>5 DEF Measured
      <4>2. /\ writer' \in AWriter
            /\ writer'.next <= Len(file) + 1
            /\ writer'.state = "waiting" => writer'.next <= Len(file)
            /\ writer'.state \in {"failed", "waiting", "idle"}
            /\ DownSound /\ DownFrom({Frame("data", w.next)}) /\ DownFit({Frame("data", w.next)})
        BY <3>1, <3>4, <3>5, <4>1, Pushed
      <4>3. SomeValues
        BY <1>2, <3>1, <4>2 DEF SomeValues
      <4>4. Measured'
        BY <1>1, <1>2, <3>1, <4>2 DEF Measured
      <4> QED BY <4>2, <4>3, <4>4
    <3>6. CASE writer' \in {w, writer} /\ UNCHANGED down
      <4>1. SomeValues
        BY <1>2, <3>1, <3>4, <3>6 DEF SomeValues
      <4>2. Measured'
        BY <1>1, <1>2, <3>1, <3>4, <3>6 DEF Measured
      <4> QED BY <1>3, <3>6, <4>1, <4>2
    <3> QED BY <3>3, <3>5, <3>6
  <2> QED BY <2>1, <2>2, <2>3, <2>4, <2>5, <2>6 DEF Receive
<1> QED BY <1>2, <1>4, TransferStays

LEMMA OneReply ==
  ASSUME Values, Travels, NEW f \in ToGatewayFrames, Reply(<<f>>)
  PROVE  UpSound /\ UpFrom({f})
<1> DEFINE fs == <<f>>
<1>1. fs \in Seq(ToGatewayFrames) /\ {fs[i] : i \in DOMAIN fs} = {f}
  OBVIOUS
<1> HIDE DEF fs
<1>2. UpSound /\ UpFrom({fs[i] : i \in DOMAIN fs})
  BY <1>1, UpGrows DEF fs
<1> QED BY <1>1, <1>2

LEMMA TwoReplies ==
  ASSUME Values, Travels, NEW f \in ToGatewayFrames, NEW g \in ToGatewayFrames, Reply(<<f, g>>)
  PROVE  UpSound /\ UpFrom({f, g})
<1> DEFINE fs == <<f, g>>
<1>1. fs \in Seq(ToGatewayFrames) /\ {fs[i] : i \in DOMAIN fs} = {f, g}
  <2>1. fs \in Seq(ToGatewayFrames) /\ DOMAIN fs = {1, 2} /\ fs[1] = f /\ fs[2] = g
    OBVIOUS
  <2> HIDE DEF fs
  <2> QED BY <2>1
<1> HIDE DEF fs
<1>2. UpSound /\ UpFrom({fs[i] : i \in DOMAIN fs})
  BY <1>1, UpGrows DEF fs
<1> QED BY <1>1, <1>2

LEMMA ClosedIs ==
  ASSUME handle \in AHandle
  PROVE  /\ CloseHandle \in AHandle /\ CloseHandle.state = "closed" /\ CloseHandle.listed = FALSE
         /\ CloseHandle.got = handle.got /\ CloseHandle.flushed = handle.flushed
         /\ CloseHandle.next = handle.next /\ CloseHandle.cut = handle.cut
         /\ CloseHandle.ending = handle.ending
BY DEF CloseHandle, AHandle

\* The agent's end after release().
LEMMA Released ==
  ASSUME Transfer, NEW h \in AHandle, Release(h), kind = "write"
  PROVE  /\ handle' = [h EXCEPT !.since = 0]
         /\ UpSound /\ \E f \in ToGatewayFrames : /\ f.t = "credit" /\ UpFrom({f}) /\ UpFit({f})
                                                  /\ UNCHANGED up \/ Reply(<<f>>)
<1>1. Values /\ Travels /\ h.since \in Nat
  BY DEF Transfer, AHandle
<1>2. /\ Frame("credit", h.since) \in ToGatewayFrames /\ Frame("credit", h.since).t = "credit"
  BY <1>1, FramesAre DEF ToGateway
<1>3. UpSound /\ UpFrom({Frame("credit", h.since)})
  <2>1. CASE h.since > 0
    BY <1>1, <1>2, <2>1, OneReply DEF Release
  <2>2. CASE ~(h.since > 0)
    BY <1>1, <2>2, UpStays DEF Release, UpFrom
  <2> QED BY <2>1, <2>2
<1>4. UpFit({Frame("credit", h.since)})
  BY <1>2 DEF UpFit
<1>5. UNCHANGED up \/ Reply(<<Frame("credit", h.since)>>)
  BY DEF Release
<1> QED BY <1>2, <1>3, <1>4, <1>5 DEF Release

LEMMA DeliveredFits ==
  ASSUME Transfer, NEW t, Delivered(t)
  PROVE  /\ DownSound /\ DownFrom({})
         /\ dialled \in Conns /\ dialled # 0
         /\ Head(down[dialled]).n \in Nat
         /\ t = "data" => kind = "write" /\ Head(down[dialled]).n \in Chunks
         /\ t = "credit" => kind = "read"
         /\ SameConnections /\ UNCHANGED <<kind, file, rpc, sink, reader, writer>>
<1>1. Values /\ Travels
  BY DEF Transfer
<1>2. /\ DownSound /\ DownFrom({}) /\ dialled \in Conns /\ dialled # 0
      /\ Head(down[dialled]) = down[dialled][1] /\ 1 \in DOMAIN down[dialled]
      /\ Head(down[dialled]).t = t /\ Head(down[dialled]).n \in Nat
  BY <1>1, DownShrinks
<1> QED BY <1>2 DEF Transfer, OneWay, Delivered, SameConnections

LEMMA DeliveringKeepsTransfer ==
  ASSUME Transfer, Deliver
  PROVE  Transfer'
<1> USE StillThere
<1>1. Values /\ Travels /\ Measured
  BY DEF Transfer
<1>2. /\ DownSound /\ DownFrom({}) /\ SameConnections
      /\ UNCHANGED <<kind, file, rpc, sink, reader, writer>>
  BY DeliveredFits DEF Deliver, RecvOpen, RecvReadCredit, RecvChunk, RecvStreamEnd
<1>3. ASSUME UNCHANGED up PROVE UpSound /\ UpFrom({}) /\ UpFit({})
  BY <1>1, <1>3, UpStays
<1>4. /\ \E F : UpSound /\ UpFrom(F) /\ UpFit(F) /\ SomeValues /\ Measured'
      /\ (handle.state = "none" => handle'.state = "none") \/ OneOpen'
  <2>1. CASE RecvOpen
    <3>1. handle' = [handle EXCEPT !.state = "opening"] /\ UNCHANGED <<up, lapsed>>
      BY <2>1 DEF RecvOpen
    <3>2. /\ dialled \in Conns /\ down[dialled] \in Seq(ToAgentFrames) /\ down[dialled] # <<>>
          /\ down' = [down EXCEPT ![dialled] = Tail(down[dialled])]
          /\ Head(down[dialled]) = down[dialled][1] /\ 1 \in DOMAIN down[dialled]
          /\ Head(down[dialled]).t = "open"
      BY <1>1, <2>1, DownShrinks DEF RecvOpen
    <3>3. handle.state = "none"
      BY <3>2 DEF Transfer, OneOpen
    <3>4. /\ handle' \in AHandle /\ handle'.got = handle.got /\ handle'.flushed = handle.flushed
          /\ handle'.next = handle.next /\ handle'.listed = handle.listed /\ handle'.state = "opening"
      BY <3>1 DEF AHandle
    <3>5. SomeValues
      BY <1>2, <3>1, <3>4 DEF SomeValues
    <3>6. Measured'
      BY <1>1, <1>2, <3>3, <3>4 DEF Measured
    <3>7. OneOpen'
      <4>1. SUFFICES ASSUME NEW c \in Conns, NEW i \in DOMAIN down'[c], down'[c][i].t = "open"
                     PROVE  FALSE
        BY DEF OneOpen
      <4>2. CASE c = dialled
        <5> DEFINE r == Tail(down[dialled])
        <5>1. \A k \in DOMAIN r : k + 1 \in DOMAIN down[dialled] /\ r[k] = down[dialled][k + 1] /\ k \in Nat \ {0}
          BY <3>2, Shrunk
        <5> HIDE DEF r
        <5>2. down'[c] = r
          BY <1>1, <3>2, <4>2 DEF Values, r
        <5>3. i + 1 \in DOMAIN down[c] /\ down[c][i + 1].t = "open" /\ i \in Nat \ {0}
          BY <4>1, <4>2, <5>1, <5>2
        <5>4. i + 1 = 1
          BY <5>3 DEF Transfer, OneOpen
        <5> QED BY <5>3, <5>4
      <4>3. CASE c # dialled
        BY <4>3, <1>1, <3>2, Empty DEF Travels, Values
      <4> QED BY <4>2, <4>3
    <3> QED BY <1>3, <3>1, <3>5, <3>6, <3>7
  <2>2. CASE RecvReadCredit
    <3>1. Head(down[dialled]).n \in Nat /\ kind = "read" /\ UNCHANGED <<up, lapsed>>
      BY <2>2, DeliveredFits DEF RecvReadCredit
    <3> DEFINE credit == handle.credit + Head(down[dialled]).n
               paused == handle.paused /\ credit <= 0
    <3>2. credit \in Int /\ paused \in BOOLEAN
      BY <3>1 DEF AHandle
    <3>3. handle' = handle \/ handle' = [handle EXCEPT !.credit = credit, !.paused = paused]
      BY <2>2 DEF RecvReadCredit
    <3> HIDE DEF credit, paused
    <3>4. /\ handle' \in AHandle /\ handle'.got = handle.got /\ handle'.flushed = handle.flushed
          /\ handle'.next = handle.next /\ handle'.listed = handle.listed /\ handle'.state = handle.state
      <4>1. handle \in AHandle
        BY <1>2
      <4>2. CASE handle' = handle
        BY <4>1, <4>2
      <4>3. CASE handle' = [handle EXCEPT !.credit = credit, !.paused = paused]
        BY <3>2, <4>1, <4>3 DEF AHandle
      <4> QED BY <3>3, <4>2, <4>3
    <3>5. SomeValues
      BY <1>2, <3>1, <3>4 DEF SomeValues
    <3>6. Measured'
      BY <1>1, <1>2, <3>4 DEF Measured
    <3> QED BY <1>3, <3>1, <3>4, <3>5, <3>6
  <2>3. CASE RecvChunk
    <3> DEFINE n == Head(down[dialled]).n
               h == [handle EXCEPT !.got = Append(@, n), !.since = @ + file[n]]
    <3>1. n \in Chunks /\ kind = "write" /\ UNCHANGED lapsed /\ file[n] \in Nat
      BY <2>3, <1>1, DeliveredFits, FileSizes DEF RecvChunk, Values
    <3>2. CASE ~handle.listed
      <4>1. UNCHANGED <<handle, up>>
        BY <2>3, <3>2 DEF RecvChunk
      <4>2. SomeValues /\ Measured'
        BY <1>1, <1>2, <3>1, <4>1 DEF SomeValues, Measured
      <4> QED BY <1>3, <4>1, <4>2
    <3>3. CASE handle.listed
      <4>1. Release(h) \/ (handle' = [h EXCEPT !.draining = TRUE] /\ UNCHANGED up)
        BY <2>3, <3>3 DEF RecvChunk
      <4> HIDE DEF h
      <4>2. /\ h \in AHandle /\ h.next = handle.next /\ h.listed = handle.listed /\ h.state = handle.state
            /\ h.flushed <= Len(h.got)
        <5> DEFINE got == Append(handle.got, n)
                   since == handle.since + file[n]
        <5>1. /\ got \in Seq(Chunks) /\ Len(got) = Len(handle.got) + 1 /\ Len(handle.got) \in Nat
              /\ since \in Nat /\ handle.flushed \in Nat
          BY <3>1, Grown DEF AHandle
        <5>2. h = [handle EXCEPT !.got = got, !.since = since]
          BY DEF h
        <5> HIDE DEF got, since
        <5>3. /\ h \in AHandle /\ h.next = handle.next /\ h.listed = handle.listed /\ h.state = handle.state
              /\ h.flushed = handle.flushed /\ h.got = got
          BY <5>1, <5>2 DEF AHandle
        <5>4. handle.flushed <= Len(handle.got) + 1
          BY <5>1
        <5> QED BY <5>1, <5>3, <5>4
      <4>3. ASSUME handle' = [h EXCEPT !.since = 0] \/ handle' = [h EXCEPT !.draining = TRUE]
            PROVE  SomeValues /\ Measured' /\ handle'.state = handle.state
        <5>1. /\ handle' \in AHandle /\ handle'.next = handle.next /\ handle'.listed = handle.listed
              /\ handle'.state = handle.state /\ handle'.flushed <= Len(handle'.got)
          <6>1. /\ handle' \in AHandle /\ handle'.next = h.next /\ handle'.listed = h.listed
                /\ handle'.state = h.state /\ handle'.flushed = h.flushed /\ handle'.got = h.got
            <7>1. CASE handle' = [h EXCEPT !.since = 0]
              BY <4>2, <7>1 DEF AHandle
            <7>2. CASE handle' = [h EXCEPT !.draining = TRUE]
              BY <4>2, <7>2 DEF AHandle
            <7> QED BY <4>3, <7>1, <7>2
          <6> QED BY <4>2, <6>1
        <5>2. SomeValues
          BY <1>2, <3>1, <5>1 DEF SomeValues
        <5>3. Measured'
          BY <1>1, <1>2, <3>1, <5>1 DEF Measured
        <5> QED BY <5>1, <5>2, <5>3
      <4>4. CASE Release(h)
        BY <3>1, <4>2, <4>3, <4>4, Released
      <4>5. CASE handle' = [h EXCEPT !.draining = TRUE] /\ UNCHANGED up
        BY <1>3, <4>3, <4>5
      <4> QED BY <4>1, <4>4, <4>5
    <3> QED BY <3>2, <3>3
  <2>4. CASE RecvStreamEnd
    <3>1. UNCHANGED up /\ lapsed' \subseteq StreamRaces
      BY <2>4 DEF RecvStreamEnd, Lapse
    <3>2. /\ handle' \in {handle, CloseHandle, [handle EXCEPT !.ending = TRUE]}
          /\ handle.state = "none" => handle' = handle
      BY <1>1, <2>4 DEF RecvStreamEnd, Measured
    <3>3. /\ handle' \in AHandle /\ handle'.got = handle.got /\ handle'.flushed = handle.flushed
          /\ handle'.next = handle.next
          /\ \/ handle'.listed = handle.listed /\ handle'.state = handle.state
             \/ handle'.listed = FALSE /\ handle'.state = "closed"
      BY <3>2, ClosedIs DEF AHandle
    <3>4. SomeValues
      BY <1>2, <3>1, <3>3 DEF SomeValues
    <3>5. Measured'
      BY <1>1, <1>2, <3>3 DEF Measured
    <3> QED BY <1>3, <3>1, <3>2, <3>4, <3>5
  <2> QED BY <2>1, <2>2, <2>3, <2>4 DEF Deliver
<1> QED BY <1>2, <1>4, TransferStays

LEMMA AgentKeepsTransfer ==
  ASSUME Transfer,
         Opened \/ OpenFails \/ ReadChunk \/ ReadEnds \/ ReadFails \/ Flush \/ Finish \/ WriteFails
  PROVE  Transfer'
<1> USE StillThere
<1>1. /\ Values /\ Travels /\ Measured /\ SameConnections
      /\ UNCHANGED <<down, kind, file, rpc, sink, reader, writer>>
  BY DEF Transfer, Opened, OpenFails, ReadChunk, ReadEnds, ReadFails, Flush, Finish, WriteFails, SameConnections
<1>2. DownSound /\ DownFrom({})
  BY <1>1, DownStays
<1>3. /\ \A t \in ToGateway, n \in Nat : /\ Frame(t, n) \in ToGatewayFrames
                                         /\ Frame(t, n).t = t /\ Frame(t, n).n = n
      /\ {"ok", "err", "end", "error"} \subseteq ToGateway /\ "data" \in ToGateway /\ 0 \in Nat
  BY FramesAre DEF ToGateway
<1>4. ASSUME NEW t \in {"ok", "err", "end", "error"}, Reply(<<Frame(t, 0)>>)
      PROVE  UpSound /\ UpFrom({Frame(t, 0)}) /\ UpFit({Frame(t, 0)})
  <2>1. Frame(t, 0) \in ToGatewayFrames /\ Frame(t, 0).t = t
    BY <1>3
  <2>2. UpSound /\ UpFrom({Frame(t, 0)})
    BY <1>1, <1>4, <2>1, OneReply
  <2>3. UpFit({Frame(t, 0)})
    BY <2>1 DEF UpFit
  <2> QED BY <2>2, <2>3
<1>5. ASSUME handle' = CloseHandle, lapsed' \subseteq StreamRaces, handle.state # "none"
      PROVE  SomeValues /\ Measured' /\ (handle.state = "none" => handle'.state = "none")
  <2>1. /\ handle' \in AHandle /\ handle'.state = "closed" /\ handle'.listed = FALSE
        /\ handle'.got = handle.got /\ handle'.flushed = handle.flushed /\ handle'.next = handle.next
    BY <1>5, ClosedIs
  <2>2. SomeValues
    BY <1>1, <1>5, <2>1 DEF SomeValues
  <2>3. Measured'
    BY <1>1, <2>1 DEF Measured
  <2> QED BY <1>5, <2>2, <2>3
<1>6. /\ \E F : UpSound /\ UpFrom(F) /\ UpFit(F)
      /\ SomeValues /\ Measured' /\ (handle.state = "none" => handle'.state = "none")
  <2>1. CASE Opened
    <3>1. /\ handle' = [handle EXCEPT !.state = "open", !.listed = TRUE] /\ Reply(<<Frame("ok", 0)>>)
          /\ lapsed' \subseteq StreamRaces /\ handle.state = "opening"
      BY <2>1 DEF Opened, Lapse
    <3>2. /\ handle' \in AHandle /\ handle'.got = handle.got /\ handle'.flushed = handle.flushed
          /\ handle'.next = handle.next /\ handle'.listed = TRUE /\ handle'.state = "open"
      BY <3>1 DEF AHandle
    <3>3. SomeValues
      BY <1>1, <3>1, <3>2 DEF SomeValues
    <3>4. Measured'
      BY <1>1, <3>2 DEF Measured
    <3> QED BY <1>4, <3>1, <3>3, <3>4
  <2>2. CASE OpenFails
    BY <1>4, <1>5, <2>2 DEF OpenFails
  <2>3. CASE ReadChunk
    <3> DEFINE next == handle.next + 1
               credit == handle.credit - file[handle.next]
               paused == credit <= 0
    <3>1. /\ handle' = [handle EXCEPT !.next = next, !.credit = credit, !.paused = paused]
          /\ Reply(<<Frame("data", handle.next)>>) /\ kind = "read" /\ handle.next <= Len(file)
          /\ UNCHANGED lapsed /\ handle.state = "open"
      BY <2>3 DEF ReadChunk, Reading
    <3>2. handle.next \in Nat \ {0} /\ Len(file) \in Nat /\ handle.credit \in Int
      BY <1>1, FileSizes DEF Values, AHandle
    <3>3. handle.next \in Chunks
      BY <3>1, <3>2 DEF Chunks
    <3>4. file[handle.next] \in Nat
      BY <1>1, <3>3, FileSizes DEF Values
    <3>5. credit \in Int /\ paused \in BOOLEAN /\ next \in Nat \ {0} /\ next <= Len(file) + 1
      BY <3>1, <3>2, <3>4
    <3> HIDE DEF next, credit, paused
    <3>6. /\ handle' \in AHandle /\ handle'.got = handle.got /\ handle'.flushed = handle.flushed
          /\ handle'.next = next /\ handle'.listed = handle.listed /\ handle'.state = handle.state
      BY <3>1, <3>5 DEF AHandle
    <3>7. SomeValues
      BY <1>1, <3>1, <3>6 DEF SomeValues
    <3>8. Measured'
      BY <1>1, <3>5, <3>6 DEF Measured
    <3>9. /\ Frame("data", handle.next) \in ToGatewayFrames
          /\ Frame("data", handle.next).t = "data" /\ Frame("data", handle.next).n = handle.next
      BY <1>3, <3>2
    <3>10. UpSound /\ UpFrom({Frame("data", handle.next)})
      BY <1>1, <3>1, <3>9, OneReply
    <3>11. UpFit({Frame("data", handle.next)})
      BY <3>1, <3>3, <3>9 DEF UpFit
    <3> QED BY <3>1, <3>7, <3>8, <3>10, <3>11
  <2>4. CASE ReadEnds \/ ReadFails \/ Finish
    <3>1. /\ handle' = CloseHandle /\ UNCHANGED lapsed /\ handle.state = "open"
          /\ \E t \in {"ok", "err", "end", "error"} : Reply(<<Frame(t, 0)>>)
      BY <2>4 DEF ReadEnds, ReadFails, Finish, Reading
    <3> QED BY <1>4, <1>5, <3>1
  <2>5. CASE WriteFails
    <3>1. handle' = CloseHandle /\ lapsed' \subseteq StreamRaces /\ handle.state = "open"
      BY <2>5 DEF WriteFails, Lapse
    <3>2. CASE handle.ending
      <4>1. Reply(<<Frame("end", 0), Frame("error", 0)>>)
        BY <2>5, <3>2 DEF WriteFails
      <4>2. /\ Frame("end", 0) \in ToGatewayFrames /\ Frame("error", 0) \in ToGatewayFrames
            /\ Frame("end", 0).t = "end" /\ Frame("error", 0).t = "error"
        BY <1>3
      <4>3. UpSound /\ UpFrom({Frame("end", 0), Frame("error", 0)})
        BY <1>1, <4>1, <4>2, TwoReplies
      <4>4. UpFit({Frame("end", 0), Frame("error", 0)})
        BY <4>2 DEF UpFit
      <4> QED BY <1>5, <3>1, <4>3, <4>4
    <3>3. CASE ~handle.ending
      BY <1>4, <1>5, <2>5, <3>1, <3>3 DEF WriteFails
    <3> QED BY <3>2, <3>3
  <2>6. CASE Flush
    <3> DEFINE flushed == handle.flushed + 1
               h == [handle EXCEPT !.flushed = flushed]
               g == [h EXCEPT !.draining = FALSE]
    <3>1. /\ kind = "write" /\ handle.flushed < Len(handle.got) /\ UNCHANGED lapsed
          /\ \/ Release(g)
             \/ handle' = h /\ UNCHANGED up
      BY <2>6 DEF Flush
    <3>2. flushed \in Nat /\ flushed <= Len(handle.got)
      <4>1. handle.flushed \in Nat
        BY DEF AHandle
      <4> QED BY <3>1, <4>1
    <3> HIDE DEF flushed
    <3>3. /\ h \in AHandle /\ h.got = handle.got /\ h.flushed = flushed
          /\ h.next = handle.next /\ h.listed = handle.listed /\ h.state = handle.state
      BY <3>2 DEF AHandle
    <3> HIDE DEF h
    <3>4. /\ g \in AHandle /\ g.got = handle.got /\ g.flushed = flushed
          /\ g.next = handle.next /\ g.listed = handle.listed /\ g.state = handle.state
      BY <3>3 DEF AHandle
    <3> HIDE DEF g
    <3>5. CASE Release(g)
      <4>1. /\ handle' = [g EXCEPT !.since = 0]
            /\ UpSound /\ \E f \in ToGatewayFrames : UpFrom({f}) /\ UpFit({f})
        BY <3>1, <3>4, <3>5, Released
      <4>2. /\ handle' \in AHandle /\ handle'.got = handle.got /\ handle'.flushed = flushed
            /\ handle'.next = handle.next /\ handle'.listed = handle.listed /\ handle'.state = handle.state
        BY <3>4, <4>1 DEF AHandle
      <4>3. SomeValues
        BY <1>1, <3>1, <3>2, <4>2 DEF SomeValues
      <4>4. Measured'
        BY <1>1, <4>2 DEF Measured
      <4> QED BY <4>1, <4>2, <4>3, <4>4
    <3>6. CASE handle' = h /\ UNCHANGED up
      <4>1. UpSound /\ UpFrom({})
        BY <1>1, <3>6, UpStays
      <4>2. SomeValues
        BY <1>1, <3>1, <3>2, <3>3, <3>6 DEF SomeValues
      <4>3. Measured'
        BY <1>1, <3>3, <3>6 DEF Measured
      <4> QED BY <3>3, <3>6, <4>1, <4>2, <4>3
    <3> QED BY <3>1, <3>5, <3>6
  <2> QED BY <2>1, <2>2, <2>3, <2>4, <2>5, <2>6
<1> QED BY <1>1, <1>2, <1>6, TransferStays

LEMMA CutKeepsTransfer ==
  ASSUME Transfer, AgentSeesClose
  PROVE  /\ Transfer'
         /\ \A c \in Conns : down'[c] = <<>>
         /\ handle' \in AHandle /\ handle'.got = handle.got /\ handle'.flushed = handle.flushed
         /\ handle'.next = handle.next /\ handle'.ending = handle.ending /\ handle'.listed = FALSE
         /\ handle'.state = (IF handle.state = "open" THEN "closed" ELSE handle.state)
         /\ handle'.cut = (handle.cut \/ handle.state = "opening")
<1> USE StillThere
<1>1. /\ Values /\ Travels /\ Measured /\ dialled \in Conns
      /\ UNCHANGED <<kind, file, made, socket, open, up, rpc, sink, reader, writer, lapsed>>
      /\ dialled' = 0 /\ down' = [down EXCEPT ![dialled] = <<>>]
  BY InUse DEF Transfer, AgentSeesClose
<1>2. \A c \in Conns : down'[c] = <<>>
  BY <1>1 DEF Values, Travels
<1>3. handle' \in AHandle /\ handle'.got = handle.got /\ handle'.flushed = handle.flushed
      /\ handle'.next = handle.next /\ handle'.ending = handle.ending /\ handle'.listed = FALSE
      /\ handle'.state = (IF handle.state = "open" THEN "closed" ELSE handle.state)
      /\ handle'.cut = (handle.cut \/ handle.state = "opening")
  <2>1. CASE handle.listed
    BY <1>1, <2>1, ClosedIs DEF AgentSeesClose, Measured, AHandle
  <2>2. CASE ~handle.listed
    <3> DEFINE cut == handle.cut \/ handle.state = "opening"
    <3>1. handle' = [handle EXCEPT !.cut = cut] /\ cut \in BOOLEAN
      BY <2>2 DEF AgentSeesClose, AHandle
    <3> HIDE DEF cut
    <3>2. /\ handle' \in AHandle /\ handle'.got = handle.got /\ handle'.flushed = handle.flushed
          /\ handle'.next = handle.next /\ handle'.ending = handle.ending
          /\ handle'.listed = handle.listed /\ handle'.state = handle.state /\ handle'.cut = cut
      BY <3>1 DEF AHandle
    <3>3. handle.state # "open" /\ handle'.listed = FALSE
      BY <1>1, <2>2, <3>2 DEF Measured, AHandle
    <3> QED BY <3>2, <3>3 DEF cut
  <2> QED BY <2>1, <2>2
<1>4. AReader' = AReader /\ AWriter' = AWriter /\ AHandle' = AHandle /\ Chunks' = Chunks
  BY <1>1 DEF AReader, AWriter, AHandle, Chunks
<1>5. Values'
  <2>1. down' \in [Conns -> Seq(ToAgentFrames)]
    BY <1>1, Empty DEF Values
  <2>2. handle'.flushed <= Len(handle'.got)
    BY <1>3
  <2> QED BY <1>1, <1>3, <1>4, <2>1, <2>2 DEF Values
<1>6. Travels'
  BY <1>1, <1>2 DEF Travels
<1>7. OneWay'
  <2>1. \A c \in Conns : DOMAIN down'[c] = {}
    BY <1>2
  <2> QED BY <1>1, <1>4, <2>1 DEF Transfer, OneWay
<1>8. Measured'
  BY <1>1, <1>3 DEF Measured
<1>9. OneOpen'
  BY <1>2 DEF OneOpen
<1> QED BY <1>2, <1>3, <1>5, <1>6, <1>7, <1>8, <1>9 DEF Transfer

LEMMA ReconnectKeepsTransfer ==
  ASSUME Transfer, Reconnect
  PROVE  /\ Transfer'
         /\ \A c \in Conns : down'[c] = <<>> /\ up'[c] = up[c]
<1> USE StillThere
<1>1. /\ Values /\ Travels /\ Measured /\ dialled = 0 /\ made < MaxConns
      /\ made' = made + 1 /\ dialled' = made + 1 /\ socket' = made + 1 /\ open' = open \cup {made + 1}
      /\ UNCHANGED <<kind, file, up, down, rpc, sink, reader, writer, handle>> /\ lapsed' \subseteq StreamRaces
  BY DEF Transfer, Reconnect, Lapse
<1>2. made \in Nat /\ MaxConns \in Nat /\ made' \in Conns /\ 1 .. made \subseteq 1 .. made'
  BY <1>1, WindowAssumption DEF Values, Conns
<1>3. \A c \in Conns : down'[c] = <<>> /\ up'[c] = up[c] /\ c # 0
  BY <1>1 DEF Values, Travels, Conns
<1>4. AReader' = AReader /\ AWriter' = AWriter /\ AHandle' = AHandle /\ Chunks' = Chunks
  BY <1>1 DEF AReader, AWriter, AHandle, Chunks
<1>5. Values'
  <2>1. open' \subseteq 1 .. made'
    BY <1>1, <1>2 DEF Values
  <2> QED BY <1>1, <1>2, <1>4, <2>1 DEF Values
<1>6. Travels'
  BY <1>1, <1>3 DEF Travels
<1>7. OneWay'
  BY <1>1, <1>4 DEF Transfer, OneWay
<1>8. Measured'
  BY <1>1 DEF Measured
<1>9. OneOpen'
  BY <1>1 DEF Transfer, OneOpen
<1> QED BY <1>3, <1>5, <1>6, <1>7, <1>8, <1>9 DEF Transfer

LEMMA LostKeepsTransfer ==
  ASSUME Transfer, NEW c \in Conns, GatewaySeesClose(c)
  PROVE  /\ Transfer' /\ up' = [up EXCEPT ![c] = <<>>]
         /\ \/ socket # c /\ UNCHANGED <<socket, rpc, sink, reader, writer>>
            \/ /\ socket = c /\ socket' = 0 /\ FailSink
               /\ rpc' = IF rpc = "pending" THEN "rejected" ELSE rpc
<1> USE StillThere
<1>1. /\ Values /\ Travels /\ Measured /\ c \in open /\ open' = open \ {c}
      /\ UNCHANGED <<kind, file, made, dialled, down, handle, lapsed>>
      /\ up' = [up EXCEPT ![c] = <<>>]
      /\ \/ socket # c /\ UNCHANGED <<socket, rpc, sink, reader, writer>>
         \/ /\ socket = c /\ socket' = 0 /\ FailSink
            /\ rpc' = IF rpc = "pending" THEN "rejected" ELSE rpc
  BY DEF Transfer, GatewaySeesClose
<1>2. /\ SomeValues /\ socket' \in {0, made} /\ (socket' # 0 => socket' \in open')
      /\ writer'.next = writer.next /\ writer'.state \in {writer.state, "failed"}
      /\ kind = "read" => writer' = writer
      /\ kind = "write" => reader' = reader
  <2>1. CASE socket # c /\ UNCHANGED <<socket, rpc, sink, reader, writer>>
    BY <1>1, <2>1 DEF SomeValues, Values, Travels
  <2>2. CASE /\ socket = c /\ socket' = 0 /\ FailSink
             /\ rpc' = IF rpc = "pending" THEN "rejected" ELSE rpc
    <3>1. /\ sink' = FALSE /\ reader' \in AReader /\ writer' \in AWriter
          /\ writer'.next = writer.next /\ writer'.state \in {writer.state, "failed"}
          /\ kind = "read" => writer' = writer
          /\ kind = "write" => reader' = reader
      BY <2>2, Failed
    <3> QED BY <1>1, <2>2, <3>1 DEF SomeValues
  <2> QED BY <1>1, <2>1, <2>2
<1>3. AReader' = AReader /\ AWriter' = AWriter /\ AHandle' = AHandle /\ Chunks' = Chunks
  BY <1>1 DEF AReader, AWriter, AHandle, Chunks
<1>4. up' \in [Conns -> Seq(ToGatewayFrames)]
  BY <1>1, Empty DEF Values
<1>5. Values'
  BY <1>1, <1>2, <1>3, <1>4 DEF Values, SomeValues
<1>6. \A d \in Conns : up'[d] = IF d = c THEN <<>> ELSE up[d]
  BY <1>1 DEF Values
<1>7. Travels'
  BY <1>1, <1>2, <1>6 DEF Travels
<1>8. OneWay'
  <2>1. \A d \in Conns : \A i \in DOMAIN up'[d] : d # c /\ i \in DOMAIN up[d] /\ up'[d][i] = up[d][i]
    BY <1>6, Empty
  <2> QED BY <1>1, <1>3, <2>1 DEF Transfer, OneWay
<1>9. Measured'
  BY <1>1, <1>2 DEF Measured, NewWriter
<1>10. OneOpen'
  BY <1>1 DEF Transfer, OneOpen
<1> QED BY <1>1, <1>5, <1>7, <1>8, <1>9, <1>10 DEF Transfer

LEMMA TransferNext == ASSUME Transfer, [StreamNext]_streamVars PROVE Transfer'
<1>1. CASE UNCHANGED streamVars
  <2>1. AReader' = AReader /\ AWriter' = AWriter /\ AHandle' = AHandle
    BY <1>1 DEF streamVars, AReader, AWriter, AHandle, Chunks
  <2>2. Values'
    BY <1>1, <2>1 DEF streamVars, Transfer, Values
  <2>3. Travels' /\ OneOpen'
    BY <1>1 DEF streamVars, Transfer, Travels, OneOpen
  <2>4. OneWay'
    BY <1>1 DEF streamVars, Transfer, OneWay, Chunks
  <2>5. Measured'
    BY <1>1 DEF streamVars, Transfer, Measured
  <2> QED BY <2>2, <2>3, <2>4, <2>5 DEF Transfer
<1>2. CASE StreamNext
  <2>1. CASE RpcTimesOut \/ SourceFails \/ Take \/ TakeEnd
    BY <2>1, QuietKeepsTransfer
  <2>2. CASE WriteChunk \/ FinishWriting \/ Read \/ CancelRead
    BY <2>2, SendingKeepsTransfer
  <2>3. ASSUME NEW c \in Conns, Receive(c) \/ GatewaySeesClose(c) PROVE Transfer'
    BY <2>3, ReceivingKeepsTransfer, LostKeepsTransfer
  <2>4. CASE Deliver
    BY <2>4, DeliveringKeepsTransfer
  <2>5. CASE Opened \/ OpenFails \/ ReadChunk \/ ReadEnds \/ ReadFails \/ Flush \/ Finish \/ WriteFails
    BY <2>5, AgentKeepsTransfer
  <2>6. CASE AgentSeesClose \/ Reconnect
    BY <2>6, CutKeepsTransfer, ReconnectKeepsTransfer
  <2> QED BY <1>2, <2>1, <2>2, <2>3, <2>4, <2>5, <2>6 DEF StreamNext
<1> QED BY <1>1, <1>2

LEMMA TransferInit == ASSUME StreamInit PROVE Transfer
<1>1. 1 \in Conns /\ Window \in Nat
  BY WindowAssumption DEF Conns
<1>2. Frame("open", 0) \in ToAgentFrames /\ Frame("open", 0).t = "open"
  BY FramesAre DEF ToAgent
<1> DEFINE q == <<Frame("open", 0)>>
<1>3. q \in Seq(ToAgentFrames) /\ DOMAIN q = {1} /\ q[1] = Frame("open", 0) /\ q # <<>>
  BY <1>2
<1> HIDE DEF q
<1>4. /\ down = [c \in Conns |-> IF c = 1 THEN q ELSE <<>>] /\ up = [c \in Conns |-> <<>>]
      /\ kind \in {"read", "write"} /\ file \in Files
      /\ made = 1 /\ dialled = 1 /\ socket = 1 /\ open = {1}
      /\ rpc = "pending" /\ sink = TRUE
      /\ reader = NewReader /\ writer = NewWriter /\ handle = NewHandle /\ lapsed = {}
  BY DEF StreamInit, q
<1>5. Len(file) \in Nat /\ <<>> \in Seq(Chunks) /\ Len(<<>>) = 0
  BY <1>4, FileSizes
<1>6. reader \in AReader /\ writer \in AWriter /\ handle \in AHandle
  BY <1>1, <1>4, <1>5 DEF AReader, AWriter, AHandle, NewReader, NewWriter, NewHandle, PendingStates
<1>7. Values
  <2>1. handle.flushed <= Len(handle.got)
    BY <1>4, <1>5 DEF NewHandle
  <2>2. /\ up \in [Conns -> Seq(ToGatewayFrames)]
        /\ down \in [Conns -> Seq(ToAgentFrames)]
    BY <1>3, <1>4, Empty
  <2> QED BY <1>1, <1>4, <1>6, <2>1, <2>2 DEF Values
<1>8. Travels
  BY <1>4 DEF Travels
<1>9. OneWay /\ OneOpen
  <2>1. /\ \A c \in Conns : DOMAIN up[c] = {}
        /\ \A c \in Conns : \A i \in DOMAIN down[c] : c = 1 /\ i = 1 /\ down[c][i].t = "open"
    BY <1>2, <1>3, <1>4, Empty
  <2>2. handle.state = "none"
    BY <1>4 DEF NewHandle
  <2> QED BY <2>1, <2>2 DEF OneWay, OneOpen
<1>10. Measured
  BY <1>4, <1>5 DEF Measured, NewHandle, NewWriter
<1> QED BY <1>7, <1>8, <1>9, <1>10 DEF Transfer

\* Whatever happens to a transfer, its variables keep their types.
THEOREM StreamTypeCorrect == StreamSpec => []StreamTypeOK
<1>1. Transfer => StreamTypeOK
  <2> SUFFICES ASSUME Transfer PROVE StreamTypeOK
    OBVIOUS
  <2>1. made \in Nat /\ 0 \in 0 .. made /\ made \in 0 .. made
    BY WindowAssumption DEF Transfer, Values, Conns
  <2>2. handle.flushed \in 0 .. Len(handle.got)
    BY StillThere DEF AHandle
  <2>3. handle \in [state : {"none", "opening", "open", "closed"}, listed : BOOLEAN, cut : BOOLEAN,
                 credit : Int, next : Nat \ {0}, paused : BOOLEAN,
                 got : Seq(Chunks), flushed : 0 .. Len(handle.got), since : Nat,
                 draining : BOOLEAN, ending : BOOLEAN]
    BY <2>2 DEF Transfer, Values, AHandle
  <2> QED BY <2>1, <2>3
          DEF Transfer, Values, StreamTypeOK, ToAgentFrames, ToGatewayFrames, AReader, AWriter
<1> QED BY <1>1, TransferInit, TransferNext, PTL DEF StreamSpec

-----------------------------------------------------------------------------
(* How a stream begins, and what the agent has said once it is over.         *)

Unopened == {"none", "opening"}
LastWords == {"err", "end", "error"}
Heard(t) == \E c \in Conns : \E i \in DOMAIN up[c] : up[c][i].t = t

Asked == handle.state = "none" /\ dialled = 1 => down[1] # <<>> /\ down[1][1].t = "open"
Unanswered == handle.state \in Unopened => handle.next = 1 /\ \A c \in Conns : up[c] = <<>>
Replied == \A c \in Conns : \A i \in DOMAIN up[c] :
             /\ up[c][i].t \in LastWords => handle.state = "closed"
             /\ up[c][i].t = "ok" => i = 1
OnTime == /\ handle.state = "opening" => dialled = 1 \/ handle.cut
          /\ handle.state = "none" => ~handle.cut
          /\ handle.state = "open" /\ "lateOpen" \notin lapsed => dialled = 1
Resolved == rpc = "resolved" \/ Heard("ok")
              => handle.state \notin Unopened /\ (handle.listed => dialled # 0)
Begun == Asked /\ Unanswered /\ Replied /\ OnTime /\ Resolved

\* Everything the gateway does by itself, or on hearing from the agent.
GatewayActs ==
  \/ RpcTimesOut \/ SourceFails \/ Take \/ TakeEnd
  \/ WriteChunk \/ FinishWriting \/ Read \/ CancelRead
  \/ \E c \in Conns : Receive(c)
DownKeeps == \A c \in Conns : \A i \in DOMAIN down[c] : i \in DOMAIN down'[c] /\ down'[c][i] = down[c][i]

LEMMA SendKeeps ==
  ASSUME Values, NEW f \in ToAgentFrames, Send(f) \/ UNCHANGED down
  PROVE  DownKeeps
<1>1. CASE UNCHANGED down
  BY <1>1 DEF DownKeeps
<1>2. CASE socket = dialled /\ dialled # 0 /\ down' = [down EXCEPT ![dialled] = Append(down[dialled], f)]
  <2> DEFINE r == Append(down[dialled], f)
  <2>1. dialled \in Conns /\ down[dialled] \in Seq(ToAgentFrames)
    BY <1>2, InUse DEF Values
  <2>2. \A i \in DOMAIN down[dialled] : i \in DOMAIN r /\ r[i] = down[dialled][i]
    BY <2>1, Grown
  <2>3. down' = [down EXCEPT ![dialled] = r]
    BY <1>2
  <2> HIDE DEF r
  <2> QED BY <2>1, <2>2, <2>3 DEF Values, DownKeeps
<1> QED BY <1>1, <1>2 DEF Send

LEMMA PushKeeps ==
  ASSUME Transfer, NEW w \in AWriter, w.next <= Len(file), kind = "write", PushChunk(w)
  PROVE  DownKeeps
<1>1. PushFails(w) \/ PushWaits(w) \/ PushGoes(w)
  BY Pushed
<1>2. Frame("data", w.next) \in ToAgentFrames /\ Values
  BY FramesAre DEF Transfer, AWriter, ToAgent
<1> QED BY <1>1, <1>2, SendKeeps DEF PushFails, PushWaits, PushGoes

LEMMA EndKeeps == ASSUME Transfer, NEW w \in AWriter, Finalize(w) PROVE DownKeeps
<1>1. EndFails(w) \/ EndGoes(w)
  BY Finalized
<1>2. Frame("end", 0) \in ToAgentFrames /\ Values
  BY FramesAre DEF Transfer, ToAgent
<1> QED BY <1>1, <1>2, SendKeeps DEF EndFails, EndGoes

LEMMA GatewayMoves ==
  ASSUME Transfer, GatewayActs
  PROVE  /\ UNCHANGED <<kind, file, made, dialled, socket, open, handle>>
         /\ DownKeeps /\ UpFrom({}) /\ lapsed \subseteq lapsed'
         /\ rpc' = "resolved" => rpc = "resolved" \/ Heard("ok")
<1>1. Values /\ Travels /\ Measured
  BY DEF Transfer
<1>2. ASSUME UNCHANGED down PROVE DownKeeps
  BY <1>2 DEF DownKeeps
<1>3. CASE RpcTimesOut \/ SourceFails \/ Take \/ TakeEnd
  <2>1. /\ UNCHANGED <<kind, file, made, dialled, socket, open, handle, up, down>>
        /\ lapsed \subseteq lapsed' /\ rpc' \in {rpc, "rejected"}
    BY <1>3 DEF RpcTimesOut, SourceFails, Take, TakeEnd, Lapse, RejectOpen
  <2> QED BY <1>1, <1>2, <2>1, UpStays
<1>4. CASE WriteChunk \/ FinishWriting \/ Read \/ CancelRead
  <2>1. /\ UNCHANGED <<kind, file, made, dialled, socket, open, handle, up, lapsed, rpc>>
    BY <1>4 DEF WriteChunk, FinishWriting, Read, CancelRead
  <2>2. writer \in AWriter /\ reader.owed \in Nat
    BY <1>1 DEF Values, AReader
  <2>3. /\ Frame("end", 0) \in ToAgentFrames /\ Frame("credit", reader.owed) \in ToAgentFrames
    BY <2>2, FramesAre DEF ToAgent
  <2>4. CASE WriteChunk
    <3>1. kind = "write" /\ writer.next <= Len(file) /\ (PushChunk(writer) \/ UNCHANGED down)
      BY <2>4 DEF WriteChunk
    <3>2. DownKeeps
      BY <1>2, <2>2, <3>1, PushKeeps
    <3> QED BY <1>1, <2>1, <3>2, UpStays
  <2>5. CASE FinishWriting
    <3>1. Finalize(writer) \/ UNCHANGED down
      BY <2>5 DEF FinishWriting
    <3>2. DownKeeps
      BY <1>2, <2>2, <3>1, EndKeeps
    <3> QED BY <1>1, <2>1, <3>2, UpStays
  <2>6. CASE Read
    <3>1. Send(Frame("credit", reader.owed)) \/ UNCHANGED down
      BY <2>6 DEF Read
    <3>2. DownKeeps
      BY <1>1, <2>3, <3>1, SendKeeps
    <3> QED BY <1>1, <2>1, <3>2, UpStays
  <2>7. CASE CancelRead
    <3>1. Send(Frame("end", 0)) \/ UNCHANGED down
      BY <2>7 DEF CancelRead
    <3>2. DownKeeps
      BY <1>1, <2>3, <3>1, SendKeeps
    <3> QED BY <1>1, <2>1, <3>2, UpStays
  <2> QED BY <1>4, <2>4, <2>5, <2>6, <2>7
<1>5. CASE \E c \in Conns : Receive(c)
  <2>1. PICK c \in Conns : Receive(c)
    BY <1>5
  <2>2. PICK t : Received(c, t)
    BY <2>1 DEF Receive, RecvOk, RecvErr, RecvData, RecvEnd, RecvError, RecvCredit
  <2>3. /\ UpFrom({}) /\ UNCHANGED <<kind, file, made, dialled, socket, open, handle, lapsed>>
    BY <2>2, ReceivedFits DEF SameConnections
  <2>4. writer \in AWriter
    BY <1>1 DEF Values
  <2>5. CASE RecvOk(c)
    <3>1. up[c] # <<>> /\ Head(up[c]) = up[c][1] /\ 1 \in DOMAIN up[c] /\ Head(up[c]).t = "ok"
      BY <1>1, <2>5, UpShrinks DEF RecvOk
    <3>2. Heard("ok")
      BY <3>1 DEF Heard
    <3>3. \/ UNCHANGED down
          \/ PushChunk(writer) /\ writer.state = "opening"
          \/ Finalize(writer) /\ writer.state = "finalOpening"
      BY <2>5 DEF RecvOk
    <3>4. CASE PushChunk(writer) /\ writer.state = "opening"
      <4>1. kind = "write" /\ writer.next <= Len(file)
        BY <1>1, <3>4 DEF Measured, NewWriter, Values
      <4> QED BY <2>3, <2>4, <3>2, <3>4, <4>1, PushKeeps
    <3> QED BY <1>2, <2>3, <2>4, <3>2, <3>3, <3>4, EndKeeps
  <2>6. CASE RecvErr(c) \/ RecvData(c) \/ RecvEnd(c) \/ RecvError(c)
    <3>1. UNCHANGED down /\ rpc' \in {rpc, "rejected"}
      BY <2>6 DEF RecvErr, RecvData, RecvEnd, RecvError, RejectOpen
    <3> QED BY <1>2, <2>3, <3>1
  <2>7. CASE RecvCredit(c)
    <3>1. kind = "write" /\ Head(up[c]).n \in Nat /\ UNCHANGED rpc
      BY <2>7, ReceivedFits DEF RecvCredit
    <3> DEFINE credit == writer.credit + Head(up[c]).n
               w == [writer EXCEPT !.credit = credit]
    <3>2. credit \in Int
      BY <2>4, <3>1 DEF AWriter
    <3>3. (PushChunk(w) /\ w.state = "waiting") \/ UNCHANGED down
      BY <2>7 DEF RecvCredit
    <3> HIDE DEF credit
    <3>4. w \in AWriter /\ w.next = writer.next /\ w.state = writer.state
      BY <2>4, <3>2 DEF AWriter
    <3> HIDE DEF w
    <3>5. CASE PushChunk(w) /\ w.state = "waiting"
      <4>1. w.next <= Len(file)
        BY <1>1, <3>4, <3>5 DEF Measured
      <4> QED BY <2>3, <3>1, <3>4, <3>5, <4>1, PushKeeps
    <3> QED BY <1>2, <2>3, <3>1, <3>3, <3>5
  <2> QED BY <2>1, <2>5, <2>6, <2>7 DEF Receive
<1> QED BY <1>3, <1>4, <1>5 DEF GatewayActs

\* What was said is only repeated.
LEMMA AnswersStay ==
  ASSUME Transfer, Transfer', Replied, NEW G, UpFrom(G),
         handle.state = "closed" => handle'.state = "closed",
         \A g \in G : /\ g.t \in LastWords => handle'.state = "closed"
                      /\ g.t # "ok"
  PROVE  Replied' /\ (Heard("ok")' => Heard("ok"))
<1>1. \A c \in Conns : DOMAIN up'[c] \subseteq Nat \ {0}
  <2> TAKE c \in Conns
  <2>1. up'[c] \in Seq(ToGatewayFrames)
    BY DEF Transfer, Values
  <2> QED BY <2>1
<1>2. ASSUME NEW c \in Conns, NEW i \in DOMAIN up'[c]
      PROVE  /\ up'[c][i].t \in LastWords => handle'.state = "closed"
             /\ up'[c][i].t = "ok" => i = 1 /\ Heard("ok")
  <2>1. CASE \E j \in DOMAIN up[c] : i <= j /\ up'[c][i] = up[c][j]
    <3>1. PICK j \in DOMAIN up[c] : i <= j /\ up'[c][i] = up[c][j]
      BY <2>1
    <3>2. /\ up[c][j].t \in LastWords => handle.state = "closed"
          /\ up[c][j].t = "ok" => j = 1
      BY DEF Replied
    <3>3. i \in Nat \ {0}
      BY <1>1
    <3> QED BY <3>1, <3>2, <3>3 DEF Heard
  <2>2. CASE up'[c][i] \in G
    BY <2>2
  <2> QED BY <2>1, <2>2 DEF UpFrom
<1> QED BY <1>2 DEF Replied, Heard

LEMMA GatewayBegun == ASSUME Transfer, Transfer', Begun, GatewayActs PROVE Begun'
<1>1. /\ UNCHANGED <<kind, file, made, dialled, socket, open, handle>>
      /\ DownKeeps /\ UpFrom({}) /\ lapsed \subseteq lapsed'
      /\ rpc' = "resolved" => rpc = "resolved" \/ Heard("ok")
  BY GatewayMoves
<1>2. Replied' /\ (Heard("ok")' => Heard("ok"))
  BY <1>1, AnswersStay DEF Begun
<1>3. Asked'
  <2> SUFFICES ASSUME handle.state = "none", dialled = 1
               PROVE  down'[1] # <<>> /\ down'[1][1].t = "open"
    BY <1>1 DEF Asked
  <2>1. 1 \in Conns /\ down[1] \in Seq(ToAgentFrames) /\ down[1] # <<>> /\ down[1][1].t = "open"
    BY InUse DEF Begun, Asked, Transfer, Values
  <2>2. 1 \in DOMAIN down[1]
    BY <2>1, EmptySeq
  <2>3. 1 \in DOMAIN down'[1] /\ down'[1][1] = down[1][1]
    BY <1>1, <2>1, <2>2 DEF DownKeeps
  <2> QED BY <2>1, <2>3
<1>4. Unanswered'
  <2> SUFFICES ASSUME handle.state \in Unopened, NEW c \in Conns
               PROVE  up'[c] = <<>>
    BY <1>1 DEF Begun, Unanswered, Unopened
  <2>0. up'[c] \in Seq(ToGatewayFrames)
    BY DEF Transfer, Values
  <2>1. up[c] = <<>> /\ up'[c] \in Seq(ToGatewayFrames)
    BY <2>0 DEF Begun, Unanswered
  <2>2. DOMAIN up'[c] = {}
    BY <1>1, <2>1, Empty DEF UpFrom
  <2>3. up'[c] # <<>> => 1 \in DOMAIN up'[c]
    BY <2>1, EmptySeq
  <2> QED BY <2>1, <2>2, <2>3
<1>5. OnTime' /\ Resolved'
  BY <1>1, <1>2 DEF Begun, OnTime, Resolved
<1> QED BY <1>2, <1>3, <1>4, <1>5 DEF Begun

LEMMA DeliveryBegun == ASSUME Transfer, Transfer', Begun, Deliver PROVE Begun'
<1>1. /\ Measured /\ Values /\ Travels
      /\ UNCHANGED <<dialled, rpc>>
  BY DeliveredFits DEF Transfer, Deliver, RecvOpen, RecvReadCredit, RecvChunk, RecvStreamEnd, SameConnections
<1>2. handle \in AHandle
  BY <1>1 DEF Values
<1>3. CASE RecvOpen
  <2>1. handle' = [handle EXCEPT !.state = "opening"] /\ UNCHANGED <<up, lapsed>>
    BY <1>3 DEF RecvOpen
  <2>2. /\ handle'.state = "opening" /\ handle'.next = handle.next /\ handle'.cut = handle.cut
        /\ handle'.listed = handle.listed
    BY <1>2, <2>1 DEF AHandle
  <2>3. handle.state = "none" /\ dialled = 1
    <3>1. /\ dialled \in Conns /\ 1 \in DOMAIN down[dialled] /\ down[dialled][1].t = "open"
      BY <1>1, <1>3, DownShrinks DEF RecvOpen
    <3> QED BY <3>1 DEF Transfer, OneOpen
  <2>4. ~Heard("ok") /\ \A c \in Conns : up[c] = <<>>
    BY <2>3 DEF Begun, Unanswered, Resolved, Unopened
  <2>5. Asked' /\ OnTime'
    BY <1>1, <2>2, <2>3 DEF Asked, OnTime
  <2>6. Unanswered' /\ Replied'
    BY <2>1, <2>2, <2>3, <2>4, Empty DEF Begun, Unanswered, Unopened, Replied
  <2>7. Resolved'
    BY <1>1, <2>1, <2>3, <2>4 DEF Begun, Resolved, Heard, Unopened
  <2> QED BY <2>5, <2>6, <2>7 DEF Begun
<1>4. CASE RecvReadCredit \/ RecvChunk \/ RecvStreamEnd
  <2>1. ~(handle.state = "none" /\ dialled = 1)
    <3>1. /\ dialled \in Conns /\ 1 \in DOMAIN down[dialled] /\ down[dialled][1].t # "open"
      BY <1>1, <1>4, DownShrinks DEF RecvReadCredit, RecvChunk, RecvStreamEnd
    <3> QED BY <3>1 DEF Begun, Asked
  <2>2. /\ handle'.next = handle.next /\ handle'.cut = handle.cut
        /\ \/ handle' = handle
           \/ handle.state = "open" /\ handle'.state \in {"open", "closed"}
        /\ handle'.listed => handle.listed
        /\ lapsed \subseteq lapsed'
    <3>1. CASE RecvReadCredit
      <4>1. \/ handle' = handle
            \/ handle.listed /\ \E k, p : handle' = [handle EXCEPT !.credit = k, !.paused = p]
        BY <3>1 DEF RecvReadCredit
      <4> QED BY <1>1, <1>2, <3>1, <4>1 DEF RecvReadCredit, AHandle, Measured
    <3>2. CASE RecvChunk
      <4>1. UNCHANGED lapsed
        BY <3>2 DEF RecvChunk
      <4>2. CASE handle' = handle
        BY <4>1, <4>2
      <4>3. CASE handle' # handle
        <5>1. handle.listed /\ \E g, s, d : handle' = [handle EXCEPT !.got = g, !.since = s, !.draining = d]
          <6> DEFINE h == [handle EXCEPT !.got = Append(@, Head(down[dialled]).n), !.since = @ + file[Head(down[dialled]).n]]
          <6>1. handle.listed /\ (handle' = [h EXCEPT !.since = 0] \/ handle' = [h EXCEPT !.draining = TRUE])
            BY <3>2, <4>3 DEF RecvChunk, Release
          <6>2. CASE handle' = [h EXCEPT !.since = 0]
            <7>1. handle' = [handle EXCEPT !.got = h.got, !.since = 0, !.draining = handle.draining]
              BY <1>2, <6>2 DEF AHandle
            <7> QED BY <6>1, <7>1
          <6>3. CASE handle' = [h EXCEPT !.draining = TRUE]
            <7>1. handle' = [handle EXCEPT !.got = h.got, !.since = h.since, !.draining = TRUE]
              BY <1>2, <6>3 DEF AHandle
            <7> QED BY <6>1, <7>1
          <6> QED BY <6>1, <6>2, <6>3
        <5> QED BY <1>1, <1>2, <4>1, <5>1 DEF AHandle, Measured
      <4> QED BY <4>2, <4>3
    <3>3. CASE RecvStreamEnd
      <4>1. /\ lapsed \subseteq lapsed'
            /\ \/ handle' = handle
               \/ handle.listed /\ handle' \in {CloseHandle, [handle EXCEPT !.ending = TRUE]}
        BY <3>3 DEF RecvStreamEnd, Lapse
      <4> QED BY <1>1, <1>2, <4>1, ClosedIs DEF AHandle, Measured
    <3> QED BY <1>4, <3>1, <3>2, <3>3
  <2>3. /\ handle.state # "open" => UNCHANGED up
        /\ \E f : UpFrom({f}) /\ f.t = "credit"
    <3>1. CASE UNCHANGED up
      <4>1. UpFrom({Frame("credit", 0)}) /\ Frame("credit", 0).t = "credit"
        BY <1>1, <3>1, UpStays DEF UpFrom, Frame
      <4> QED BY <3>1, <4>1
    <3>2. CASE RecvChunk /\ ~UNCHANGED up
      <4> DEFINE n == Head(down[dialled]).n
                 h == [handle EXCEPT !.got = Append(@, n), !.since = @ + file[n]]
      <4>1. handle.listed /\ Release(h)
        BY <3>2 DEF RecvChunk
      <4>2. n \in Chunks /\ kind = "write" /\ file[n] \in Nat
        BY <1>1, <3>2, DeliveredFits, FileSizes DEF RecvChunk, Values
      <4>3. h.since \in Nat
        BY <1>2, <4>2 DEF AHandle
      <4> HIDE DEF h
      <4>4. /\ Frame("credit", h.since) \in ToGatewayFrames /\ Frame("credit", h.since).t = "credit"
            /\ Reply(<<Frame("credit", h.since)>>)
        BY <3>2, <4>1, <4>3, FramesAre DEF Release, ToGateway
      <4>5. UpFrom({Frame("credit", h.since)})
        BY <1>1, <4>4, OneReply
      <4> QED BY <1>1, <4>1, <4>4, <4>5 DEF Measured
    <3> QED BY <1>4, <3>1, <3>2 DEF RecvReadCredit, RecvStreamEnd
  <2>4. Replied' /\ (Heard("ok")' => Heard("ok"))
    <3>1. PICK f : UpFrom({f}) /\ f.t = "credit"
      BY <2>3
    <3> QED BY <2>2, <3>1, AnswersStay DEF Begun, LastWords
  <2>5. Asked'
    BY <1>1, <2>1, <2>2 DEF Asked
  <2>6. Unanswered'
    BY <2>2, <2>3 DEF Begun, Unanswered, Unopened
  <2>7. OnTime' /\ Resolved'
    BY <1>1, <2>2, <2>4 DEF Begun, OnTime, Resolved, Unopened
  <2> QED BY <2>4, <2>5, <2>6, <2>7 DEF Begun
<1> QED BY <1>3, <1>4 DEF Deliver

\* Everything the agent does by itself.
AgentActs == Opened \/ OpenFails \/ ReadChunk \/ ReadEnds \/ ReadFails \/ Flush \/ Finish \/ WriteFails

\* Where its end is afterwards, and what it may have said.
LEMMA AgentMoves ==
  ASSUME Transfer, AgentActs
  PROVE  /\ UNCHANGED <<kind, file, made, dialled, socket, open, down, rpc, sink, reader, writer>>
         /\ lapsed \subseteq lapsed' /\ handle'.cut = handle.cut
         /\ \/ /\ Opened /\ handle'.state = "open" /\ handle'.listed = TRUE /\ handle.state = "opening"
               /\ handle'.got = handle.got /\ handle'.flushed = handle.flushed
               /\ handle'.next = handle.next /\ handle'.ending = handle.ending
            \/ /\ handle.state \in {"opening", "open"} /\ handle'.state = "closed" /\ handle'.listed = FALSE
               /\ handle'.got = handle.got /\ handle'.flushed = handle.flushed
               /\ \E G : UpFrom(G) /\ \A g \in G : g.t \in {"err", "end", "error"}
            \/ /\ ReadChunk /\ kind = "read" /\ handle.state = "open" /\ handle.next <= Len(file)
               /\ handle'.state = "open" /\ handle'.listed = handle.listed
               /\ handle'.next = handle.next + 1
               /\ UpFrom({Frame("data", handle.next)}) /\ Reply(<<Frame("data", handle.next)>>)
            \/ /\ Flush /\ kind = "write" /\ handle.state = "open" /\ handle'.state = "open"
               /\ handle'.listed = handle.listed /\ handle'.ending = handle.ending
               /\ handle'.got = handle.got /\ handle'.flushed = handle.flushed + 1
               /\ \E f : f.t = "credit" /\ UpFrom({f})
<1>1. /\ Values /\ Travels /\ handle \in AHandle
      /\ UNCHANGED <<kind, file, made, dialled, socket, open, down, rpc, sink, reader, writer>>
      /\ lapsed \subseteq lapsed'
  BY DEF Transfer, Values, AgentActs, Opened, OpenFails, ReadChunk, ReadEnds, ReadFails, Flush, Finish,
         WriteFails, Lapse
<1>2. \A t \in {"err", "end", "error"} : Frame(t, 0) \in ToGatewayFrames /\ Frame(t, 0).t = t
  BY FramesAre DEF ToGateway
<1>3. CASE Opened
  <2>1. handle' = [handle EXCEPT !.state = "open", !.listed = TRUE] /\ handle.state = "opening"
    BY <1>3 DEF Opened
  <2> QED BY <1>1, <1>3, <2>1 DEF AHandle
<1>4. CASE OpenFails \/ ReadEnds \/ ReadFails \/ Finish \/ WriteFails
  <2>1. handle.state \in {"opening", "open"} /\ handle' = CloseHandle
    BY <1>4 DEF OpenFails, ReadEnds, ReadFails, Finish, WriteFails, Reading
  <2>2. /\ handle'.state = "closed" /\ handle'.listed = FALSE /\ handle'.cut = handle.cut
        /\ handle'.got = handle.got /\ handle'.flushed = handle.flushed
    BY <1>1, <2>1, ClosedIs
  <2>3. \/ \E t \in {"err", "end", "error"} : Reply(<<Frame(t, 0)>>)
        \/ Reply(<<Frame("end", 0), Frame("error", 0)>>)
    BY <1>4 DEF OpenFails, ReadEnds, ReadFails, Finish, WriteFails
  <2>4. \E G : UpFrom(G) /\ \A g \in G : g.t \in {"err", "end", "error"}
    <3>1. CASE \E t \in {"err", "end", "error"} : Reply(<<Frame(t, 0)>>)
      <4>1. PICK t \in {"err", "end", "error"} : Reply(<<Frame(t, 0)>>)
        BY <3>1
      <4>2. UpFrom({Frame(t, 0)}) /\ Frame(t, 0).t = t
        BY <1>1, <1>2, <4>1, OneReply
      <4>3. \A g \in {Frame(t, 0)} : g.t \in {"err", "end", "error"}
        BY <4>2
      <4> QED BY <4>2, <4>3
    <3>2. CASE Reply(<<Frame("end", 0), Frame("error", 0)>>)
      <4>1. UpFrom({Frame("end", 0), Frame("error", 0)})
        BY <1>1, <1>2, <3>2, TwoReplies
      <4> QED BY <1>2, <4>1
    <3> QED BY <2>3, <3>1, <3>2
  <2> QED BY <1>1, <2>1, <2>2, <2>4
<1>5. CASE ReadChunk
  <2> DEFINE next == handle.next + 1
             credit == handle.credit - file[handle.next]
             paused == credit <= 0
  <2>1. /\ handle' = [handle EXCEPT !.next = next, !.credit = credit, !.paused = paused]
        /\ kind = "read" /\ handle.state = "open" /\ handle.next <= Len(file)
        /\ Reply(<<Frame("data", handle.next)>>)
    BY <1>5 DEF ReadChunk, Reading
  <2> HIDE DEF credit, paused, next
  <2>2. /\ handle'.state = "open" /\ handle'.listed = handle.listed /\ handle'.next = next
        /\ handle'.cut = handle.cut
    BY <1>1, <2>1 DEF AHandle
  <2>3. Frame("data", handle.next) \in ToGatewayFrames
    BY <1>1, FramesAre DEF AHandle, ToGateway
  <2>4. UpFrom({Frame("data", handle.next)})
    BY <1>1, <2>1, <2>3, OneReply
  <2> QED BY <1>1, <1>5, <2>1, <2>2, <2>4 DEF next
<1>6. CASE Flush
  <2> DEFINE flushed == handle.flushed + 1
             h == [handle EXCEPT !.flushed = flushed]
             g == [h EXCEPT !.draining = FALSE]
  <2>1. /\ kind = "write" /\ handle.state = "open"
        /\ \/ Release(g)
           \/ handle' = h /\ UNCHANGED up
    BY <1>6 DEF Flush
  <2>2. flushed \in Nat
    BY <1>1 DEF AHandle
  <2> HIDE DEF flushed
  <2>3. /\ h \in AHandle /\ h.got = handle.got /\ h.flushed = flushed /\ h.cut = handle.cut
        /\ h.listed = handle.listed /\ h.state = handle.state /\ h.ending = handle.ending
    BY <1>1, <2>2 DEF AHandle
  <2> HIDE DEF h
  <2>4. /\ g \in AHandle /\ g.got = handle.got /\ g.flushed = flushed /\ g.cut = handle.cut
        /\ g.listed = handle.listed /\ g.state = handle.state /\ g.ending = handle.ending
    BY <2>3 DEF AHandle
  <2> HIDE DEF g
  <2>5. CASE Release(g)
    <3>1. /\ handle' = [g EXCEPT !.since = 0]
          /\ \E f \in ToGatewayFrames : f.t = "credit" /\ UpFrom({f})
      BY <2>1, <2>4, <2>5, Released
    <3>2. /\ handle'.got = handle.got /\ handle'.flushed = flushed /\ handle'.cut = handle.cut
          /\ handle'.listed = handle.listed /\ handle'.state = handle.state /\ handle'.ending = handle.ending
      BY <2>4, <3>1 DEF AHandle
    <3> QED BY <1>1, <1>6, <2>1, <3>1, <3>2 DEF flushed
  <2>6. CASE handle' = h /\ UNCHANGED up
    <3>1. UpFrom({Frame("credit", 0)}) /\ Frame("credit", 0).t = "credit"
      BY <1>1, <2>6, UpStays DEF UpFrom, Frame
    <3> QED BY <1>1, <1>6, <2>1, <2>3, <2>6, <3>1 DEF flushed
  <2> QED BY <2>1, <2>5, <2>6
<1> QED BY <1>3, <1>4, <1>5, <1>6 DEF AgentActs

\* The answer to the call is the first thing on the connection.
LEMMA OpenedSays ==
  ASSUME Transfer, Begun, Opened
  PROVE  /\ dialled \in open => dialled \in Conns /\ dialled # 0 /\ up' = [up EXCEPT ![dialled] = <<Frame("ok", 0)>>]
         /\ dialled \notin open => UNCHANGED up
         /\ \A c \in Conns : up[c] = <<>>
         /\ Frame("ok", 0) \in ToGatewayFrames /\ Frame("ok", 0).t = "ok"
<1>1. Values /\ Travels /\ handle.state = "opening" /\ Reply(<<Frame("ok", 0)>>)
  BY DEF Transfer, Opened
<1>2. \A c \in Conns : up[c] = <<>>
  BY <1>1 DEF Begun, Unanswered, Unopened
<1>3. Frame("ok", 0) \in ToGatewayFrames /\ Frame("ok", 0).t = "ok"
  BY FramesAre DEF ToGateway
<1>4. ASSUME dialled \in open
      PROVE  dialled \in Conns /\ dialled # 0 /\ up' = [up EXCEPT ![dialled] = <<Frame("ok", 0)>>]
  <2>1. dialled # 0
    BY <1>1, <1>4 DEF Values
  <2>2. dialled \in Conns
    BY <1>1, <2>1, InUse
  <2> DEFINE q == <<Frame("ok", 0)>>
  <2>3. q \in Seq(ToGatewayFrames) /\ up[dialled] = <<>>
    BY <1>2, <1>3, <2>2
  <2> HIDE DEF q
  <2>4. up[dialled] \o q = q
    BY <2>3, ConcatEmptySeq
  <2> USE DEF q
  <2>5. up' = [up EXCEPT ![dialled] = up[dialled] \o q]
    BY <1>1, <1>4 DEF Reply
  <2> QED BY <2>1, <2>2, <2>4, <2>5
<1> QED BY <1>1, <1>2, <1>3, <1>4 DEF Reply

LEMMA AgentBegun == ASSUME Transfer, Transfer', Begun, AgentActs PROVE Begun'
<1>1. /\ UNCHANGED <<kind, file, made, dialled, socket, open, down, rpc, sink, reader, writer>>
      /\ lapsed \subseteq lapsed' /\ handle'.cut = handle.cut
  BY AgentMoves
<1>2. CASE Opened
  <2>1. /\ handle.state = "opening" /\ handle'.state = "open" /\ lapsed' = lapsed \cup Mark("lateOpen", handle.cut)
    BY <1>2, AgentMoves DEF Opened, Lapse
  <2>2. /\ dialled \in open => dialled \in Conns /\ dialled # 0 /\ up' = [up EXCEPT ![dialled] = <<Frame("ok", 0)>>]
        /\ dialled \notin open => UNCHANGED up
        /\ \A c \in Conns : up[c] = <<>>
        /\ Frame("ok", 0).t = "ok"
    BY <1>2, OpenedSays
  <2>3. \A c \in Conns : \A i \in DOMAIN up'[c] : i = 1 /\ up'[c][i].t = "ok" /\ dialled # 0
    <3>1. CASE dialled \in open
      <4>1. \A c \in Conns : up'[c] = IF c = dialled THEN <<Frame("ok", 0)>> ELSE <<>>
        BY <2>2, <3>1 DEF Transfer, Values
      <4> DEFINE q == <<Frame("ok", 0)>>
      <4>2. DOMAIN q = {1} /\ q[1] = Frame("ok", 0)
        OBVIOUS
      <4> HIDE DEF q
      <4>3. \A c \in Conns : up'[c] = IF c = dialled THEN q ELSE <<>>
        BY <4>1 DEF q
      <4> QED BY <2>2, <3>1, <4>2, <4>3, Empty
    <3>2. CASE dialled \notin open
      BY <2>2, <3>2, Empty
    <3> QED BY <3>1, <3>2
  <2>4. Asked' /\ Unanswered'
    BY <2>1 DEF Asked, Unanswered, Unopened
  <2>5. Replied'
    BY <2>3 DEF Replied, LastWords
  <2>6. OnTime'
    BY <1>1, <2>1 DEF Begun, OnTime, Mark
  <2>7. Resolved'
    <3>1. rpc # "resolved"
      BY <2>1 DEF Begun, Resolved, Unopened
    <3>2. Heard("ok")' => dialled # 0
      BY <2>3 DEF Heard
    <3> QED BY <1>1, <2>1, <3>1, <3>2 DEF Resolved, Unopened
  <2> QED BY <2>4, <2>5, <2>6, <2>7 DEF Begun
<1>3. CASE handle.state \in {"opening", "open"} /\ handle'.state = "closed" /\ handle'.listed = FALSE
           /\ \E G : UpFrom(G) /\ \A g \in G : g.t \in {"err", "end", "error"}
  <2>1. Replied' /\ (Heard("ok")' => Heard("ok"))
    <3>1. PICK G : UpFrom(G) /\ \A g \in G : g.t \in {"err", "end", "error"}
      BY <1>3
    <3> QED BY <1>3, <3>1, AnswersStay DEF Begun, LastWords
  <2> QED BY <1>1, <1>3, <2>1 DEF Begun, Asked, Unanswered, OnTime, Resolved, Unopened
<1>4. CASE handle.state = "open" /\ handle'.state = "open" /\ handle'.listed = handle.listed
           /\ \E f : f.t \in {"data", "credit"} /\ UpFrom({f})
  <2>1. Replied' /\ (Heard("ok")' => Heard("ok"))
    <3>1. PICK f : f.t \in {"data", "credit"} /\ UpFrom({f})
      BY <1>4
    <3> QED BY <1>4, <3>1, AnswersStay DEF Begun, LastWords
  <2> QED BY <1>1, <1>4, <2>1 DEF Begun, Asked, Unanswered, OnTime, Resolved, Unopened
<1>5. Frame("data", handle.next).t = "data"
  BY DEF Frame
<1>6. CASE /\ handle.state = "open" /\ handle'.state = "open" /\ handle'.listed = handle.listed
           /\ UpFrom({Frame("data", handle.next)})
  BY <1>4, <1>5, <1>6
<1>7. CASE /\ handle.state = "open" /\ handle'.state = "open" /\ handle'.listed = handle.listed
           /\ \E f : f.t = "credit" /\ UpFrom({f})
  BY <1>4, <1>7
<1> QED BY <1>2, <1>3, <1>6, <1>7, AgentMoves

LEMMA LostMoves ==
  ASSUME Transfer, NEW c \in Conns, GatewaySeesClose(c)
  PROVE  /\ UNCHANGED <<kind, file, made, dialled, down, handle, lapsed>> /\ UpFrom({})
         /\ \A d \in Conns : up'[d] = IF d = c THEN <<>> ELSE up[d]
         /\ rpc' \in {rpc, "rejected"} /\ (sink' => sink)
<1>1. /\ up' = [up EXCEPT ![c] = <<>>]
      /\ \/ UNCHANGED <<socket, rpc, sink, reader, writer>>
         \/ FailSink /\ rpc' = IF rpc = "pending" THEN "rejected" ELSE rpc
  BY LostKeepsTransfer
<1>2. \A d \in Conns : up'[d] = IF d = c THEN <<>> ELSE up[d]
  BY <1>1 DEF Transfer, Values
<1>3. UpFrom({})
  <2> SUFFICES ASSUME NEW d \in Conns, NEW i \in DOMAIN up'[d]
               PROVE  \E j \in DOMAIN up[d] : i <= j /\ up'[d][i] = up[d][j]
    BY DEF UpFrom
  <2>1. up'[d] = up[d] /\ up[d] \in Seq(ToGatewayFrames)
    BY <1>2, Empty DEF Transfer, Values
  <2>2. i \in Nat
    BY <2>1
  <2> QED BY <2>1, <2>2
<1> QED BY <1>1, <1>2, <1>3 DEF GatewaySeesClose, FailSink

LEMMA ConnectionsBegun ==
  ASSUME Transfer, Transfer', Begun, AgentSeesClose \/ Reconnect \/ \E c \in Conns : GatewaySeesClose(c)
  PROVE  Begun'
<1>1. CASE AgentSeesClose
  <2>1. /\ dialled' = 0 /\ UNCHANGED <<up, rpc, lapsed>>
        /\ handle'.next = handle.next /\ handle'.listed = FALSE
        /\ handle'.state = (IF handle.state = "open" THEN "closed" ELSE handle.state)
        /\ handle'.cut = (handle.cut \/ handle.state = "opening")
    BY <1>1, CutKeepsTransfer DEF AgentSeesClose
  <2>2. Replied'
    BY <2>1 DEF Begun, Replied, LastWords
  <2>3. Heard("ok")' => Heard("ok")
    BY <2>1 DEF Heard
  <2>4. Asked' /\ Unanswered' /\ Resolved'
    BY <2>1, <2>3 DEF Begun, Asked, Unanswered, Resolved, Unopened
  <2>5. CASE handle.state = "opening"
    <3>1. handle'.state = "opening" /\ handle'.cut
      BY <2>1, <2>5
    <3> QED BY <2>2, <2>4, <3>1 DEF Begun, OnTime
  <2>6. CASE handle.state # "opening"
    <3>1. /\ handle'.cut = handle.cut /\ handle'.state # "opening" /\ handle'.state # "open"
          /\ handle'.state = "none" => handle.state = "none"
      BY <2>1, <2>6 DEF Transfer, Values, AHandle
    <3> QED BY <2>2, <2>4, <3>1 DEF Begun, OnTime
  <2> QED BY <2>5, <2>6
<1>2. CASE Reconnect
  <2>1. /\ dialled = 0 /\ dialled' = made + 1 /\ UNCHANGED <<up, rpc, handle>> /\ lapsed \subseteq lapsed'
        /\ made \in Nat \ {0}
    BY <1>2, WindowAssumption DEF Reconnect, Lapse, Transfer, Values, Conns
  <2>2. dialled' # 1 /\ dialled' # 0
    BY <2>1
  <2>3. Replied' /\ (Heard("ok")' => Heard("ok"))
    BY <2>1 DEF Begun, Replied, LastWords, Heard
  <2> QED BY <2>1, <2>2, <2>3 DEF Begun, Asked, Unanswered, OnTime, Resolved, Unopened
<1>3. CASE \E c \in Conns : GatewaySeesClose(c)
  <2>1. PICK c \in Conns : GatewaySeesClose(c)
    BY <1>3
  <2>2. /\ UNCHANGED <<kind, file, made, dialled, down, handle, lapsed>> /\ UpFrom({})
        /\ \A d \in Conns : up'[d] = IF d = c THEN <<>> ELSE up[d]
        /\ rpc' \in {rpc, "rejected"}
    BY <2>1, LostMoves
  <2>3. Replied' /\ (Heard("ok")' => Heard("ok"))
    BY <2>2, AnswersStay DEF Begun
  <2> QED BY <2>2, <2>3 DEF Begun, Asked, Unanswered, OnTime, Resolved, Unopened
<1> QED BY <1>1, <1>2, <1>3

LEMMA BegunInit == ASSUME StreamInit PROVE Begun
<1>1. /\ handle = NewHandle /\ rpc = "pending" /\ dialled = 1 /\ 1 \in Conns
      /\ \A c \in Conns : up[c] = <<>> /\ (c = 1 => down[c] = <<Frame("open", 0)>>)
  BY WindowAssumption DEF StreamInit, Conns
<1>2. Frame("open", 0).t = "open"
  BY DEF Frame
<1>3. handle.state = "none" /\ handle.next = 1 /\ handle.cut = FALSE /\ handle.listed = FALSE
  BY <1>1 DEF NewHandle
<1>4. \A c \in Conns : DOMAIN up[c] = {}
  BY <1>1, Empty
<1>5. Asked
  <2>1. down[1] = <<Frame("open", 0)>>
    BY <1>1
  <2> QED BY <1>2, <2>1 DEF Asked
<1> QED BY <1>1, <1>3, <1>4, <1>5 DEF Begun, Unanswered, Replied, OnTime, Resolved, Heard, Unopened

LEMMA BegunNext == ASSUME Transfer, Transfer', Begun, [StreamNext]_streamVars PROVE Begun'
<1>1. CASE UNCHANGED streamVars
  BY <1>1 DEF streamVars, Begun, Asked, Unanswered, Replied, OnTime, Resolved, Heard, Unopened, LastWords
<1>2. CASE StreamNext
  BY <1>2, GatewayBegun, DeliveryBegun, AgentBegun, ConnectionsBegun DEF StreamNext, GatewayActs, AgentActs
<1> QED BY <1>1, <1>2

-----------------------------------------------------------------------------
(* While the gateway lists its end, nothing has gone wrong.                  *)

Listening ==
  sink => /\ rpc # "rejected" /\ socket # 0 /\ reader.state = "active"
          /\ ~writer.failure /\ writer.state \notin {"done", "failed"}

LEMMA PushListening ==
  ASSUME Transfer, Listening, NEW w \in AWriter, w.next <= Len(file), kind = "write", PushChunk(w),
         w.failure = writer.failure, UNCHANGED <<sink, socket, reader>>, rpc' \in {rpc, "resolved"}
  PROVE  Listening'
<1>1. /\ PushFails(w) \/ PushWaits(w) \/ PushGoes(w)
      /\ writer' \in AWriter /\ writer'.failure = w.failure
  BY Pushed
<1>2. sink => writer'.state \notin {"done", "failed"}
  BY <1>1 DEF PushFails, PushWaits, PushGoes, AWriter, Listening
<1> QED BY <1>1, <1>2 DEF Listening

LEMMA EndListening ==
  ASSUME Transfer, Listening, NEW w \in AWriter, Finalize(w),
         w.failure = writer.failure, UNCHANGED <<sink, socket, reader>>, rpc' \in {rpc, "resolved"}
  PROVE  Listening'
<1>1. /\ EndFails(w) \/ EndGoes(w)
      /\ writer' \in AWriter /\ writer'.failure = w.failure
  BY Finalized
<1>2. sink => writer'.state \notin {"done", "failed"}
  BY <1>1 DEF EndFails, EndGoes, AWriter, Listening
<1> QED BY <1>1, <1>2 DEF Listening

LEMMA ListeningStays ==
  ASSUME Transfer, Transfer', Listening, [StreamNext]_streamVars
  PROVE  Listening'
<1>1. /\ writer \in AWriter /\ reader \in AReader /\ Measured /\ Values
  BY DEF Transfer, Values
<1>2. CASE UNCHANGED streamVars
  BY <1>2 DEF streamVars, Listening
<1>3. CASE RpcTimesOut
  BY <1>3 DEF RpcTimesOut, RejectOpen, Listening
<1>4. CASE SourceFails
  BY <1>1, <1>4 DEF SourceFails, AWriter, Listening
<1>5. CASE Take \/ TakeEnd
  <2>1. UNCHANGED <<sink, rpc, socket, writer>> /\ (reader'.state = reader.state \/ reader.state = "ended")
    BY <1>1, <1>5 DEF Take, TakeEnd, AReader
  <2> QED BY <2>1 DEF Listening
<1>6. CASE WriteChunk \/ FinishWriting
  <2>1. /\ UNCHANGED <<sink, socket, reader, rpc>>
        /\ \/ PushChunk(writer) /\ kind = "write" /\ writer.next <= Len(file)
           \/ Finalize(writer)
           \/ writer' \in {[writer EXCEPT !.state = "opening"], [writer EXCEPT !.state = "finalOpening"]}
    BY <1>6 DEF WriteChunk, FinishWriting
  <2>2. CASE PushChunk(writer) /\ kind = "write" /\ writer.next <= Len(file)
    BY <1>1, <2>1, <2>2, PushListening
  <2>3. CASE Finalize(writer)
    BY <1>1, <2>1, <2>3, EndListening
  <2>4. CASE writer' \in {[writer EXCEPT !.state = "opening"], [writer EXCEPT !.state = "finalOpening"]}
    BY <1>1, <2>1, <2>4 DEF Listening, AWriter
  <2> QED BY <2>1, <2>2, <2>3, <2>4
<1>7. CASE Read
  BY <1>1, <1>7 DEF Read, Listening, AReader
<1>8. CASE CancelRead
  BY <1>8 DEF CancelRead, Listening
<1>9. ASSUME NEW c \in Conns, Receive(c) PROVE Listening'
  <2>0. UNCHANGED socket
    BY <1>9 DEF Receive, RecvOk, RecvErr, RecvData, RecvEnd, RecvError, RecvCredit, Received
  <2>1. CASE RecvOk(c)
    <3>1. /\ UNCHANGED <<sink, reader>> /\ rpc' \in {rpc, "resolved"}
          /\ \/ PushChunk(writer) /\ writer.state = "opening"
             \/ Finalize(writer)
             \/ UNCHANGED writer
      BY <2>1 DEF RecvOk
    <3>2. CASE PushChunk(writer) /\ writer.state = "opening"
      <4>1. kind = "write" /\ writer.next <= Len(file)
        BY <1>1, <3>2 DEF Measured, NewWriter, Values
      <4> QED BY <1>1, <2>0, <3>1, <3>2, <4>1, PushListening
    <3>3. CASE Finalize(writer)
      BY <1>1, <2>0, <3>1, <3>3, EndListening
    <3>4. CASE UNCHANGED writer
      BY <2>0, <3>1, <3>4 DEF Listening
    <3> QED BY <3>1, <3>2, <3>3, <3>4
  <2>2. CASE RecvErr(c)
    BY <2>0, <2>2 DEF RecvErr, RejectOpen, Listening
  <2>3. CASE RecvData(c)
    BY <1>1, <2>0, <2>3 DEF RecvData, Listening, AReader
  <2>4. CASE RecvEnd(c) \/ RecvError(c)
    BY <2>4 DEF RecvEnd, RecvError, FailSink, Listening
  <2>5. CASE RecvCredit(c)
    <3>1. kind = "write" /\ Head(up[c]).n \in Nat /\ UNCHANGED <<rpc, sink, reader>>
      BY <2>5, ReceivedFits DEF RecvCredit
    <3> DEFINE credit == writer.credit + Head(up[c]).n
               w == [writer EXCEPT !.credit = credit]
    <3>2. credit \in Int
      BY <1>1, <3>1 DEF AWriter
    <3>3. \/ PushChunk(w) /\ w.state = "waiting"
          \/ writer' \in {w, writer}
      BY <2>5 DEF RecvCredit
    <3> HIDE DEF credit
    <3>4. w \in AWriter /\ w.next = writer.next /\ w.state = writer.state /\ w.failure = writer.failure
      BY <1>1, <3>2 DEF AWriter
    <3> HIDE DEF w
    <3>5. CASE PushChunk(w) /\ w.state = "waiting"
      <4>1. w.next <= Len(file)
        BY <1>1, <3>4, <3>5 DEF Measured
      <4> QED BY <2>0, <3>1, <3>4, <3>5, <4>1, PushListening
    <3>6. CASE writer' \in {w, writer}
      BY <2>0, <3>1, <3>4, <3>6 DEF Listening
    <3> QED BY <3>3, <3>5, <3>6
  <2> QED BY <1>9, <2>1, <2>2, <2>3, <2>4, <2>5 DEF Receive
<1>10. ASSUME NEW c \in Conns, GatewaySeesClose(c) PROVE Listening'
  <2>1. \/ socket' = socket /\ UNCHANGED <<rpc, sink, reader, writer>>
        \/ sink' = FALSE
    BY <1>10 DEF GatewaySeesClose, FailSink
  <2> QED BY <2>1 DEF Listening
<1>11. CASE Deliver \/ Opened \/ OpenFails \/ ReadChunk \/ ReadEnds \/ ReadFails \/ Flush \/ Finish \/ WriteFails
            \/ AgentSeesClose
  BY <1>11 DEF Deliver, RecvOpen, RecvReadCredit, RecvChunk, RecvStreamEnd, Delivered, Opened, OpenFails,
     ReadChunk, ReadEnds, ReadFails, Flush, Finish, WriteFails, AgentSeesClose, Listening
<1>12. CASE Reconnect
  <2>1. made \in Nat
    BY <1>1, WindowAssumption DEF Values, Conns
  <2>2. socket' # 0 /\ UNCHANGED <<rpc, sink, reader, writer>>
    BY <1>12, <2>1 DEF Reconnect
  <2> QED BY <2>2 DEF Listening
<1> QED BY <1>2, <1>3, <1>4, <1>5, <1>6, <1>7, <1>8, <1>9, <1>10, <1>11, <1>12 DEF StreamNext

-----------------------------------------------------------------------------
(* Who has let go of a transfer has said so.                                 *)

GivenUp == {"cancelledOpen", "openTimeout", "lateOpen"}
Cancelling == kind = "read" /\ \E i \in DOMAIN down[1] : down[1][i].t = "end"
EndIsComing ==
  (lapsed \cap GivenUp = {} /\ dialled = 1 /\ socket = 1 /\ handle.state # "closed") => sink \/ Cancelling
Excused == writer.destroyed => "abandoned" \in lapsed

LEMMA EndSent ==
  ASSUME Transfer, NEW f \in ToAgentFrames, Send(f), socket = dialled, dialled # 0
  PROVE  \E i \in DOMAIN down'[dialled] : down'[dialled][i] = f
<1> DEFINE r == Append(down[dialled], f)
<1>1. dialled \in Conns /\ down[dialled] \in Seq(ToAgentFrames)
  BY InUse DEF Transfer, Values
<1>2. DOMAIN r = 1 .. (Len(down[dialled]) + 1) /\ Len(down[dialled]) \in Nat /\ r[Len(down[dialled]) + 1] = f
  BY <1>1, Grown
<1>3. down' = [down EXCEPT ![dialled] = r]
  BY DEF Send
<1> HIDE DEF r
<1>4. down'[dialled] = r
  BY <1>1, <1>3 DEF Transfer, Values
<1> QED BY <1>2, <1>4

\* The gateway lets go when it gives up, when it tells the agent, or when the
\* agent has told it.
LEMMA LettingGo ==
  ASSUME Transfer, Begun, GatewayActs, sink, ~sink', dialled = 1, socket = 1
  PROVE  "openTimeout" \in lapsed' \/ handle.state = "closed" \/ Cancelling'
<1>1. Values /\ Travels
  BY DEF Transfer
<1>2. CASE RpcTimesOut
  BY <1>2 DEF RpcTimesOut, Lapse
<1>3. CASE CancelRead
  <2>1. Frame("end", 0) \in ToAgentFrames /\ Frame("end", 0).t = "end"
    BY FramesAre DEF ToAgent
  <2>2. Send(Frame("end", 0)) /\ kind = "read" /\ UNCHANGED kind
    BY <1>3 DEF CancelRead
  <2>3. \E i \in DOMAIN down'[1] : down'[1][i] = Frame("end", 0)
    BY <2>1, <2>2, EndSent
  <2> QED BY <2>1, <2>2, <2>3 DEF Cancelling
<1>4. ASSUME NEW c \in Conns, Receive(c) PROVE handle.state = "closed"
  <2>1. \E t \in LastWords : Received(c, t)
    <3>1. ~RecvOk(c) /\ ~RecvData(c) /\ ~RecvCredit(c)
      BY DEF RecvOk, RecvData, RecvCredit
    <3> QED BY <1>4, <3>1 DEF Receive, RecvErr, RecvEnd, RecvError, LastWords
  <2>2. \E i \in DOMAIN up[c] : up[c][i].t \in LastWords
    BY <1>1, <2>1, UpShrinks
  <2> QED BY <2>2 DEF Begun, Replied
<1>5. ~SourceFails /\ ~Take /\ ~TakeEnd /\ ~WriteChunk /\ ~FinishWriting /\ ~Read
  BY DEF SourceFails, Take, TakeEnd, WriteChunk, FinishWriting, Read
<1> QED BY <1>2, <1>3, <1>4, <1>5 DEF GatewayActs

LEMMA EndIsComingStays ==
  ASSUME Transfer, Transfer', Begun, EndIsComing, [StreamNext]_streamVars
  PROVE  EndIsComing'
<1>1. /\ Values /\ Travels /\ Measured /\ handle \in AHandle /\ 1 \in Conns
  BY WindowAssumption DEF Transfer, Values, Conns
<1>2. CASE UNCHANGED streamVars
  BY <1>2 DEF streamVars, EndIsComing, Cancelling
<1>3. CASE GatewayActs
  <2>1. /\ UNCHANGED <<kind, file, made, dialled, socket, open, handle>>
        /\ DownKeeps /\ lapsed \subseteq lapsed'
    BY <1>3, GatewayMoves
  <2>2. Cancelling => Cancelling'
    BY <1>1, <2>1 DEF Cancelling, DownKeeps
  <2>3. SUFFICES ASSUME lapsed' \cap GivenUp = {}, dialled = 1, socket = 1, handle.state # "closed"
                 PROVE  sink' \/ Cancelling'
    BY <2>1 DEF EndIsComing, GivenUp
  <2>4. sink \/ Cancelling
    BY <2>1, <2>3 DEF EndIsComing
  <2>5. CASE sink /\ ~sink'
    BY <1>3, <2>3, <2>5, LettingGo DEF GivenUp
  <2> QED BY <2>2, <2>4, <2>5
<1>4. CASE Deliver
  <2>1. UNCHANGED <<kind, dialled, socket, sink>>
    BY <1>4, DeliveredFits DEF Deliver, RecvOpen, RecvReadCredit, RecvChunk, RecvStreamEnd, SameConnections
  <2>2. SUFFICES ASSUME lapsed' \cap GivenUp = {}, dialled = 1, socket = 1, handle'.state # "closed", ~sink
                 PROVE  Cancelling'
    BY <2>1 DEF EndIsComing, GivenUp
  <2>3. lapsed \subseteq lapsed' /\ handle.state # "closed"
    <3>1. CASE RecvOpen
      <4>1. dialled \in Conns /\ 1 \in DOMAIN down[dialled] /\ down[dialled][1].t = "open"
        BY <1>1, <3>1, DownShrinks DEF RecvOpen
      <4>2. handle.state = "none"
        BY <4>1 DEF Transfer, OneOpen
      <4> QED BY <3>1, <4>2 DEF RecvOpen
    <3>2. CASE RecvReadCredit \/ RecvChunk \/ RecvStreamEnd
      <4>1. handle.state = "closed" => handle' = handle
        BY <1>1, <3>2 DEF RecvReadCredit, RecvChunk, RecvStreamEnd, Measured
      <4> QED BY <2>2, <3>2, <4>1 DEF RecvReadCredit, RecvChunk, RecvStreamEnd, Lapse
    <3> QED BY <1>4, <3>1, <3>2 DEF Deliver
  <2>4. Cancelling
    BY <2>2, <2>3 DEF EndIsComing
  <2>5. PICK j \in DOMAIN down[1] : down[1][j].t = "end"
    BY <2>4 DEF Cancelling
  <2>6. PICK t : Delivered(t) /\ (t = "end" => RecvStreamEnd)
    BY <1>4 DEF Deliver, RecvOpen, RecvReadCredit, RecvChunk, RecvStreamEnd
  <2>7. /\ down[1] \in Seq(ToAgentFrames) /\ down[1] # <<>> /\ down[1][1].t = t
        /\ down' = [down EXCEPT ![1] = Tail(down[1])]
    BY <1>1, <2>2, <2>6, DownShrinks
  <2>8. CASE t # "end"
    <3> DEFINE r == Tail(down[1])
    <3>1. j - 1 \in DOMAIN r /\ r[j - 1] = down[1][j]
      <4>1. \A i \in DOMAIN down[1] : i # 1 => i - 1 \in DOMAIN r /\ r[i - 1] = down[1][i]
        BY <2>7, Shrunk
      <4> QED BY <2>5, <2>7, <2>8, <4>1
    <3> HIDE DEF r
    <3>2. down'[1] = r
      BY <1>1, <2>7 DEF Values, r
    <3> QED BY <2>1, <2>4, <2>5, <3>1, <3>2 DEF Cancelling
  <2>9. CASE t = "end"
    <3>1. RecvStreamEnd /\ kind = "read"
      BY <2>4, <2>6, <2>9 DEF Cancelling
    <3>2. handle.state # "none"
      BY <2>2, <2>7, <2>9 DEF Begun, Asked
    <3>3. handle.state # "opening"
      BY <2>2, <3>1 DEF RecvStreamEnd, Lapse, Mark, GivenUp
    <3>4. handle.state = "open"
      BY <1>1, <2>3, <3>2, <3>3 DEF AHandle
    <3>5. handle' = CloseHandle
      BY <1>1, <3>1, <3>4 DEF RecvStreamEnd, Measured
    <3> QED BY <1>1, <2>2, <3>5, ClosedIs
  <2> QED BY <2>8, <2>9
<1>5. CASE AgentActs
  <2>1. /\ UNCHANGED <<kind, dialled, socket, down, sink>> /\ lapsed \subseteq lapsed'
        /\ handle'.state # "closed" => handle.state # "closed"
    BY <1>5, AgentMoves
  <2> QED BY <2>1 DEF EndIsComing, Cancelling, GivenUp
<1>6. CASE AgentSeesClose
  BY <1>6 DEF AgentSeesClose, EndIsComing
<1>7. CASE Reconnect
  <2>1. made \in Nat \ {0}
    BY <1>1, WindowAssumption DEF Values, Conns
  <2>2. dialled' # 1
    BY <1>7, <2>1 DEF Reconnect
  <2> QED BY <2>2 DEF EndIsComing
<1>8. ASSUME NEW c \in Conns, GatewaySeesClose(c) PROVE EndIsComing'
  <2>1. /\ UNCHANGED <<kind, dialled, down, handle, lapsed>>
        /\ socket' = 0 \/ UNCHANGED <<socket, sink>>
    BY <1>8 DEF GatewaySeesClose
  <2> QED BY <2>1 DEF EndIsComing, Cancelling, GivenUp
<1> QED BY <1>2, <1>3, <1>4, <1>5, <1>6, <1>7, <1>8 DEF StreamNext, GatewayActs, AgentActs

LEMMA ExcusedStays == ASSUME Transfer, Excused, [StreamNext]_streamVars PROVE Excused'
<1>0. writer \in AWriter /\ kind \in {"read", "write"} /\ Values /\ Measured
  BY DEF Transfer, Values
<1>1. (writer'.destroyed = writer.destroyed /\ lapsed \subseteq lapsed') \/ "abandoned" \in lapsed'
  <2>1. CASE UNCHANGED streamVars
    BY <2>1 DEF streamVars
  <2>2. CASE RpcTimesOut
    BY <2>2, Rejected DEF RpcTimesOut, Lapse
  <2>3. CASE SourceFails
    BY <2>3 DEF SourceFails, Lapse
  <2>4. CASE WriteChunk \/ FinishWriting
    <3>1. /\ UNCHANGED lapsed
          /\ \/ PushChunk(writer) /\ kind = "write" /\ writer.next <= Len(file)
             \/ Finalize(writer)
             \/ writer' \in {[writer EXCEPT !.state = "opening"], [writer EXCEPT !.state = "finalOpening"]}
      BY <2>4 DEF WriteChunk, FinishWriting
    <3>2. writer'.destroyed = writer.destroyed
      BY <1>0, <3>1, Pushed, Finalized DEF AWriter
    <3> QED BY <3>1, <3>2
  <2>5. CASE Take \/ TakeEnd \/ Read \/ CancelRead
    BY <2>5 DEF Take, TakeEnd, Read, CancelRead
  <2>6. ASSUME NEW c \in Conns, Receive(c) PROVE writer'.destroyed = writer.destroyed /\ UNCHANGED lapsed
    <3>0. UNCHANGED lapsed
      BY <2>6 DEF Receive, RecvOk, RecvErr, RecvData, RecvEnd, RecvError, RecvCredit, Received
    <3>1. CASE RecvOk(c)
      <4>1. \/ PushChunk(writer) /\ writer.state = "opening"
            \/ Finalize(writer)
            \/ UNCHANGED writer
        BY <3>1 DEF RecvOk
      <4>2. writer.state = "opening" => kind = "write" /\ writer.next <= Len(file)
        BY <1>0 DEF Measured, NewWriter
      <4> QED BY <1>0, <3>0, <4>1, <4>2, Pushed, Finalized
    <3>2. CASE RecvErr(c)
      BY <3>0, <3>2, Rejected DEF RecvErr
    <3>3. CASE RecvData(c)
      BY <3>0, <3>3 DEF RecvData
    <3>4. CASE RecvEnd(c)
      BY <1>0, <3>0, <3>4 DEF RecvEnd, AWriter
    <3>5. CASE RecvError(c)
      BY <3>0, <3>5, Failed DEF RecvError
    <3>6. CASE RecvCredit(c)
      <4>1. kind = "write" /\ Head(up[c]).n \in Nat
        BY <3>6, ReceivedFits DEF RecvCredit
      <4> DEFINE credit == writer.credit + Head(up[c]).n
                 w == [writer EXCEPT !.credit = credit]
      <4>2. credit \in Int
        BY <1>0, <4>1 DEF AWriter
      <4>3. \/ PushChunk(w) /\ w.state = "waiting"
            \/ writer' \in {w, writer}
        BY <3>6 DEF RecvCredit
      <4> HIDE DEF credit
      <4>4. w \in AWriter /\ w.next = writer.next /\ w.state = writer.state /\ w.destroyed = writer.destroyed
        BY <1>0, <4>2 DEF AWriter
      <4> HIDE DEF w
      <4>5. w.state = "waiting" => w.next <= Len(file)
        BY <1>0, <4>4 DEF Measured
      <4> QED BY <3>0, <4>1, <4>3, <4>4, <4>5, Pushed
    <3> QED BY <2>6, <3>1, <3>2, <3>3, <3>4, <3>5, <3>6 DEF Receive
  <2>7. ASSUME NEW c \in Conns, GatewaySeesClose(c) PROVE writer'.destroyed = writer.destroyed /\ UNCHANGED lapsed
    <3>1. UNCHANGED writer \/ FailSink
      BY <2>7 DEF GatewaySeesClose
    <3>2. writer'.destroyed = writer.destroyed
      BY <3>1, Failed
    <3> QED BY <2>7, <3>2 DEF GatewaySeesClose
  <2>8. CASE Deliver \/ AgentActs \/ AgentSeesClose \/ Reconnect
    BY <2>8 DEF Deliver, RecvOpen, RecvReadCredit, RecvChunk, RecvStreamEnd, Delivered, AgentActs, Opened,
       OpenFails, ReadChunk, ReadEnds, ReadFails, Flush, Finish, WriteFails, AgentSeesClose, Reconnect, Lapse
  <2> QED BY <2>1, <2>2, <2>3, <2>4, <2>5, <2>6, <2>7, <2>8 DEF StreamNext, AgentActs
<1> QED BY <1>1 DEF Excused

Carried == Transfer /\ Begun /\ Listening /\ EndIsComing /\ Excused

LEMMA CarriedInvariant == StreamSpec => []Carried
<1>1. StreamInit => Carried
  <2> SUFFICES ASSUME StreamInit PROVE Carried
    OBVIOUS
  <2>1. Listening /\ EndIsComing /\ Excused
    BY DEF StreamInit, NewReader, NewWriter, Listening, EndIsComing, Excused
  <2> QED BY <2>1, TransferInit, BegunInit DEF Carried
<1>2. Carried /\ [StreamNext]_streamVars => Carried'
  BY TransferNext, BegunNext, ListeningStays, EndIsComingStays, ExcusedStays DEF Carried
<1> QED BY <1>1, <1>2, PTL DEF StreamSpec

\* At rest, no file is held open on the machine, and no end listed on the
\* gateway, for a transfer that is over: unless it was given up before the agent
\* had opened it or said so, or the source of an upload failed.
THEOREM NoIdleHandleHolds == StreamSpec => []NoIdleHandle
<1>1. Carried => NoIdleHandle
  <2> SUFFICES ASSUME Carried, Over, socket = dialled, dialled # 0, handle.state # "opening",
                      up[dialled] = <<>>, down[dialled] = <<>>,
                      lapsed \cap {"cancelledOpen", "openTimeout", "lateOpen", "abandoned"} = {}
               PROVE  ~handle.listed /\ ~sink
    BY DEF NoIdleHandle
  <2>1. ~sink
    BY DEF Carried, Over, Listening, Excused
  <2>2. ASSUME handle.listed PROVE FALSE
    <3>1. handle.state = "open"
      BY <2>2 DEF Carried, Transfer, Measured
    <3>2. dialled = 1
      BY <3>1 DEF Carried, Begun, OnTime
    <3>3. Cancelling
      BY <2>1, <3>1, <3>2 DEF Carried, EndIsComing, GivenUp
    <3> QED BY <3>2, <3>3, Empty DEF Cancelling
  <2> QED BY <2>1, <2>2
<1> QED BY <1>1, CarriedInvariant, PTL

-----------------------------------------------------------------------------
(* A download: what has come is the beginning of the file, and what travels   *)
(* is what comes next.                                                       *)

Downloading == kind = "read" /\ "lateOpen" \notin lapsed
Had == Len(reader.taken) + Len(reader.buffer)
Answer == IF 1 \in DOMAIN up[1] /\ up[1][1].t = "ok" THEN 1 ELSE 0

Elsewhere == \A c \in Conns \ {1} : \A i \in DOMAIN up[c] : up[c][i].t = "err"
Closing == \A i \in DOMAIN up[1] : up[1][i].t \in LastWords => i = Len(up[1])
Coming == sink => \A i \in DOMAIN up[1] : /\ up[1][i].t = "data" => up[1][i].n = Had + i - Answer
                                          /\ up[1][i].t = "end" => Had + i - Answer = Len(file) + 1
Ahead == sink /\ handle.state = "open" => handle.next = Had + Len(up[1]) - Answer + 1
InLine == /\ \A i \in DOMAIN reader.taken : reader.taken[i] = i
          /\ \A i \in DOMAIN reader.buffer : reader.buffer[i] = Len(reader.taken) + i
AtTheEnd == /\ handle.state \in Unopened => Had = 0
            /\ reader.state \in {"ended", "done"} => Had = Len(file)
            /\ reader.state = "done" => Len(reader.buffer) = 0
Downloads == Downloading => Elsewhere /\ Closing /\ Coming /\ Ahead /\ InLine /\ AtTheEnd

LEMMA Onward ==
  ASSUME [StreamNext]_streamVars
  PROVE  UNCHANGED <<kind, file>> /\ lapsed \subseteq lapsed'
<1>1. CASE UNCHANGED streamVars
  BY <1>1 DEF streamVars
<1>2. CASE RpcTimesOut \/ WriteChunk \/ FinishWriting \/ SourceFails \/ Read \/ Take \/ TakeEnd \/ CancelRead
  BY <1>2 DEF RpcTimesOut, WriteChunk, FinishWriting, SourceFails, Read, Take, TakeEnd, CancelRead, Lapse
<1>3. CASE \E c \in Conns : Receive(c) \/ GatewaySeesClose(c)
  BY <1>3 DEF Receive, RecvOk, RecvErr, RecvData, RecvEnd, RecvError, RecvCredit, Received, GatewaySeesClose
<1>4. CASE Deliver
  BY <1>4 DEF Deliver, RecvOpen, RecvReadCredit, RecvChunk, RecvStreamEnd, Delivered, Lapse
<1>5. CASE AgentActs
  BY <1>5 DEF AgentActs, Opened, OpenFails, ReadChunk, ReadEnds, ReadFails, Flush, Finish, WriteFails, Lapse
<1>6. CASE AgentSeesClose \/ Reconnect
  BY <1>6 DEF AgentSeesClose, Reconnect, Lapse
<1> QED BY <1>1, <1>2, <1>3, <1>4, <1>5, <1>6 DEF StreamNext, AgentActs

\* What is where in the first connection's queue, and how much there is.
LEMMA Amounts ==
  ASSUME Transfer
  PROVE  /\ 1 \in Conns /\ Len(file) \in Nat
         /\ up[1] \in Seq(ToGatewayFrames) /\ Len(up[1]) \in Nat /\ DOMAIN up[1] = 1 .. Len(up[1])
         /\ reader.taken \in Seq(Chunks) /\ Len(reader.taken) \in Nat
         /\ DOMAIN reader.taken = 1 .. Len(reader.taken)
         /\ reader.buffer \in Seq(Chunks) /\ Len(reader.buffer) \in Nat
         /\ DOMAIN reader.buffer = 1 .. Len(reader.buffer)
         /\ Had \in Nat /\ Answer \in {0, 1}
<1>1. 1 \in Conns
  BY WindowAssumption DEF Conns
<1>2. up[1] \in Seq(ToGatewayFrames) /\ reader.taken \in Seq(Chunks) /\ reader.buffer \in Seq(Chunks)
  BY <1>1 DEF Transfer, Values, AReader
<1>3. Len(file) \in Nat
  BY FileSizes DEF Transfer, Values
<1>4. Len(up[1]) \in Nat /\ DOMAIN up[1] = 1 .. Len(up[1])
  BY <1>2
<1>5. /\ Len(reader.taken) \in Nat /\ DOMAIN reader.taken = 1 .. Len(reader.taken)
      /\ Len(reader.buffer) \in Nat /\ DOMAIN reader.buffer = 1 .. Len(reader.buffer)
  BY <1>2
<1>6. Had \in Nat
  <2>1. \A m, n \in Nat : m + n \in Nat
    OBVIOUS
  <2> QED BY <1>5, <2>1, Zenon DEF Had
<1>7. Answer \in {0, 1}
  BY DEF Answer
<1> QED BY <1>1, <1>2, <1>3, <1>4, <1>5, <1>6, <1>7

\* A step after which the gateway has what it had, and waits for what it waited for.
LEMMA NothingComes ==
  ASSUME Downloading, Downloads, UNCHANGED file, up'[1] = up[1], Elsewhere', sink' => sink,
         reader'.buffer = reader.buffer, reader'.taken = reader.taken,
         reader'.state \in {reader.state, "failed", "cancelled"},
         sink' /\ handle'.state = "open" => handle.state = "open" /\ handle'.next = handle.next,
         handle'.state \in Unopened => handle.state \in Unopened
  PROVE  Downloads'
<1>1. Had' = Had /\ Answer' = Answer
  BY DEF Had, Answer
<1>2. Elsewhere /\ Closing /\ Coming /\ Ahead /\ InLine /\ AtTheEnd
  BY DEF Downloads
<1>3. Closing'
  BY <1>2 DEF Closing
<1>4. Coming' /\ Ahead'
  BY <1>1, <1>2 DEF Coming, Ahead
<1>5. InLine'
  BY <1>2 DEF InLine
<1>6. AtTheEnd'
  BY <1>1, <1>2 DEF AtTheEnd, Unopened
<1> QED BY <1>3, <1>4, <1>5, <1>6 DEF Downloads

LEMMA DownloadsInit == ASSUME StreamInit PROVE Downloads
<1>1. /\ Transfer /\ handle = NewHandle /\ reader = NewReader /\ up = [c \in Conns |-> <<>>]
  BY TransferInit DEF StreamInit
<1>2. \A c \in Conns : up[c] = <<>> /\ DOMAIN up[c] = {}
  BY <1>1, Empty
<1>3. reader.taken = <<>> /\ reader.buffer = <<>> /\ reader.state = "active" /\ handle.state = "none"
  BY <1>1 DEF NewReader, NewHandle
<1>4. Elsewhere /\ Closing /\ Coming /\ Ahead
  BY <1>1, <1>2, <1>3, Amounts DEF Elsewhere, Closing, Coming, Ahead
<1>5. InLine /\ AtTheEnd
  BY <1>3, Empty DEF InLine, AtTheEnd, Had
<1> QED BY <1>4, <1>5 DEF Downloads

\* The consumer takes a chunk: what it has and what is buffered are the same chunks.
LEMMA TakeDownloads ==
  ASSUME Transfer, Downloading, Downloads, Take
  PROVE  Downloads'
<1>1. /\ UNCHANGED <<file, up, sink, handle>> /\ reader.buffer # <<>>
      /\ reader' = [reader EXCEPT !.buffer = Tail(@), !.taken = Append(@, Head(reader.buffer))]
  BY DEF Take
<1> DEFINE b == Tail(reader.buffer)
           k == Append(reader.taken, Head(reader.buffer))
<1>2. /\ Len(b) = Len(reader.buffer) - 1 /\ Len(reader.buffer) \in Nat \ {0}
      /\ DOMAIN b = 1 .. (Len(reader.buffer) - 1)
      /\ 1 \in DOMAIN reader.buffer /\ Head(reader.buffer) = reader.buffer[1] /\ Head(reader.buffer) \in Chunks
      /\ \A i \in DOMAIN b : i + 1 \in DOMAIN reader.buffer /\ b[i] = reader.buffer[i + 1]
  BY <1>1, Amounts, Shrunk
<1>3. /\ Len(k) = Len(reader.taken) + 1 /\ Len(reader.taken) \in Nat
      /\ DOMAIN reader.taken = 1 .. Len(reader.taken) /\ DOMAIN k = 1 .. (Len(reader.taken) + 1)
      /\ k[Len(reader.taken) + 1] = Head(reader.buffer)
      /\ \A i \in DOMAIN reader.taken : k[i] = reader.taken[i]
  BY <1>2, Amounts, Grown
<1>4. reader' = [reader EXCEPT !.buffer = b, !.taken = k]
  BY <1>1
<1> HIDE DEF b, k
<1>5. reader'.buffer = b /\ reader'.taken = k /\ reader'.state = reader.state
  BY <1>4 DEF Transfer, Values, AReader
<1>6. Elsewhere /\ Closing /\ Coming /\ Ahead /\ InLine /\ AtTheEnd
  BY DEF Downloads
<1>7. Had' = Had /\ Answer' = Answer
  <2>1. Had' = Len(k) + Len(b)
    BY <1>5 DEF Had
  <2>2. Len(k) + Len(b) = Len(reader.taken) + Len(reader.buffer)
    <3>1. \A m \in Nat, n \in Nat \ {0} : (m + 1) + (n - 1) = m + n
      OBVIOUS
    <3> QED BY <1>2, <1>3, <3>1, Zenon
  <2> QED BY <1>1, <2>1, <2>2 DEF Had, Answer
<1>8. Elsewhere' /\ Closing' /\ Coming' /\ Ahead'
  BY <1>1, <1>6, <1>7 DEF Elsewhere, Closing, Coming, Ahead
<1>9. InLine'
  <2>1. Head(reader.buffer) = Len(reader.taken) + 1
    BY <1>2, <1>6 DEF InLine
  <2>2. \A i \in DOMAIN k : k[i] = i
    BY <1>3, <1>6, <2>1 DEF InLine
  <2>3. ASSUME NEW i \in DOMAIN b PROVE b[i] = Len(k) + i
    <3>1. b[i] = Len(reader.taken) + (i + 1) /\ i \in Nat
      BY <1>2, <1>6 DEF InLine
    <3> QED BY <1>3, <3>1
  <2> QED BY <1>5, <2>2, <2>3 DEF InLine
<1>10. AtTheEnd'
  <2>1. reader.state # "done"
    BY DEF Take
  <2> QED BY <1>1, <1>5, <1>6, <1>7, <2>1 DEF AtTheEnd
<1> QED BY <1>8, <1>9, <1>10 DEF Downloads

LEMMA TakeEndDownloads ==
  ASSUME Transfer, Downloading, Downloads, TakeEnd
  PROVE  Downloads'
<1>1. /\ UNCHANGED <<file, up, sink, handle>> /\ reader.buffer = <<>> /\ reader.state = "ended"
      /\ reader' = [reader EXCEPT !.state = "done"]
  BY DEF TakeEnd
<1>2. reader'.buffer = reader.buffer /\ reader'.taken = reader.taken /\ reader'.state = "done"
  BY <1>1 DEF Transfer, Values, AReader
<1>3. Elsewhere /\ Closing /\ Coming /\ Ahead /\ InLine /\ AtTheEnd
  BY DEF Downloads
<1>4. Had' = Had /\ Answer' = Answer
  BY <1>1, <1>2 DEF Had, Answer
<1>5. Elsewhere' /\ Closing' /\ Coming' /\ Ahead' /\ InLine'
  BY <1>1, <1>2, <1>3, <1>4 DEF Elsewhere, Closing, Coming, Ahead, InLine
<1>6. AtTheEnd'
  BY <1>1, <1>2, <1>3, <1>4, Empty DEF AtTheEnd
<1> QED BY <1>5, <1>6 DEF Downloads

LEMMA ElsewhereStays ==
  ASSUME Elsewhere, NEW G, UpFrom(G), dialled # 1 => \A g \in G : g.t = "err"
  PROVE  Elsewhere'
BY DEF Elsewhere, UpFrom

\* The first frame of the first connection is taken off.
LEMMA Popped ==
  ASSUME Transfer, Begun, Downloading, Downloads, NEW t, Received(1, t), Had' \in Int,
         sink' => sink /\ Had' = (IF t = "data" THEN Had + 1 ELSE Had)
  PROVE  Closing' /\ Coming' /\ Ahead'
<1> DEFINE r == Tail(up[1])
<1>1. Elsewhere /\ Closing /\ Coming /\ Ahead
  BY DEF Downloads
<1>2. /\ up' = [up EXCEPT ![1] = r] /\ up[1][1].t = t /\ 1 \in DOMAIN up[1] /\ up[1][1] \in ToGatewayFrames
      /\ Len(r) = Len(up[1]) - 1 /\ Len(up[1]) \in Nat \ {0} /\ DOMAIN r = 1 .. (Len(up[1]) - 1)
      /\ DOMAIN up[1] = 1 .. Len(up[1])
      /\ \A i \in DOMAIN r : i + 1 \in DOMAIN up[1] /\ r[i] = up[1][i + 1]
  BY Amounts, UpShrinks, Shrunk DEF Transfer
<1> HIDE DEF r
<1>3. up'[1] = r /\ UNCHANGED <<file, handle>>
  BY <1>2, Amounts DEF Transfer, Values, Received
<1>4. Closing'
  <2>1. ASSUME NEW i \in DOMAIN r, r[i].t \in LastWords PROVE i = Len(r)
    BY <1>1, <1>2, <2>1 DEF Closing
  <2> QED BY <1>3, <2>1 DEF Closing
<1>5. CASE t \in LastWords
  <2>1. handle.state = "closed" /\ Len(up[1]) = 1
    BY <1>1, <1>2, <1>5, Amounts DEF Begun, Replied, Closing
  <2>2. DOMAIN r = {}
    BY <1>2, <2>1
  <2>3. Coming' /\ Ahead'
    BY <1>3, <2>1, <2>2 DEF Coming, Ahead
  <2> QED BY <1>4, <2>3
<1>6. CASE t \in {"ok", "data"}
  <2>1. Answer = (IF t = "ok" THEN 1 ELSE 0)
    BY <1>2 DEF Answer
  <2>2. Answer' = 0
    <3>1. ASSUME 1 \in DOMAIN r PROVE r[1].t # "ok"
      <4>1. 2 \in DOMAIN up[1] /\ r[1] = up[1][2]
        BY <1>2, <3>1
      <4> QED BY <4>1, Amounts DEF Begun, Replied
    <3> QED BY <1>3, <3>1 DEF Answer
  <2>3. SUFFICES ASSUME sink' PROVE Coming' /\ Ahead'
    BY <1>4 DEF Coming, Ahead
  <2>4. sink /\ Had \in Nat /\ Had' - Answer' = Had - Answer + 1
    BY <1>6, <2>1, <2>2, <2>3, Amounts
  <2>5. \A i \in Int : Had' + i - Answer' = Had + (i + 1) - Answer
    <3>1. Had' \in Int /\ Answer' \in Int /\ Had \in Int /\ Answer \in Int
      BY <2>2, Amounts
    <3>2. PICK g \in Int, b \in Int, h \in Int, a \in Int : g = Had' /\ b = Answer' /\ h = Had /\ a = Answer
      BY <3>1, Zenon
    <3>3. g - b = h - a + 1
      BY <2>4, <3>2, Zenon
    <3>4. \A i \in Int : g + i - b = h + (i + 1) - a
      BY <3>3
    <3> QED BY <3>2, <3>4, Zenon
  <2>6. Coming'
    <3>1. ASSUME NEW i \in DOMAIN r
          PROVE  /\ r[i].t = "data" => r[i].n = Had' + i - Answer'
                 /\ r[i].t = "end" => Had' + i - Answer' = Len(file) + 1
      <4>1. i \in Nat /\ r[i] = up[1][i + 1] /\ i + 1 \in DOMAIN up[1]
        BY <1>2
      <4>2. Had' + i - Answer' = Had + (i + 1) - Answer
        <5>1. i \in Int
          BY <4>1
        <5> QED BY <2>5, <5>1, Zenon
      <4> QED BY <1>1, <2>4, <4>1, <4>2 DEF Coming
    <3> QED BY <1>3, <3>1 DEF Coming
  <2>7. Ahead'
    <3>1. Had' + Len(r) - Answer' = Had + (Len(r) + 1) - Answer
      <4>1. Len(r) \in Int
        BY <1>2
      <4> QED BY <2>5, <4>1, Zenon
    <3>2. Len(r) + 1 = Len(up[1])
      BY <1>2
    <3> QED BY <1>1, <1>3, <2>4, <3>1, <3>2 DEF Ahead
  <2> QED BY <2>6, <2>7
<1>7. t # "credit" /\ t \in ToGateway
  BY <1>2, Amounts DEF Transfer, OneWay, Downloading, ToGatewayFrames
<1> QED BY <1>4, <1>5, <1>6, <1>7 DEF ToGateway, LastWords

LEMMA ReceivedDownloads ==
  ASSUME Transfer, Transfer', Begun, Listening, Downloading, Downloads, NEW c \in Conns, Receive(c)
  PROVE  Downloads'
<1>1. Elsewhere /\ Closing /\ Coming /\ Ahead /\ InLine /\ AtTheEnd
  BY DEF Downloads
<1>2. \E t : Received(c, t)
  BY DEF Receive, RecvOk, RecvErr, RecvData, RecvEnd, RecvError, RecvCredit
<1>3. /\ UpFrom({}) /\ up[c] # <<>> /\ up[c] \in Seq(ToGatewayFrames) /\ 1 \in DOMAIN up[c]
      /\ up' = [up EXCEPT ![c] = Tail(up[c])] /\ Head(up[c]) = up[c][1]
  BY <1>2, UpShrinks DEF Transfer
<1>4. Elsewhere'
  BY <1>1, <1>3, ElsewhereStays
<1>5. UNCHANGED <<file, handle>> /\ reader \in AReader /\ handle.state \notin Unopened
  BY <1>2, <1>3 DEF Received, Transfer, Values, Begun, Unanswered
<1>6. CASE RecvErr(c)
  <2>1. /\ reader'.buffer = reader.buffer /\ reader'.taken = reader.taken
        /\ reader'.state \in {reader.state, "failed"} /\ (sink' => sink)
    BY <1>6, Rejected DEF RecvErr
  <2>2. CASE c = 1
    <3>1. Had' = Had /\ Had \in Nat /\ Received(1, "err")
      BY <1>6, <2>1, <2>2, Amounts DEF Had, RecvErr
    <3>2. Closing' /\ Coming' /\ Ahead'
      BY <2>1, <3>1, Popped
    <3>3. InLine' /\ AtTheEnd'
      BY <1>1, <1>5, <2>1, <3>1 DEF InLine, AtTheEnd
    <3> QED BY <1>4, <3>2, <3>3 DEF Downloads
  <2>3. CASE c # 1
    <3>1. up'[1] = up[1]
      BY <1>3, <2>3, Amounts DEF Transfer, Values
    <3> QED BY <1>4, <1>5, <2>1, <3>1, NothingComes
  <2> QED BY <2>2, <2>3
<1>7. CASE ~RecvErr(c)
  <2>1. c = 1
    <3>1. Head(up[c]).t # "err"
      BY <1>7 DEF Receive, RecvOk, RecvData, RecvEnd, RecvError, RecvCredit, Received
    <3> QED BY <1>1, <1>3, <3>1 DEF Elsewhere
  <2>2. CASE RecvOk(c)
    <3>1. Received(1, "ok") /\ UNCHANGED <<sink, reader>>
      BY <2>1, <2>2 DEF RecvOk
    <3>2. Had' = Had /\ Had \in Nat
      BY <3>1, Amounts DEF Had
    <3>3. Closing' /\ Coming' /\ Ahead'
      BY <3>1, <3>2, Popped
    <3>4. InLine' /\ AtTheEnd'
      BY <1>1, <1>5, <3>1, <3>2 DEF InLine, AtTheEnd
    <3> QED BY <1>4, <3>3, <3>4 DEF Downloads
  <2>3. CASE RecvData(c)
    <3>1. /\ Received(1, "data") /\ UNCHANGED sink /\ (~sink => reader' = reader)
          /\ up[1][1].t = "data"
      BY <1>3, <2>1, <2>3 DEF RecvData, Received
    <3>2. CASE ~sink
      <4>1. Had' = Had /\ Had \in Nat
        BY <3>1, <3>2, Amounts DEF Had
      <4>2. Closing' /\ Coming' /\ Ahead'
        BY <3>1, <3>2, <4>1, Popped
      <4>3. InLine' /\ AtTheEnd'
        BY <1>1, <1>5, <3>1, <3>2, <4>1 DEF InLine, AtTheEnd
      <4> QED BY <1>4, <4>2, <4>3 DEF Downloads
    <3>3. CASE sink
      <4> DEFINE n == Head(up[c]).n
                 b == Append(reader.buffer, n)
                 owed == reader.owed + file[n]
      <4>1. n = Had + 1 /\ reader.state = "active"
        <5>1. Answer = 0
          BY <1>3, <2>1, <3>1 DEF Answer
        <5>2. n = Had + 1 - Answer
          BY <1>1, <1>3, <2>1, <3>1, <3>3 DEF Coming
        <5> QED BY <3>3, <5>1, <5>2, Amounts DEF Listening
      <4>2. n \in Chunks
        BY <2>3, ReceivedFits DEF RecvData
      <4>3. /\ Len(b) = Len(reader.buffer) + 1 /\ b[Len(reader.buffer) + 1] = n
            /\ DOMAIN b = 1 .. (Len(reader.buffer) + 1)
            /\ \A i \in DOMAIN reader.buffer : b[i] = reader.buffer[i]
        BY <4>2, Amounts, Grown
      <4>4. reader' = [reader EXCEPT !.owed = owed, !.reading = FALSE, !.buffer = b]
        BY <2>3, <3>3 DEF RecvData
      <4> HIDE DEF n, b, owed
      <4>5. reader'.buffer = b /\ reader'.taken = reader.taken /\ reader'.state = reader.state
        BY <1>5, <4>4 DEF AReader
      <4>6. Had' = Had + 1
        <5>1. Had' = Len(reader.taken) + Len(b)
          BY <4>5 DEF Had
        <5>2. \A k, m \in Nat : k + (m + 1) = k + m + 1
          OBVIOUS
        <5>3. Len(reader.taken) + (Len(reader.buffer) + 1) = Len(reader.taken) + Len(reader.buffer) + 1
          BY <5>2, Amounts, Zenon
        <5> QED BY <4>3, <5>1, <5>3, Zenon DEF Had
      <4>7. Closing' /\ Coming' /\ Ahead'
        BY <3>1, <3>3, <4>6, Amounts, Popped
      <4>8. InLine'
        <5>1. n = Len(reader.taken) + (Len(reader.buffer) + 1)
          <6>1. \A k, m \in Nat : k + (m + 1) = k + m + 1
            OBVIOUS
          <6> QED BY <4>1, <6>1, Amounts, Zenon DEF Had
        <5>2. ASSUME NEW i \in DOMAIN b PROVE b[i] = Len(reader.taken) + i
          <6>1. CASE i = Len(reader.buffer) + 1
            BY <4>3, <5>1, <6>1
          <6>2. CASE i # Len(reader.buffer) + 1
            <7>1. i \in DOMAIN reader.buffer
              BY <4>3, <6>2, Amounts
            <7> QED BY <1>1, <4>3, <7>1 DEF InLine
          <6> QED BY <6>1, <6>2
        <5> QED BY <1>1, <4>5, <5>2 DEF InLine
      <4>9. AtTheEnd'
        BY <1>5, <4>1, <4>5 DEF AtTheEnd
      <4> QED BY <1>4, <4>7, <4>8, <4>9 DEF Downloads
    <3> QED BY <3>2, <3>3
  <2>4. CASE RecvEnd(c)
    <3>1. /\ Received(1, "end") /\ sink' = FALSE /\ up[1][1].t = "end"
          /\ reader' = IF sink THEN [reader EXCEPT !.state = "ended"] ELSE reader
      BY <1>3, <2>1, <2>4 DEF RecvEnd, Received, Downloading
    <3>2. /\ reader'.buffer = reader.buffer /\ reader'.taken = reader.taken
          /\ reader'.state = (IF sink THEN "ended" ELSE reader.state)
      BY <1>5, <3>1 DEF AReader
    <3>3. Had' = Had /\ Had \in Nat
      BY <3>2, Amounts DEF Had
    <3>4. Closing' /\ Coming' /\ Ahead'
      BY <3>1, <3>3, Popped
    <3>5. sink => Had = Len(file)
      <4>1. Answer = 0
        BY <3>1 DEF Answer
      <4>2. sink => Had + 1 - Answer = Len(file) + 1
        BY <1>1, <1>3, <2>1, <3>1 DEF Coming
      <4> QED BY <3>3, <4>1, <4>2, Amounts
    <3>6. InLine' /\ AtTheEnd'
      BY <1>1, <1>5, <3>2, <3>3, <3>5 DEF InLine, AtTheEnd
    <3> QED BY <1>4, <3>4, <3>6 DEF Downloads
  <2>5. CASE RecvError(c)
    <3>1. /\ Received(1, "error") /\ sink' = FALSE
          /\ reader'.buffer = reader.buffer /\ reader'.taken = reader.taken
          /\ reader'.state \in {reader.state, "failed"}
      BY <2>1, <2>5, Failed DEF RecvError
    <3>2. Had' = Had /\ Had \in Nat
      BY <3>1, Amounts DEF Had
    <3>3. Closing' /\ Coming' /\ Ahead'
      BY <3>1, <3>2, Popped
    <3>4. InLine' /\ AtTheEnd'
      BY <1>1, <1>5, <3>1, <3>2 DEF InLine, AtTheEnd
    <3> QED BY <1>4, <3>3, <3>4 DEF Downloads
  <2>6. ~RecvCredit(c)
    BY ReceivedFits DEF RecvCredit, Downloading
  <2> QED BY <1>7, <2>2, <2>3, <2>4, <2>5, <2>6 DEF Receive
<1> QED BY <1>6, <1>7

\* One more frame on the first connection.
LEMMA Spoken ==
  ASSUME Transfer, Transfer', Downloading, Downloads, Elsewhere', NEW f \in ToGatewayFrames, Reply(<<f>>),
         dialled = 1, 1 \in open, UNCHANGED <<file, reader, sink>>, f.t # "ok",
         handle.state \notin {"closed"}, Begun,
         f.t \in LastWords <=> handle'.state = "closed",
         f.t = "data" => f.n = handle.next /\ handle.state = "open",
         f.t = "end" => handle.next = Len(file) + 1 /\ handle.state = "open",
         handle'.state \in {"open", "closed"},
         handle'.state = "open" => handle.state = "open" /\ handle'.next = handle.next + 1
  PROVE  Downloads'
<1> DEFINE r == up[1] \o <<f>>
<1>1. Elsewhere /\ Closing /\ Coming /\ Ahead /\ InLine /\ AtTheEnd
  BY DEF Downloads
<1>2. /\ Len(r) = Len(up[1]) + 1 /\ Len(up[1]) \in Nat /\ DOMAIN r = 1 .. (Len(up[1]) + 1)
      /\ DOMAIN up[1] = 1 .. Len(up[1]) /\ r[Len(up[1]) + 1] = f
      /\ \A i \in DOMAIN up[1] : i \in DOMAIN r /\ r[i] = up[1][i]
  <2>1. r = Append(up[1], f)
    BY Amounts
  <2> HIDE DEF r
  <2> QED BY <2>1, Amounts, Grown
<1>3. up'[1] = r
  BY Amounts DEF Reply, Transfer, Values
<1> HIDE DEF r
<1>4. Had' = Had /\ Had \in Nat
  BY Amounts DEF Had
<1>5. Answer' = Answer /\ Answer \in {0, 1}
  <2>1. Answer \in {0, 1} /\ (1 \in DOMAIN up[1] \/ Len(up[1]) = 0)
    BY <1>2, Amounts
  <2>2. CASE 1 \in DOMAIN up[1]
    BY <1>2, <1>3, <2>1, <2>2 DEF Answer
  <2>3. CASE Len(up[1]) = 0
    <3>1. r[1] = f /\ 1 \notin DOMAIN up[1]
      BY <1>2, <2>3
    <3> QED BY <1>3, <2>1, <3>1 DEF Answer
  <2> QED BY <2>1, <2>2, <2>3
<1>6. \A i \in DOMAIN up[1] : up[1][i].t \notin LastWords
  BY <1>2, Amounts DEF Begun, Replied
<1>7. \A i \in DOMAIN r : i \in DOMAIN up[1] \/ (i = Len(up[1]) + 1 /\ r[i] = f)
  BY <1>2
<1>8. Closing'
  BY <1>2, <1>3, <1>6, <1>7 DEF Closing
<1>9. sink /\ handle.state = "open" => handle.next = Had + (Len(up[1]) + 1) - Answer
  <2>1. \A h, n \in Nat, a \in {0, 1} : h + n - a + 1 = h + (n + 1) - a
    OBVIOUS
  <2>2. Had + Len(up[1]) - Answer + 1 = Had + (Len(up[1]) + 1) - Answer
    BY <1>2, <1>4, <1>5, <2>1, Zenon
  <2> QED BY <1>1, <2>2 DEF Ahead
<1>10. Coming'
  <2>1. ASSUME sink, NEW i \in DOMAIN r
        PROVE  /\ r[i].t = "data" => r[i].n = Had + i - Answer
               /\ r[i].t = "end" => Had + i - Answer = Len(file) + 1
    <3>1. CASE i \in DOMAIN up[1]
      BY <1>1, <1>2, <2>1, <3>1 DEF Coming
    <3>2. CASE i = Len(up[1]) + 1 /\ r[i] = f
      BY <1>9, <2>1, <3>2
    <3> QED BY <1>7, <3>1, <3>2
  <2> QED BY <1>3, <1>4, <1>5, <2>1 DEF Coming
<1>11. Ahead'
  <2>1. SUFFICES ASSUME sink, handle'.state = "open"
                 PROVE  handle.next + 1 = Had + Len(r) - Answer + 1
    BY <1>3, <1>4, <1>5 DEF Ahead
  <2>2. handle.next = Had + Len(r) - Answer
    BY <1>2, <1>9, <2>1
  <2> QED BY <2>2
<1>12. InLine' /\ AtTheEnd'
  BY <1>1, <1>4 DEF InLine, AtTheEnd, Unopened
<1> QED BY <1>8, <1>10, <1>11, <1>12 DEF Downloads

\* The connection the gateway listens on is the one the agent answers on.
LEMMA StillConnected ==
  ASSUME Transfer, Listening, sink, dialled = 1
  PROVE  1 \in open /\ socket = 1
BY DEF Transfer, Values, Travels, Listening

LEMMA AgentDownloads ==
  ASSUME Transfer, Transfer', Begun, Listening, Downloading, Downloading', Downloads, AgentActs
  PROVE  Downloads'
<1>1. Elsewhere /\ Closing /\ Coming /\ Ahead /\ InLine /\ AtTheEnd
  BY DEF Downloads
<1>2. UNCHANGED <<kind, file, made, dialled, socket, open, down, rpc, sink, reader, writer>>
  BY AgentMoves
<1>3. Values /\ Travels /\ handle \in AHandle
  BY DEF Transfer, Values
<1>4. CASE Opened
  <2>1. /\ handle.state = "opening" /\ handle'.state = "open" /\ handle'.next = handle.next /\ ~handle.cut
    <3>1. /\ handle' = [handle EXCEPT !.state = "open", !.listed = TRUE] /\ handle.state = "opening"
          /\ "lateOpen" \notin Mark("lateOpen", handle.cut)
      BY <1>4 DEF Opened, Lapse, Downloading
    <3> QED BY <1>3, <3>1 DEF AHandle, Mark
  <2>2. dialled = 1 /\ handle.next = 1 /\ Had = 0
    BY <1>1, <2>1 DEF Begun, OnTime, Unanswered, AtTheEnd, Unopened
  <2>3. /\ \A c \in Conns : up[c] = <<>>
        /\ 1 \in open => up' = [up EXCEPT ![1] = <<Frame("ok", 0)>>]
        /\ 1 \notin open => UNCHANGED up
        /\ Frame("ok", 0).t = "ok"
    BY <1>4, <2>2, OpenedSays
  <2> DEFINE q == <<Frame("ok", 0)>>
  <2>4. Len(q) = 1 /\ DOMAIN q = {1} /\ q[1] = Frame("ok", 0)
    OBVIOUS
  <2>5. \A c \in Conns : up'[c] = IF c = 1 /\ 1 \in open THEN q ELSE <<>>
    BY <2>3, <1>3 DEF Values
  <2> HIDE DEF q
  <2>6. /\ \A c \in Conns : \A i \in DOMAIN up'[c] : c = 1 /\ i = 1 /\ up'[c][i].t = "ok"
        /\ up'[1] = IF 1 \in open THEN q ELSE <<>>
    BY <2>3, <2>4, <2>5, Empty, Amounts
  <2>7. Elsewhere' /\ Closing' /\ Coming'
    BY <2>6, Amounts DEF Elsewhere, Closing, Coming, LastWords
  <2>8. Had' = 0
    BY <1>2, <2>2 DEF Had
  <2>9. Ahead'
    <3>1. SUFFICES ASSUME sink PROVE handle'.next = Had' + Len(up'[1]) - Answer' + 1
      BY <1>2 DEF Ahead
    <3>2. 1 \in open
      BY <2>2, <3>1, StillConnected
    <3>3. Answer' = 1 /\ Len(up'[1]) = 1
      BY <2>3, <2>4, <2>6, <3>2 DEF Answer
    <3> QED BY <2>1, <2>2, <2>8, <3>3
  <2>10. InLine' /\ AtTheEnd'
    BY <1>1, <1>2, <2>1, <2>2, <2>8 DEF InLine, AtTheEnd, Unopened
  <2> QED BY <2>7, <2>9, <2>10 DEF Downloads
<1>5. ASSUME NEW f \in ToGatewayFrames, Reply(<<f>>), f.t \in {"data", "end", "error", "err"},
             dialled # 1 => f.t = "err",
             handle.state \in {"opening", "open"}, f.t \in LastWords <=> handle'.state = "closed",
             f.t = "data" => f.n = handle.next /\ handle.state = "open",
             f.t = "end" => handle.next = Len(file) + 1 /\ handle.state = "open",
             handle'.state \in {"open", "closed"},
             handle'.state = "open" => handle.state = "open" /\ handle'.next = handle.next + 1
      PROVE  Downloads'
  <2>1. UpFrom({f}) /\ Elsewhere'
    <3>1. UpFrom({f})
      BY <1>3, <1>5, OneReply
    <3> QED BY <1>1, <1>5, <3>1, ElsewhereStays
  <2>2. CASE dialled = 1 /\ 1 \in open
    BY <1>2, <1>5, <2>1, <2>2, Spoken
  <2>3. CASE dialled # 1 \/ 1 \notin open
    <3>1. up'[1] = up[1]
      BY <1>3, <1>5, <2>3, Amounts DEF Reply, Values
    <3>2. sink /\ handle'.state = "open" => FALSE
      BY <1>5, <2>3, StillConnected DEF LastWords
    <3>3. handle'.state \notin Unopened
      BY <1>5 DEF Unopened
    <3> QED BY <1>2, <2>1, <3>1, <3>2, <3>3, NothingComes
  <2> QED BY <2>2, <2>3
<1>6. /\ \A t \in {"err", "end", "error"} : Frame(t, 0) \in ToGatewayFrames /\ Frame(t, 0).t = t
      /\ handle.next \in Nat /\ Len(file) \in Nat /\ handle.next <= Len(file) + 1
      /\ Frame("data", handle.next) \in ToGatewayFrames
      /\ Frame("data", handle.next).t = "data" /\ Frame("data", handle.next).n = handle.next
  <2>1. handle.next \in Nat /\ Len(file) \in Nat /\ handle.next <= Len(file) + 1
    BY <1>3, Amounts DEF AHandle, Transfer, Measured
  <2> QED BY <2>1, FramesAre DEF ToGateway
<1>7. handle.state = "open" => dialled = 1
  BY DEF Begun, OnTime, Downloading
<1>8. CASE OpenFails \/ ReadEnds \/ ReadFails
  <2>1. /\ handle.state \in {"opening", "open"} /\ handle' = CloseHandle
        /\ \E t \in {"err", "end", "error"} :
             /\ Reply(<<Frame(t, 0)>>)
             /\ t = "end" => handle.next > Len(file) /\ handle.state = "open"
             /\ t # "err" => handle.state = "open"
    BY <1>8 DEF OpenFails, ReadEnds, ReadFails, Reading
  <2>2. handle'.state = "closed"
    BY <1>3, <2>1, ClosedIs
  <2>3. PICK t \in {"err", "end", "error"} :
             /\ Reply(<<Frame(t, 0)>>)
             /\ t = "end" => handle.next > Len(file) /\ handle.state = "open"
             /\ t # "err" => handle.state = "open"
    BY <2>1
  <2>4. t = "end" => handle.next = Len(file) + 1
    BY <1>6, <2>3
  <2> QED BY <1>5, <1>6, <1>7, <2>1, <2>2, <2>3, <2>4 DEF LastWords
<1>9. CASE ReadChunk
  <2>1. /\ handle.state = "open" /\ handle'.state = "open" /\ handle'.next = handle.next + 1
        /\ Reply(<<Frame("data", handle.next)>>)
    BY <1>9, AgentMoves DEF Opened, ReadChunk, Reading, Flush, Downloading
  <2> QED BY <1>5, <1>6, <1>7, <2>1 DEF LastWords
<1>10. ~Flush /\ ~Finish /\ ~WriteFails
  BY DEF Flush, Finish, WriteFails, Downloading
<1> QED BY <1>4, <1>8, <1>9, <1>10 DEF AgentActs

LEMMA LostDownloads ==
  ASSUME Transfer, Transfer', Begun, Listening, Downloading, Downloads, NEW c \in Conns, GatewaySeesClose(c)
  PROVE  Downloads'
<1>1. Elsewhere /\ Closing /\ Coming /\ Ahead /\ InLine /\ AtTheEnd
  BY DEF Downloads
<1>2. /\ UNCHANGED <<file, made, dialled, handle>> /\ UpFrom({})
      /\ \A d \in Conns : up'[d] = IF d = c THEN <<>> ELSE up[d]
      /\ sink' => sink
  BY LostMoves DEF GatewaySeesClose
<1>3. Elsewhere'
  BY <1>1, <1>2, ElsewhereStays
<1>4. /\ reader'.buffer = reader.buffer /\ reader'.taken = reader.taken
      /\ reader'.state \in {reader.state, "failed"} /\ (socket = c => ~sink')
  BY LostKeepsTransfer, Failed
<1>5. CASE c # 1
  <2>1. up'[1] = up[1]
    BY <1>2, <1>5, Amounts
  <2> QED BY <1>2, <1>3, <1>4, <2>1, NothingComes
<1>6. CASE c = 1
  <2>1. up'[1] = <<>>
    BY <1>2, <1>6, Amounts
  <2>2. Had' = Had
    BY <1>4 DEF Had
  <2>3. ASSUME sink', handle.state = "open" PROVE FALSE
    <3>1. dialled = 1 /\ sink
      BY <1>2, <2>3 DEF Begun, OnTime, Downloading
    <3> QED BY <1>4, <1>6, <2>3, <3>1, StillConnected
  <2>4. Closing' /\ Coming' /\ Ahead'
    BY <1>2, <2>1, <2>3, Empty DEF Closing, Coming, Ahead
  <2>5. InLine' /\ AtTheEnd'
    BY <1>1, <1>2, <1>4, <2>2 DEF InLine, AtTheEnd
  <2> QED BY <1>3, <2>4, <2>5 DEF Downloads
<1> QED BY <1>5, <1>6

LEMMA DownloadsStay ==
  ASSUME Transfer, Transfer', Begun, Listening, Downloads, [StreamNext]_streamVars
  PROVE  Downloads'
<1>1. SUFFICES ASSUME Downloading' PROVE Downloads'
  BY DEF Downloads
<1>2. Downloading /\ UNCHANGED file
  BY <1>1, Onward DEF Downloading
<1>3. /\ reader \in AReader /\ handle \in AHandle
      /\ Elsewhere /\ Closing /\ Coming /\ Ahead /\ InLine /\ AtTheEnd
  BY <1>2 DEF Transfer, Values, Downloads
<1>4. ASSUME UNCHANGED up PROVE up'[1] = up[1] /\ Elsewhere'
  BY <1>3, <1>4 DEF Elsewhere
<1>5. CASE UNCHANGED streamVars
  <2>1. UNCHANGED <<up, sink, reader, handle>>
    BY <1>5 DEF streamVars
  <2> QED BY <1>2, <1>4, <2>1, NothingComes
<1>6. CASE RpcTimesOut \/ Read \/ CancelRead
  <2>1. UNCHANGED <<up, handle>> /\ (sink' => sink)
    BY <1>6 DEF RpcTimesOut, RejectOpen, Read, CancelRead
  <2>2. /\ reader'.buffer = reader.buffer /\ reader'.taken = reader.taken
        /\ reader'.state \in {reader.state, "failed", "cancelled"}
    <3>1. CASE RpcTimesOut
      BY <3>1, Rejected DEF RpcTimesOut
    <3>2. CASE Read
      BY <1>3, <3>2 DEF Read, AReader
    <3>3. CASE CancelRead
      BY <1>3, <3>3 DEF CancelRead, AReader
    <3> QED BY <1>6, <3>1, <3>2, <3>3
  <2> QED BY <1>2, <1>4, <2>1, <2>2, NothingComes
<1>7. CASE Deliver
  <2>1. UNCHANGED <<up, sink, reader>>
    BY <1>2, <1>7, DeliveredFits DEF Deliver, RecvOpen, RecvReadCredit, RecvChunk, RecvStreamEnd, Delivered,
       Downloading
  <2>2. /\ handle'.state = "open" => handle.state = "open" /\ handle'.next = handle.next
        /\ handle'.state \in Unopened => handle.state \in Unopened
    <3>1. CASE RecvOpen
      <4>1. handle' = [handle EXCEPT !.state = "opening"]
        BY <3>1 DEF RecvOpen
      <4>2. handle.state = "none"
        <5>1. /\ dialled \in Conns /\ Head(down[dialled]) = down[dialled][1] /\ 1 \in DOMAIN down[dialled]
              /\ Head(down[dialled]).t = "open"
          BY <3>1, DownShrinks DEF RecvOpen, Transfer
        <5> QED BY <5>1 DEF Transfer, OneOpen
      <4> QED BY <1>3, <4>1, <4>2 DEF AHandle, Unopened
    <3>2. CASE RecvReadCredit
      <4> DEFINE credit == handle.credit + Head(down[dialled]).n
                 paused == handle.paused /\ credit <= 0
      <4>1. handle' = handle \/ handle' = [handle EXCEPT !.credit = credit, !.paused = paused]
        BY <3>2 DEF RecvReadCredit
      <4> HIDE DEF credit, paused
      <4> QED BY <1>3, <4>1 DEF AHandle
    <3>3. CASE RecvStreamEnd
      <4>1. handle' \in {handle, CloseHandle}
        BY <1>2, <3>3 DEF RecvStreamEnd, Downloading
      <4> QED BY <1>3, <4>1, ClosedIs DEF Unopened
    <3>4. ~RecvChunk
      BY <1>2, DeliveredFits DEF RecvChunk, Downloading
    <3> QED BY <1>7, <3>1, <3>2, <3>3, <3>4 DEF Deliver
  <2> QED BY <1>2, <1>4, <2>1, <2>2, NothingComes
<1>8. CASE AgentSeesClose
  <2>1. UNCHANGED <<up, sink, reader>>
    BY <1>8 DEF AgentSeesClose
  <2>2. handle'.state = (IF handle.state = "open" THEN "closed" ELSE handle.state)
    BY <1>8, CutKeepsTransfer
  <2> QED BY <1>2, <1>4, <2>1, <2>2, NothingComes DEF Unopened
<1>9. CASE Reconnect
  <2>1. UNCHANGED <<up, sink, reader, handle>>
    BY <1>9 DEF Reconnect
  <2> QED BY <1>2, <1>4, <2>1, NothingComes
<1>10. ~WriteChunk /\ ~FinishWriting /\ ~SourceFails
  BY <1>2 DEF WriteChunk, FinishWriting, SourceFails, Downloading
<1>11. CASE Take
  BY <1>2, <1>11, TakeDownloads
<1>12. CASE TakeEnd
  BY <1>2, <1>12, TakeEndDownloads
<1>13. CASE AgentActs
  BY <1>1, <1>2, <1>13, AgentDownloads
<1>14. CASE \E c \in Conns : Receive(c) \/ GatewaySeesClose(c)
  BY <1>2, <1>14, ReceivedDownloads, LostDownloads
<1> QED BY <1>5, <1>6, <1>7, <1>8, <1>9, <1>10, <1>11, <1>12, <1>13, <1>14 DEF StreamNext, AgentActs

-----------------------------------------------------------------------------
(* An upload: what the agent has is the beginning of the file, and what       *)
(* travels is what comes next.                                               *)

Sent == writer.state \in {"ending", "done", "failed"}

\* Before the agent has answered, nothing is sent.
Silent == rpc # "resolved" => /\ writer.next = 1 /\ handle.got = <<>> /\ ~handle.ending
                              /\ \A c \in Conns : \A i \in DOMAIN down[c] : down[c][i].t = "open"
OpenFirst == /\ rpc = "pending" => writer.state \notin {"waiting", "ending", "done"}
             /\ writer.state = "finalOpening" => writer.next > Len(file)
Flow ==
  /\ \A i \in DOMAIN down[dialled] :
       /\ down[dialled][i].t = "data" => down[dialled][i].n = Len(handle.got) + i
       /\ down[dialled][i].t = "end" => /\ i = Len(down[dialled]) /\ Sent
                                        /\ Len(handle.got) + i = Len(file) + 1
  /\ handle.ending => Len(handle.got) = Len(file) /\ Len(down[dialled]) = 0 /\ Sent
  /\ sink /\ ~Sent => writer.next = Len(handle.got) + Len(down[dialled]) + 1
Flowing == handle.listed /\ dialled # 0 => Flow

\* The gateway is told of the end when the file is on the disk.
Stored == "lateWriteError" \notin lapsed /\ (writer.state = "done" \/ Heard("end"))
            => /\ handle.state = "closed"
               /\ Len(handle.got) = Len(file) /\ handle.flushed = Len(file)
Written == \A i \in DOMAIN handle.got : handle.got[i] = i
Uploads == kind = "write" => Silent /\ OpenFirst /\ Flowing /\ Stored /\ Written

\* What the gateway may send, and when.
SendsChunk == /\ sink /\ ~Sent /\ rpc' = "resolved" /\ writer.next <= Len(file)
              /\ writer'.next = writer.next + 1 /\ writer'.state = "idle"
              /\ Send(Frame("data", writer.next))
SendsEnd == /\ sink /\ ~Sent /\ rpc' = "resolved" /\ writer.next > Len(file)
            /\ writer'.next = writer.next /\ writer'.state = "ending"
            /\ Send(Frame("end", 0))
SendsNothing == UNCHANGED down /\ writer'.next = writer.next /\ (Sent => Sent')

LEMMA PushSends ==
  ASSUME Transfer, NEW w \in AWriter, PushChunk(w), kind = "write", w.next <= Len(file), ~Sent,
         w.next = writer.next, rpc' = "resolved" \/ ~sink, UNCHANGED <<file, sink>>
  PROVE  /\ SendsChunk \/ SendsNothing
         /\ writer'.state \in {"failed", "waiting", "idle"}
<1>1. /\ PushFails(w) \/ PushWaits(w) \/ PushGoes(w)
      /\ writer'.state \in {"failed", "waiting", "idle"}
      /\ w.next \in Nat /\ file[w.next] \in Nat /\ w.credit \in Int
  <2>1. w.next \in Chunks
    BY FileSizes DEF Transfer, Values, AWriter, Chunks
  <2> QED BY <2>1, Pushed, FileSizes DEF Transfer, Values, AWriter
<1>2. CASE PushFails(w) \/ PushWaits(w)
  BY <1>1, <1>2 DEF PushFails, PushWaits, SendsNothing, AWriter
<1>3. CASE PushGoes(w)
  <2> DEFINE credit == w.credit - file[w.next]
             next == w.next + 1
  <2>1. writer' = [w EXCEPT !.state = "idle", !.credit = credit, !.next = next]
    BY <1>3 DEF PushGoes
  <2> HIDE DEF credit, next
  <2>2. writer'.state = "idle" /\ writer'.next = next
    BY <2>1 DEF AWriter
  <2> QED BY <1>1, <1>3, <2>2 DEF PushGoes, SendsChunk, next
<1> QED BY <1>1, <1>2, <1>3

LEMMA EndSends ==
  ASSUME Transfer, Finalize(writer), ~Sent, writer.next > Len(file), rpc' = "resolved" \/ ~sink
  PROVE  /\ SendsEnd \/ SendsNothing
         /\ writer'.state \in {"failed", "ending"} /\ writer'.next = writer.next
<1>1. writer \in AWriter
  BY DEF Transfer, Values
<1>2. /\ EndFails(writer) \/ EndGoes(writer)
      /\ writer'.state \in {"failed", "ending"} /\ writer'.next = writer.next
  BY <1>1, Finalized
<1>3. CASE EndFails(writer)
  BY <1>1, <1>2, <1>3 DEF EndFails, SendsNothing, Sent
<1>4. CASE EndGoes(writer)
  BY <1>1, <1>2, <1>4 DEF EndGoes, SendsEnd, AWriter
<1> QED BY <1>2, <1>3, <1>4

LEMMA WriterMoves ==
  ASSUME Transfer, Transfer', Begun, Listening, kind = "write", OpenFirst, GatewayActs
  PROVE  /\ SendsChunk \/ SendsEnd \/ SendsNothing
         /\ OpenFirst' /\ (sink' => sink)
         /\ rpc = "resolved" => rpc' = "resolved"
         /\ writer'.state = "done" => writer.state = "done" \/ Heard("end")
<1>1. /\ writer \in AWriter /\ rpc \in {"pending", "resolved", "rejected"} /\ UNCHANGED <<kind, file>>
      /\ Len(file) \in Nat /\ writer.next \in Nat /\ Measured
  BY GatewayMoves, Amounts DEF Transfer, Values, AWriter
<1>2. CASE RpcTimesOut
  <2>1. /\ UNCHANGED down /\ rpc' = "rejected" /\ sink' = FALSE /\ rpc = "pending"
        /\ writer'.next = writer.next /\ writer'.state \in {writer.state, "failed"}
    BY <1>2, Rejected DEF RpcTimesOut
  <2> QED BY <1>1, <2>1 DEF SendsNothing, Sent, OpenFirst
<1>3. CASE SourceFails
  <2>1. UNCHANGED <<down, rpc, sink>> /\ writer' = [writer EXCEPT !.destroyed = TRUE]
    BY <1>3 DEF SourceFails
  <2>2. writer'.next = writer.next /\ writer'.state = writer.state
    BY <1>1, <2>1 DEF AWriter
  <2> QED BY <1>1, <2>1, <2>2 DEF SendsNothing, Sent, OpenFirst
<1>4. CASE WriteChunk
  <2>1. UNCHANGED <<file, rpc, sink>> /\ writer.next <= Len(file) /\ writer.state = "idle"
    BY <1>4 DEF WriteChunk
  <2>2. CASE rpc = "pending"
    <3>1. writer' = [writer EXCEPT !.state = "opening"] /\ UNCHANGED down
      BY <1>4, <2>2 DEF WriteChunk
    <3>2. writer'.next = writer.next /\ writer'.state = "opening"
      BY <1>1, <3>1 DEF AWriter
    <3> QED BY <1>1, <2>1, <3>1, <3>2 DEF SendsNothing, Sent, OpenFirst
  <2>3. CASE rpc # "pending"
    <3>1. PushChunk(writer) /\ (rpc' = "resolved" \/ ~sink) /\ ~Sent
      BY <1>1, <1>4, <2>1, <2>3 DEF WriteChunk, Listening, Sent
    <3>2. /\ SendsChunk \/ SendsNothing
          /\ writer'.state \in {"failed", "waiting", "idle"}
      BY <1>1, <2>1, <3>1, PushSends
    <3> QED BY <2>1, <2>3, <3>2 DEF OpenFirst
  <2> QED BY <2>2, <2>3
<1>5. CASE FinishWriting
  <2>1. UNCHANGED <<rpc, sink>> /\ writer.next > Len(file) /\ writer.state = "idle"
    BY <1>5 DEF FinishWriting
  <2>2. CASE rpc = "pending"
    <3>1. writer' = [writer EXCEPT !.state = "finalOpening"] /\ UNCHANGED down
      BY <1>5, <2>2 DEF FinishWriting
    <3>2. writer'.next = writer.next /\ writer'.state = "finalOpening"
      BY <1>1, <3>1 DEF AWriter
    <3> QED BY <1>1, <2>1, <3>1, <3>2 DEF SendsNothing, Sent, OpenFirst
  <2>3. CASE rpc # "pending"
    <3>1. Finalize(writer) /\ (rpc' = "resolved" \/ ~sink) /\ ~Sent
      BY <1>1, <1>5, <2>1, <2>3 DEF FinishWriting, Listening, Sent
    <3>2. /\ SendsEnd \/ SendsNothing
          /\ writer'.state \in {"failed", "ending"} /\ writer'.next = writer.next
      BY <1>1, <2>1, <3>1, EndSends
    <3> QED BY <2>1, <2>3, <3>2 DEF OpenFirst
  <2> QED BY <2>2, <2>3
<1>6. ASSUME NEW c \in Conns, Receive(c)
      PROVE  /\ SendsChunk \/ SendsEnd \/ SendsNothing
             /\ OpenFirst' /\ (sink' => sink)
             /\ rpc = "resolved" => rpc' = "resolved"
             /\ writer'.state = "done" => writer.state = "done" \/ Heard("end")
  <2>1. CASE RecvOk(c)
    <3>1. UNCHANGED sink /\ rpc' = (IF rpc = "pending" THEN "resolved" ELSE rpc)
      BY <2>1 DEF RecvOk
    <3>2. CASE rpc = "pending" /\ writer.state = "opening"
      <4>1. PushChunk(writer) /\ rpc' = "resolved" /\ ~Sent /\ writer.next <= Len(file)
        BY <1>1, <2>1, <3>1, <3>2 DEF RecvOk, Sent, Measured
      <4>2. /\ SendsChunk \/ SendsNothing
            /\ writer'.state \in {"failed", "waiting", "idle"}
        BY <1>1, <3>1, <4>1, PushSends
      <4> QED BY <3>1, <4>1, <4>2 DEF OpenFirst
    <3>3. CASE rpc = "pending" /\ writer.state = "finalOpening"
      <4>1. Finalize(writer) /\ rpc' = "resolved" /\ ~Sent /\ writer.next > Len(file)
        BY <1>1, <2>1, <3>1, <3>3 DEF RecvOk, Sent, OpenFirst
      <4>2. /\ SendsEnd \/ SendsNothing
            /\ writer'.state \in {"failed", "ending"} /\ writer'.next = writer.next
        BY <4>1, EndSends
      <4> QED BY <3>1, <4>1, <4>2 DEF OpenFirst
    <3>4. CASE ~(rpc = "pending" /\ writer.state \in {"opening", "finalOpening"})
      <4>1. UNCHANGED <<writer, down>>
        BY <2>1, <3>4 DEF RecvOk
      <4> QED BY <1>1, <3>1, <4>1 DEF SendsNothing, Sent, OpenFirst
    <3> QED BY <3>2, <3>3, <3>4
  <2>2. CASE RecvErr(c)
    <3>1. UNCHANGED down
      BY <2>2 DEF RecvErr
    <3>2. CASE rpc = "pending"
      <4>1. /\ rpc' = "rejected" /\ sink' = FALSE
            /\ writer'.next = writer.next /\ writer'.state \in {writer.state, "failed"}
        BY <2>2, <3>2, Rejected DEF RecvErr
      <4> QED BY <1>1, <3>1, <3>2, <4>1 DEF SendsNothing, Sent, OpenFirst
    <3>3. CASE rpc # "pending"
      <4>1. UNCHANGED <<rpc, sink, writer>>
        BY <2>2, <3>3 DEF RecvErr
      <4> QED BY <1>1, <3>1, <4>1 DEF SendsNothing, Sent, OpenFirst
    <3> QED BY <3>2, <3>3
  <2>3. ~RecvData(c)
    BY ReceivedFits DEF RecvData
  <2>4. CASE RecvEnd(c)
    <3>1. /\ UNCHANGED <<down, rpc>> /\ sink' = FALSE
          /\ writer' = writer \/ (writer.state = "ending" /\ writer' = [writer EXCEPT !.state = "done"])
      BY <2>4 DEF RecvEnd
    <3>2. /\ writer'.next = writer.next
          /\ writer'.state = writer.state \/ (writer.state = "ending" /\ writer'.state = "done")
      BY <1>1, <3>1 DEF AWriter
    <3>3. Heard("end")
      BY <2>4, UpShrinks DEF RecvEnd, Heard, Transfer
    <3> QED BY <1>1, <3>1, <3>2, <3>3 DEF SendsNothing, Sent, OpenFirst
  <2>5. CASE RecvError(c)
    <3>1. /\ UNCHANGED <<down, rpc>> /\ sink' = FALSE
          /\ writer'.next = writer.next /\ writer'.state \in {writer.state, "failed"}
      BY <2>5, Failed DEF RecvError
    <3> QED BY <1>1, <3>1 DEF SendsNothing, Sent, OpenFirst
  <2>6. CASE RecvCredit(c)
    <3>1. Head(up[c]).n \in Nat /\ UNCHANGED <<rpc, sink>>
      BY <2>6, ReceivedFits DEF RecvCredit
    <3> DEFINE credit == writer.credit + Head(up[c]).n
               w == [writer EXCEPT !.credit = credit]
    <3>2. credit \in Int
      BY <1>1, <3>1 DEF AWriter
    <3>3. \/ PushChunk(w) /\ w.state = "waiting" /\ sink
          \/ writer' \in {w, writer} /\ UNCHANGED down
      BY <2>6 DEF RecvCredit
    <3> HIDE DEF credit
    <3>4. w \in AWriter /\ w.next = writer.next /\ w.state = writer.state
      BY <1>1, <3>2 DEF AWriter
    <3> HIDE DEF w
    <3>5. CASE PushChunk(w) /\ w.state = "waiting" /\ sink
      <4>1. rpc = "resolved" /\ rpc' = "resolved" /\ ~Sent /\ w.next <= Len(file)
        BY <1>1, <3>1, <3>4, <3>5 DEF Listening, OpenFirst, Sent, Measured
      <4>2. /\ SendsChunk \/ SendsNothing
            /\ writer'.state \in {"failed", "waiting", "idle"}
        BY <1>1, <3>1, <3>4, <3>5, <4>1, PushSends
      <4> QED BY <3>1, <4>1, <4>2 DEF OpenFirst
    <3>6. CASE writer' \in {w, writer} /\ UNCHANGED down
      BY <1>1, <3>1, <3>4, <3>6 DEF SendsNothing, Sent, OpenFirst
    <3> QED BY <3>3, <3>5, <3>6
  <2> QED BY <1>6, <2>1, <2>2, <2>3, <2>4, <2>5, <2>6 DEF Receive
<1>7. ~Take /\ ~TakeEnd /\ ~Read /\ ~CancelRead
  BY DEF Take, TakeEnd, Read, CancelRead
<1> QED BY <1>2, <1>3, <1>4, <1>5, <1>6, <1>7 DEF GatewayActs

\* What the gateway sends arrives at the end of the queue.
LEMMA Sending ==
  ASSUME Transfer, Listening, sink, dialled # 0, NEW f \in ToAgentFrames, Send(f)
  PROVE  /\ Len(down[dialled]) \in Nat /\ Len(down'[dialled]) = Len(down[dialled]) + 1
         /\ \A i \in DOMAIN down'[dialled] :
              \/ i \in DOMAIN down[dialled] /\ down'[dialled][i] = down[dialled][i]
              \/ i = Len(down[dialled]) + 1 /\ down'[dialled][i] = f
<1> DEFINE r == Append(down[dialled], f)
<1>1. dialled \in Conns /\ down[dialled] \in Seq(ToAgentFrames) /\ socket = dialled
  BY InUse DEF Transfer, Values, Listening
<1>2. /\ Len(down[dialled]) \in Nat /\ Len(r) = Len(down[dialled]) + 1
      /\ DOMAIN down[dialled] = 1 .. Len(down[dialled])
      /\ DOMAIN r = 1 .. (Len(down[dialled]) + 1) /\ r[Len(down[dialled]) + 1] = f
      /\ \A i \in DOMAIN down[dialled] : r[i] = down[dialled][i]
  BY <1>1, Grown
<1>3. down' = [down EXCEPT ![dialled] = r]
  BY <1>1 DEF Send
<1> HIDE DEF r
<1>4. down'[dialled] = r
  BY <1>1, <1>3 DEF Transfer, Values
<1>5. ASSUME NEW i \in DOMAIN r
      PROVE  \/ i \in DOMAIN down[dialled] /\ r[i] = down[dialled][i]
             \/ i = Len(down[dialled]) + 1 /\ r[i] = f
  <2>1. i \in DOMAIN down[dialled] \/ i = Len(down[dialled]) + 1
    BY <1>2
  <2> QED BY <1>2, <2>1
<1> QED BY <1>2, <1>4, <1>5

\* What the agent has, and how much is on its way to it.
LEMMA Sizes ==
  ASSUME Transfer
  PROVE  /\ Len(file) \in Nat /\ writer.next \in Nat /\ writer.next <= Len(file) + 1
         /\ handle.got \in Seq(Chunks) /\ Len(handle.got) \in Nat
         /\ DOMAIN handle.got = 1 .. Len(handle.got) /\ handle.flushed \in Nat
         /\ dialled # 0 => /\ dialled \in Conns /\ down[dialled] \in Seq(ToAgentFrames)
                           /\ Len(down[dialled]) \in Nat
                           /\ DOMAIN down[dialled] = 1 .. Len(down[dialled])
<1>1. /\ handle.got \in Seq(Chunks) /\ handle.flushed \in Nat /\ writer.next \in Nat
      /\ writer.next <= Len(file) + 1 /\ Len(file) \in Nat
  BY Amounts DEF Transfer, Values, AHandle, AWriter, Measured
<1>2. Len(handle.got) \in Nat /\ DOMAIN handle.got = 1 .. Len(handle.got)
  BY <1>1
<1>3. ASSUME dialled # 0
      PROVE  /\ dialled \in Conns /\ down[dialled] \in Seq(ToAgentFrames)
             /\ Len(down[dialled]) \in Nat /\ DOMAIN down[dialled] = 1 .. Len(down[dialled])
  <2>1. dialled \in Conns /\ down[dialled] \in Seq(ToAgentFrames)
    BY <1>3, InUse DEF Transfer, Values
  <2>2. Len(down[dialled]) \in Nat /\ DOMAIN down[dialled] = 1 .. Len(down[dialled])
    BY <2>1
  <2> QED BY <2>1, <2>2
<1> QED BY <1>1, <1>2, <1>3

LEMMA GatewayUploads ==
  ASSUME Transfer, Transfer', Begun, Listening, kind = "write", Uploads, GatewayActs
  PROVE  Uploads'
<1>1. Silent /\ OpenFirst /\ Flowing /\ Stored /\ Written
  BY DEF Uploads
<1>2. /\ UNCHANGED <<kind, file, made, dialled, socket, open, handle>>
      /\ UpFrom({}) /\ lapsed \subseteq lapsed'
  BY GatewayMoves
<1>3. /\ SendsChunk \/ SendsEnd \/ SendsNothing
      /\ OpenFirst' /\ (sink' => sink)
      /\ rpc = "resolved" => rpc' = "resolved"
      /\ writer'.state = "done" => writer.state = "done" \/ Heard("end")
  BY <1>1, WriterMoves
<1>4. Silent'
  <2>1. SUFFICES ASSUME rpc' # "resolved" PROVE SendsNothing /\ rpc # "resolved"
    BY <1>1, <1>2 DEF Silent, SendsNothing
  <2> QED BY <1>3, <2>1 DEF SendsChunk, SendsEnd
<1>5. Flowing'
  <2>1. SUFFICES ASSUME handle.listed, dialled # 0 PROVE Flow'
    BY <1>2 DEF Flowing
  <2>2. Flow
    BY <1>1, <2>1 DEF Flowing
  <2>3. CASE SendsNothing
    BY <1>2, <1>3, <2>2, <2>3 DEF Flow, SendsNothing
  <2> DEFINE m == Len(down[dialled])
             g == Len(handle.got)
  <2>4. m \in Nat /\ g \in Nat /\ DOMAIN down[dialled] = 1 .. m
        /\ writer.next \in Nat /\ writer.next <= Len(file) + 1 /\ Len(file) \in Nat
    BY <2>1, Sizes
  <2>5. CASE SendsChunk
    <3> DEFINE f == Frame("data", writer.next)
    <3>1. f \in ToAgentFrames /\ f.t = "data" /\ f.n = writer.next
      BY <2>4, FramesAre DEF ToAgent
    <3>2. Send(f) /\ sink /\ ~Sent /\ writer'.next = writer.next + 1
      BY <2>5 DEF SendsChunk
    <3> HIDE DEF f
    <3>3. /\ Len(down'[dialled]) = m + 1
          /\ \A i \in DOMAIN down'[dialled] :
               \/ i \in DOMAIN down[dialled] /\ down'[dialled][i] = down[dialled][i]
               \/ i = m + 1 /\ down'[dialled][i] = f
      BY <2>1, <3>1, <3>2, Sending
    <3>4. writer.next = g + m + 1 /\ ~handle.ending
      BY <2>2, <3>2 DEF Flow
    <3> HIDE DEF m, g
    <3>5. writer.next = g + (m + 1) /\ writer.next + 1 = g + (m + 1) + 1
      BY <2>4, <3>4
    <3>6. \A i \in DOMAIN down'[dialled] :
            /\ down'[dialled][i].t = "data" => down'[dialled][i].n = g + i
            /\ down'[dialled][i].t # "end"
      <4> TAKE i \in DOMAIN down'[dialled]
      <4>1. CASE i \in DOMAIN down[dialled] /\ down'[dialled][i] = down[dialled][i]
        BY <2>2, <3>2, <4>1 DEF Flow, g
      <4>2. CASE i = m + 1 /\ down'[dialled][i] = f
        BY <3>1, <3>5, <4>2
      <4> QED BY <3>3, <4>1, <4>2
    <3> QED BY <1>2, <3>2, <3>3, <3>4, <3>5, <3>6 DEF Flow, g
  <2>6. CASE SendsEnd
    <3> DEFINE f == Frame("end", 0)
    <3>1. f \in ToAgentFrames /\ f.t = "end"
      BY FramesAre DEF ToAgent
    <3>2. Send(f) /\ sink /\ ~Sent /\ writer'.state = "ending" /\ writer.next > Len(file)
      BY <2>6 DEF SendsEnd
    <3> HIDE DEF f
    <3>3. /\ Len(down'[dialled]) = m + 1
          /\ \A i \in DOMAIN down'[dialled] :
               \/ i \in DOMAIN down[dialled] /\ down'[dialled][i] = down[dialled][i]
               \/ i = m + 1 /\ down'[dialled][i] = f
      BY <2>1, <3>1, <3>2, Sending
    <3>4. writer.next = g + m + 1 /\ ~handle.ending /\ Sent'
      BY <2>2, <3>2 DEF Flow, Sent
    <3> HIDE DEF m, g
    <3>5. g + (m + 1) = Len(file) + 1
      BY <2>4, <3>2, <3>4
    <3>6. \A i \in DOMAIN down'[dialled] :
            /\ down'[dialled][i].t = "data" => down'[dialled][i].n = g + i
            /\ down'[dialled][i].t = "end" => i = m + 1
      <4> TAKE i \in DOMAIN down'[dialled]
      <4>1. CASE i \in DOMAIN down[dialled] /\ down'[dialled][i] = down[dialled][i]
        BY <2>2, <3>2, <4>1 DEF Flow, g
      <4>2. CASE i = m + 1 /\ down'[dialled][i] = f
        BY <3>1, <4>2
      <4> QED BY <3>3, <4>1, <4>2
    <3> QED BY <1>2, <3>3, <3>4, <3>5, <3>6 DEF Flow, g
  <2> QED BY <1>3, <2>3, <2>5, <2>6
<1>6. Stored'
  <2>1. Heard("end")' => Heard("end")
    BY <1>2 DEF Heard, UpFrom
  <2> QED BY <1>1, <1>2, <1>3, <2>1 DEF Stored
<1>7. Written'
  BY <1>1, <1>2 DEF Written
<1> QED BY <1>3, <1>4, <1>5, <1>6, <1>7 DEF Uploads

LEMMA DeliveryUploads ==
  ASSUME Transfer, Transfer', kind = "write", Uploads, Deliver
  PROVE  Uploads'
<1>1. Silent /\ OpenFirst /\ Flowing /\ Stored /\ Written
  BY DEF Uploads
<1>2. PICK t \in {"open", "data", "end", "credit"} : Delivered(t)
  BY DEF Deliver, RecvOpen, RecvReadCredit, RecvChunk, RecvStreamEnd
<1>3. /\ DownFrom({}) /\ dialled \in Conns /\ dialled # 0
      /\ UNCHANGED <<kind, file, dialled, rpc, sink, writer>>
  BY <1>2, DeliveredFits DEF SameConnections
<1> DEFINE q == down[dialled]
           r == Tail(q)
           g == Len(handle.got)
<1>4. /\ q \in Seq(ToAgentFrames) /\ q # <<>> /\ Head(q) = q[1] /\ down' = [down EXCEPT ![dialled] = r]
      /\ Head(q).t = t /\ 1 \in DOMAIN q
  BY <1>2, DownShrinks DEF Transfer
<1>5. /\ Len(q) \in Nat \ {0} /\ Len(r) = Len(q) - 1 /\ DOMAIN q = 1 .. Len(q) /\ DOMAIN r = 1 .. (Len(q) - 1)
      /\ \A i \in DOMAIN r : i + 1 \in DOMAIN q /\ r[i] = q[i + 1]
  BY <1>4, Shrunk
<1> HIDE DEF r
<1>6. down'[dialled] = r
  BY <1>3, <1>4 DEF Transfer, Values
<1>7. /\ handle \in AHandle /\ Measured /\ g \in Nat /\ Len(file) \in Nat /\ writer.next \in Nat
      /\ DOMAIN handle.got = 1 .. g
  BY Sizes DEF Transfer, Values
<1>8. OpenFirst'
  BY <1>1, <1>3 DEF OpenFirst
<1>9. ASSUME handle'.got = handle.got, handle'.ending = handle.ending PROVE Silent' /\ Written'
  BY <1>1, <1>3, <1>9 DEF Silent, Written, DownFrom
<1>10. ASSUME UNCHANGED up, ~handle'.listed,
              handle.state = "closed" => handle'.state = "closed" /\ handle'.flushed = handle.flushed,
              handle'.got = handle.got, handle'.ending = handle.ending
       PROVE  Uploads'
  <2>1. Stored'
    <3>1. Heard("end")' = Heard("end") /\ lapsed \subseteq lapsed'
      BY <1>10 DEF Heard, Deliver, RecvOpen, RecvReadCredit, RecvChunk, RecvStreamEnd, Lapse
    <3> QED BY <1>1, <1>3, <1>10, <3>1 DEF Stored
  <2> QED BY <1>8, <1>9, <1>10, <2>1 DEF Flowing, Uploads
<1>11. CASE RecvOpen
  <2>1. handle' = [handle EXCEPT !.state = "opening"] /\ UNCHANGED up /\ t = "open"
    BY <1>2, <1>11 DEF RecvOpen, Delivered
  <2>2. handle.state = "none"
    BY <1>3, <1>4, <2>1 DEF Transfer, OneOpen
  <2> QED BY <1>7, <1>10, <2>1, <2>2 DEF AHandle, Measured
<1>12. ~RecvReadCredit
  BY DeliveredFits DEF RecvReadCredit
<1>13. CASE RecvChunk
  <2>1. t = "data" /\ UNCHANGED lapsed
    BY <1>2, <1>13 DEF RecvChunk, Delivered
  <2>2. CASE ~handle.listed
    BY <1>10, <1>13, <2>2 DEF RecvChunk
  <2>3. CASE handle.listed
    <3> DEFINE n == Head(q).n
               got == Append(handle.got, n)
               since == handle.since + file[n]
               h == [handle EXCEPT !.got = got, !.since = since]
    <3>1. Flow /\ handle.state = "open" /\ rpc = "resolved"
      <4>1. rpc = "resolved"
        BY <1>1, <1>3, <1>4, <2>1 DEF Silent
      <4> QED BY <1>1, <1>3, <1>7, <2>3, <4>1 DEF Flowing, Measured
    <3>2. n = g + 1 /\ n \in Chunks /\ file[n] \in Nat
      <4>1. n \in Chunks
        BY <1>13, DeliveredFits DEF RecvChunk
      <4> QED BY <1>4, <2>1, <3>1, <4>1, FileSizes DEF Flow, Transfer, Values
    <3>3. /\ got \in Seq(Chunks) /\ Len(got) = g + 1 /\ DOMAIN got = 1 .. (g + 1) /\ got[g + 1] = n
          /\ \A i \in DOMAIN handle.got : got[i] = handle.got[i]
      BY <3>2, Sizes, Grown
    <3>4. Release(h) \/ (handle' = [h EXCEPT !.draining = TRUE] /\ UNCHANGED up)
      BY <1>13, <2>3 DEF RecvChunk
    <3>5. since \in Nat
      <4>1. \A a, b \in Nat : a + b \in Nat
        OBVIOUS
      <4>2. handle.since \in Nat
        BY <1>7 DEF AHandle
      <4> QED BY <3>2, <4>1, <4>2, Zenon
    <3> HIDE DEF n, got, since
    <3>6. /\ h \in AHandle /\ h.listed = handle.listed /\ h.state = handle.state /\ h.ending = handle.ending
          /\ h.got = got
      BY <1>7, <3>3, <3>5 DEF AHandle
    <3> HIDE DEF h
    <3>7. /\ handle'.listed = handle.listed /\ handle'.state = handle.state
          /\ handle'.ending = handle.ending /\ handle'.got = got
      <4>1. handle' = [h EXCEPT !.since = 0] \/ handle' = [h EXCEPT !.draining = TRUE]
        BY <3>4 DEF Release
      <4> QED BY <3>6, <4>1 DEF AHandle
    <3>8. Heard("end")' => Heard("end")
      <4>1. CASE Release(h)
        <5>1. PICK f \in ToGatewayFrames : f.t = "credit" /\ UpFrom({f})
          BY <3>6, <4>1, Released
        <5> QED BY <5>1 DEF Heard, UpFrom
      <4>2. CASE UNCHANGED up
        BY <4>2 DEF Heard
      <4> QED BY <3>4, <4>1, <4>2
    <3>9. Silent' /\ Stored'
      BY <1>1, <1>3, <2>1, <3>1, <3>8 DEF Silent, Stored
    <3>10. Written'
      <4>1. ASSUME NEW i \in DOMAIN got PROVE got[i] = i
        <5>1. CASE i = g + 1
          BY <3>2, <3>3, <5>1
        <5>2. CASE i # g + 1
          <6>1. i \in DOMAIN handle.got
            BY <1>7, <3>3, <5>2
          <6> QED BY <1>1, <3>3, <6>1 DEF Written
        <5> QED BY <5>1, <5>2
      <4> QED BY <3>7, <4>1 DEF Written
    <3>11. Flowing'
      <4>1. Len(handle'.got) = g + 1 /\ ~handle.ending
        <5>1. Len(q) # 0
          BY <1>5
        <5> QED BY <3>1, <3>3, <3>7, <5>1 DEF Flow
      <4>2. ASSUME NEW i \in DOMAIN r
            PROVE  /\ r[i].t = "data" => r[i].n = (g + 1) + i
                   /\ r[i].t = "end" => i = Len(r) /\ Sent /\ (g + 1) + i = Len(file) + 1
        <5>1. i \in Nat /\ i + 1 \in DOMAIN q /\ r[i] = q[i + 1] /\ g + (i + 1) = (g + 1) + i
          <6>1. \A a, b \in Nat : a + (b + 1) = (a + 1) + b
            OBVIOUS
          <6>2. i \in Nat /\ i + 1 \in DOMAIN q /\ r[i] = q[i + 1]
            BY <1>5
          <6>3. g + (i + 1) = (g + 1) + i
            BY <1>7, <6>1, <6>2, Zenon
          <6> QED BY <6>2, <6>3
        <5>2. i + 1 = Len(q) => i = Len(r)
          BY <1>5, <5>1
        <5> QED BY <3>1, <5>1, <5>2 DEF Flow
      <4>3. g + Len(q) + 1 = (g + 1) + Len(r) + 1
        <5>1. Len(q) = Len(r) + 1 /\ Len(r) \in Nat
          BY <1>5
        <5>2. \A a, b \in Nat : a + (b + 1) + 1 = (a + 1) + b + 1
          OBVIOUS
        <5>3. g + (Len(r) + 1) + 1 = (g + 1) + Len(r) + 1
          BY <1>7, <5>1, <5>2, Zenon
        <5> HIDE DEF g, q
        <5> QED BY <5>1, <5>3
      <4>4. Flow'
        BY <1>3, <1>6, <3>1, <3>7, <4>1, <4>2, <4>3 DEF Flow, Sent
      <4> QED BY <4>4 DEF Flowing
    <3> QED BY <1>8, <3>9, <3>10, <3>11 DEF Uploads
  <2> QED BY <2>2, <2>3
<1>14. CASE RecvStreamEnd
  <2>1. t = "end" /\ UNCHANGED up /\ lapsed \subseteq lapsed'
    BY <1>2, <1>14 DEF RecvStreamEnd, Delivered, Lapse
  <2>2. CASE ~handle.listed
    <3>1. handle' = handle
      BY <1>14, <2>2 DEF RecvStreamEnd
    <3> QED BY <1>10, <2>1, <2>2, <3>1
  <2>3. CASE handle.listed
    <3>1. handle' = [handle EXCEPT !.ending = TRUE]
      BY <1>14, <2>3 DEF RecvStreamEnd
    <3>2. /\ handle'.listed = handle.listed /\ handle'.state = handle.state
          /\ handle'.ending = TRUE /\ handle'.got = handle.got /\ handle.state = "open"
      BY <1>7, <2>3, <3>1 DEF AHandle, Measured
    <3>3. Flow /\ rpc = "resolved"
      <4>1. rpc = "resolved"
        BY <1>1, <1>3, <1>4, <2>1 DEF Silent
      <4> QED BY <1>1, <1>3, <2>3, <4>1 DEF Flowing
    <3>4. Silent' /\ Written' /\ Stored'
      <4>1. Heard("end")' = Heard("end")
        BY <2>1 DEF Heard
      <4> QED BY <1>1, <1>3, <2>1, <3>2, <3>3, <4>1 DEF Silent, Written, Stored
    <3>5. Len(q) = 1 /\ Sent /\ g + 1 = Len(file) + 1
      BY <1>4, <2>1, <3>3 DEF Flow
    <3>6. Len(r) = 0 /\ DOMAIN r = {} /\ g = Len(file)
      BY <1>5, <1>7, <3>5
    <3>7. Flow'
      BY <1>3, <1>6, <3>2, <3>5, <3>6 DEF Flow, Sent
    <3> QED BY <1>8, <3>4, <3>7 DEF Flowing, Uploads
  <2> QED BY <2>2, <2>3
<1> QED BY <1>11, <1>12, <1>13, <1>14 DEF Deliver

\* A stream that opens before anything was sent has nothing to receive yet.
LEMMA FlowStarts ==
  ASSUME Silent, rpc # "resolved", Transfer, Transfer', UNCHANGED <<rpc, writer>>,
         handle'.got = handle.got, handle'.ending = handle.ending, handle'.state = "open",
         DownFrom({}), dialled' # 0
  PROVE  Flow'
<1>1. writer'.next = 1 /\ handle'.got = <<>> /\ ~handle'.ending
  BY DEF Silent
<1>2. dialled' \in Conns /\ down'[dialled'] \in Seq(ToAgentFrames)
  BY DEF Transfer, Values
<1>3. \A i \in DOMAIN down'[dialled'] : FALSE
  BY <1>2 DEF Silent, DownFrom, Transfer, OneOpen
<1>4. Len(down'[dialled']) = 0 /\ Len(handle'.got) = 0
  <2>1. DOMAIN down'[dialled'] = 1 .. Len(down'[dialled']) /\ Len(down'[dialled']) \in Nat
    BY <1>2
  <2>2. Len(down'[dialled']) = 0
    <3>1. \A n \in Nat : (\A i \in 1 .. n : FALSE) => n = 0
      OBVIOUS
    <3> QED BY <1>3, <2>1, <3>1, Zenon
  <2>3. Len(handle'.got) = 0
    BY <1>1, Empty
  <2> QED BY <2>2, <2>3
<1> QED BY <1>1, <1>3, <1>4 DEF Flow

LEMMA AgentUploads ==
  ASSUME Transfer, Transfer', Begun, kind = "write", Uploads, AgentActs
  PROVE  Uploads'
<1>1. Silent /\ OpenFirst /\ Flowing /\ Stored /\ Written
  BY DEF Uploads
<1>2. /\ UNCHANGED <<kind, file, made, dialled, socket, open, down, rpc, sink, reader, writer>>
      /\ lapsed \subseteq lapsed'
  BY AgentMoves
<1>3. Values /\ Travels /\ handle \in AHandle /\ handle' \in AHandle /\ Measured /\ DownFrom({})
  BY <1>2, DownStays DEF Transfer, Values, AHandle, Chunks
<1>4. OpenFirst'
  BY <1>1, <1>2 DEF OpenFirst
<1>5. handle.state \in {"opening", "open"}
  BY DEF AgentActs, Opened, OpenFails, ReadChunk, ReadEnds, ReadFails, Flush, Finish, WriteFails, Reading
<1>6. ASSUME Heard("end")' => Heard("end") PROVE Stored'
  BY <1>1, <1>2, <1>5, <1>6 DEF Stored
<1>7. ASSUME handle'.got = handle.got, handle'.ending = handle.ending PROVE Silent' /\ Written'
  BY <1>1, <1>2, <1>7 DEF Silent, Written
<1>8. CASE Opened
  <2>1. /\ handle.state = "opening" /\ handle'.state = "open"
        /\ handle'.got = handle.got /\ handle'.ending = handle.ending
    <3>1. handle' = [handle EXCEPT !.state = "open", !.listed = TRUE] /\ handle.state = "opening"
      BY <1>8 DEF Opened
    <3> QED BY <1>3, <3>1 DEF AHandle
  <2>2. rpc # "resolved"
    BY <2>1 DEF Begun, Resolved, Unopened
  <2>3. Flowing'
    <3>1. SUFFICES ASSUME dialled' # 0 PROVE Flow'
      BY DEF Flowing
    <3> QED BY <1>1, <1>2, <1>3, <2>1, <2>2, <3>1, FlowStarts
  <2>4. Heard("end")' => Heard("end")
    <3>1. Frame("ok", 0) \in ToGatewayFrames /\ Frame("ok", 0).t = "ok" /\ Reply(<<Frame("ok", 0)>>)
      BY <1>8, FramesAre DEF Opened, ToGateway
    <3>2. UpFrom({Frame("ok", 0)})
      BY <1>3, <3>1, OneReply
    <3> QED BY <3>1, <3>2 DEF Heard, UpFrom
  <2> QED BY <1>4, <1>6, <1>7, <2>1, <2>3, <2>4 DEF Uploads
<1>9. CASE OpenFails \/ Finish \/ WriteFails
  <2>1. handle' = CloseHandle
    BY <1>9 DEF OpenFails, Finish, WriteFails
  <2>2. /\ handle'.state = "closed" /\ ~handle'.listed /\ handle'.got = handle.got
        /\ handle'.ending = handle.ending /\ handle'.flushed = handle.flushed
    BY <1>3, <2>1, ClosedIs
  <2>3. \A t \in {"err", "end", "error"} : Frame(t, 0) \in ToGatewayFrames /\ Frame(t, 0).t = t
    BY FramesAre DEF ToGateway
  <2>4. Stored'
    <3>1. CASE \E t \in {"err", "error"} : Reply(<<Frame(t, 0)>>)
      <4>1. PICK t \in {"err", "error"} : Reply(<<Frame(t, 0)>>)
        BY <3>1
      <4>2. UpFrom({Frame(t, 0)}) /\ Frame(t, 0).t # "end"
        BY <1>3, <2>3, <4>1, OneReply
      <4>3. Heard("end")' => Heard("end")
        BY <4>2 DEF Heard, UpFrom
      <4> QED BY <1>6, <4>3
    <3>2. CASE Finish
      <4>1. handle.state = "open" /\ handle.ending /\ handle.flushed = Len(handle.got)
            /\ Reply(<<Frame("end", 0)>>)
        BY <3>2 DEF Finish
      <4>2. CASE dialled = 0
        <5>1. UNCHANGED up
          BY <1>3, <4>1, <4>2 DEF Reply, Values
        <5> QED BY <1>6, <5>1 DEF Heard
      <4>3. CASE dialled # 0
        <5>1. Len(handle.got) = Len(file)
          BY <1>1, <1>3, <4>1, <4>3 DEF Flowing, Flow, Measured
        <5> QED BY <1>2, <2>2, <4>1, <5>1 DEF Stored
      <4> QED BY <4>2, <4>3
    <3>3. CASE WriteFails /\ handle.ending
      BY <3>3 DEF WriteFails, Lapse, Mark, Stored
    <3>4. OpenFails \/ (WriteFails /\ ~handle.ending) => \E t \in {"err", "error"} : Reply(<<Frame(t, 0)>>)
      BY DEF OpenFails, WriteFails
    <3> QED BY <1>9, <3>1, <3>2, <3>3, <3>4
  <2> QED BY <1>4, <1>7, <2>2, <2>4 DEF Flowing, Uploads
<1>10. CASE Flush
  <2>1. /\ handle.state = "open" /\ handle'.state = "open" /\ handle'.listed = handle.listed
        /\ handle'.ending = handle.ending /\ handle'.got = handle.got
        /\ \E f : f.t = "credit" /\ UpFrom({f})
    <3> DEFINE flushed == handle.flushed + 1
    <3>1. /\ handle.state = "open"
          /\ handle' \in {[handle EXCEPT !.flushed = flushed],
                          [handle EXCEPT !.flushed = flushed, !.draining = FALSE, !.since = 0]}
      BY <1>10 DEF Flush, Release
    <3> HIDE DEF flushed
    <3>2. handle'.state = "open"
      BY <1>3, <3>1 DEF AHandle
    <3>3. ~Opened /\ ~ReadChunk
      BY <3>1 DEF Opened, ReadChunk, Reading
    <3> QED BY <3>1, <3>2, <3>3, AgentMoves
  <2>2. Heard("end")' => Heard("end")
    BY <2>1 DEF Heard, UpFrom
  <2>3. Flowing'
    BY <1>1, <1>2, <2>1 DEF Flowing, Flow, Sent
  <2> QED BY <1>4, <1>6, <1>7, <2>1, <2>2, <2>3 DEF Uploads
<1>11. ~ReadChunk /\ ~ReadEnds /\ ~ReadFails
  BY DEF ReadChunk, ReadEnds, ReadFails, Reading
<1> QED BY <1>8, <1>9, <1>10, <1>11 DEF AgentActs

LEMMA ConnectionsUploads ==
  ASSUME Transfer, Transfer', Begun, kind = "write", OpenFirst', Uploads,
         AgentSeesClose \/ Reconnect \/ \E c \in Conns : GatewaySeesClose(c)
  PROVE  Uploads'
<1>1. Silent /\ OpenFirst /\ Flowing /\ Stored /\ Written
  BY DEF Uploads
<1>2. handle \in AHandle /\ handle' \in AHandle /\ rpc \in {"pending", "resolved", "rejected"}
  BY DEF Transfer, Values, AHandle, Chunks, AgentSeesClose, Reconnect, GatewaySeesClose
<1>3. CASE AgentSeesClose
  <2>1. /\ \A c \in Conns : down'[c] = <<>>
        /\ handle'.got = handle.got /\ handle'.flushed = handle.flushed
        /\ handle'.ending = handle.ending /\ handle'.listed = FALSE
        /\ handle'.state = (IF handle.state = "open" THEN "closed" ELSE handle.state)
    BY <1>3, CutKeepsTransfer
  <2>2. UNCHANGED <<kind, file, up, rpc, writer, lapsed>>
    BY <1>3 DEF AgentSeesClose
  <2>3. Silent'
    BY <1>1, <2>1, <2>2, Empty DEF Silent
  <2>4. Stored' /\ Written' /\ Flowing'
    BY <1>1, <2>1, <2>2 DEF Stored, Written, Flowing, Heard
  <2> QED BY <2>3, <2>4 DEF Uploads
<1>4. CASE Reconnect
  <2>1. /\ UNCHANGED <<kind, file, up, down, rpc, writer, handle>> /\ dialled = 0
        /\ lapsed \subseteq lapsed'
    BY <1>4 DEF Reconnect, Lapse
  <2>2. DownFrom({})
    BY <2>1, DownStays DEF Transfer
  <2>3. Silent' /\ Stored' /\ Written'
    BY <1>1, <2>1 DEF Silent, Stored, Written, Heard
  <2>4. Flowing'
    <3>1. SUFFICES ASSUME handle.listed, dialled' # 0 PROVE Flow'
      BY <2>1 DEF Flowing
    <3>2. rpc # "resolved" /\ handle.state = "open"
      BY <2>1, <3>1 DEF Begun, Resolved, Transfer, Measured
    <3> QED BY <1>1, <2>1, <2>2, <3>1, <3>2, FlowStarts
  <2> QED BY <2>3, <2>4 DEF Uploads
<1>5. ASSUME NEW c \in Conns, GatewaySeesClose(c) PROVE Uploads'
  <2>1. /\ UNCHANGED <<kind, file, made, dialled, down, handle, lapsed>> /\ UpFrom({})
        /\ rpc' \in {rpc, "rejected"} /\ (sink' => sink)
        /\ rpc = "resolved" => rpc' = "resolved"
    BY <1>5, LostMoves DEF GatewaySeesClose
  <2>2. writer'.next = writer.next /\ writer'.state \in {writer.state, "failed"}
    BY <1>5, LostKeepsTransfer, Failed
  <2>3. Heard("end")' => Heard("end")
    BY <2>1 DEF Heard, UpFrom
  <2>4. Silent' /\ Stored' /\ Written'
    BY <1>1, <2>1, <2>2, <2>3 DEF Silent, Stored, Written
  <2>5. Flowing'
    BY <1>1, <2>1, <2>2 DEF Flowing, Flow, Sent
  <2> QED BY <2>4, <2>5 DEF Uploads
<1> QED BY <1>3, <1>4, <1>5

LEMMA OpenFirstStays ==
  ASSUME Transfer, OpenFirst, AgentSeesClose \/ Reconnect \/ \E c \in Conns : GatewaySeesClose(c)
  PROVE  OpenFirst'
<1>1. CASE AgentSeesClose \/ Reconnect
  BY <1>1 DEF OpenFirst, AgentSeesClose, Reconnect
<1>2. ASSUME NEW c \in Conns, GatewaySeesClose(c) PROVE OpenFirst'
  <2>1. /\ UNCHANGED file
        /\ \/ UNCHANGED <<rpc, writer>>
           \/ FailSink /\ rpc' # "pending"
    BY <1>2 DEF GatewaySeesClose
  <2>2. CASE FailSink /\ rpc' # "pending"
    BY <2>1, <2>2, Failed DEF OpenFirst
  <2> QED BY <2>1, <2>2 DEF OpenFirst
<1> QED BY <1>1, <1>2

LEMMA UploadsInit == ASSUME StreamInit PROVE Uploads
<1>1. /\ handle = NewHandle /\ writer = NewWriter /\ rpc = "pending"
      /\ up = [c \in Conns |-> <<>>]
      /\ down = [c \in Conns |-> IF c = 1 THEN <<Frame("open", 0)>> ELSE <<>>]
  BY DEF StreamInit
<1>2. /\ writer.next = 1 /\ writer.state = "idle"
      /\ handle.got = <<>> /\ ~handle.ending /\ ~handle.listed /\ handle.state = "none"
  BY <1>1 DEF NewHandle, NewWriter
<1>3. Silent
  <2> DEFINE q == <<Frame("open", 0)>>
  <2>1. DOMAIN q = {1} /\ q[1].t = "open"
    BY DEF Frame
  <2>2. \A c \in Conns : down[c] = IF c = 1 THEN q ELSE <<>>
    BY <1>1
  <2> HIDE DEF q
  <2> QED BY <1>2, <2>1, <2>2, Empty DEF Silent
<1>4. OpenFirst /\ Flowing
  BY <1>2 DEF OpenFirst, Flowing
<1>5. Stored /\ Written
  BY <1>1, <1>2, Empty DEF Stored, Written, Heard
<1> QED BY <1>3, <1>4, <1>5 DEF Uploads

LEMMA UploadsStay ==
  ASSUME Transfer, Transfer', Begun, Listening, Uploads, [StreamNext]_streamVars
  PROVE  Uploads'
<1>1. SUFFICES ASSUME kind = "write" PROVE Uploads'
  BY Onward DEF Uploads
<1>2. CASE UNCHANGED streamVars
  BY <1>2 DEF streamVars, Uploads, Silent, OpenFirst, Flowing, Flow, Sent, Stored, Heard, Written
<1>3. CASE GatewayActs
  BY <1>1, <1>3, GatewayUploads
<1>4. CASE Deliver
  BY <1>1, <1>4, DeliveryUploads
<1>5. CASE AgentActs
  BY <1>1, <1>5, AgentUploads
<1>6. CASE AgentSeesClose \/ Reconnect \/ \E c \in Conns : GatewaySeesClose(c)
  BY <1>1, <1>6, OpenFirstStays, ConnectionsUploads DEF Uploads
<1> QED BY <1>2, <1>3, <1>4, <1>5, <1>6 DEF StreamNext, GatewayActs, AgentActs

-----------------------------------------------------------------------------
(* A transfer that is said to be complete is.                                *)

LEMMA Complete ==
  ASSUME NEW s \in Seq(Chunks), Len(s) = Len(file), \A i \in DOMAIN s : s[i] = i
  PROVE  Whole(s)
<1>1. s = [i \in DOMAIN s |-> s[i]] /\ DOMAIN s = 1 .. Len(s)
  OBVIOUS
<1>2. DOMAIN s = Chunks
  BY <1>1 DEF Chunks
<1> QED BY <1>1, <1>2 DEF Whole

\* A download that ends without an error is the whole file, in order, and a
\* completed upload is on the machine's disk: unless the agent opened the file
\* for a connection that was gone, or a write failed after the gateway's
\* stream-end.
THEOREM TransferIsWholeHolds == StreamSpec => []TransferIsWholeUnlessRaced
<1>1. StreamInit => Downloads /\ Uploads
  BY DownloadsInit, UploadsInit
<1>2. Carried /\ Carried' /\ Downloads /\ Uploads /\ [StreamNext]_streamVars => (Downloads /\ Uploads)'
  BY DownloadsStay, UploadsStay DEF Carried
<1>3. Carried /\ Downloads /\ Uploads => TransferIsWholeUnlessRaced
  <2> SUFFICES ASSUME Carried, Downloads, Uploads PROVE UploadIsOnDisk /\ DownloadIsWhole
    BY DEF TransferIsWholeUnlessRaced
  <2>1. Transfer /\ kind \in {"read", "write"} /\ Measured
    BY DEF Carried, Transfer, Values
  <2>2. UploadIsOnDisk
    <3>1. SUFFICES ASSUME "lateWriteError" \notin lapsed, writer.state = "done"
                   PROVE  Whole(handle.got) /\ handle.flushed = Len(file)
      BY DEF UploadIsOnDisk
    <3>2. kind = "write"
      BY <2>1, <3>1 DEF Measured, NewWriter
    <3>3. Len(handle.got) = Len(file) /\ handle.flushed = Len(file) /\ \A i \in DOMAIN handle.got : handle.got[i] = i
      BY <3>1, <3>2 DEF Uploads, Stored, Written
    <3> QED BY <2>1, <3>3, Sizes, Complete
  <2>3. DownloadIsWhole
    <3>1. SUFFICES ASSUME "lateOpen" \notin lapsed, reader.state = "done"
                   PROVE  Whole(reader.taken)
      BY DEF DownloadIsWhole
    <3>2. kind = "read"
      BY <2>1, <3>1 DEF Measured, NewReader
    <3>3. InLine /\ AtTheEnd
      BY <3>1, <3>2 DEF Downloads, Downloading
    <3>4. Len(reader.taken) = Len(file)
      <4>1. Had = Len(file) /\ Len(reader.buffer) = 0
        BY <3>1, <3>3 DEF AtTheEnd
      <4>2. \A m \in Nat : m + 0 = m
        OBVIOUS
      <4>3. Len(reader.taken) \in Nat
        BY <2>1, Amounts
      <4> QED BY <4>1, <4>2, <4>3, Zenon DEF Had
    <3> QED BY <2>1, <3>3, <3>4, Amounts, Complete DEF InLine
  <2> QED BY <2>2, <2>3
<1> QED BY <1>1, <1>2, <1>3, CarriedInvariant, PTL DEF StreamSpec

============================================================================
