------------------------------- MODULE Enrolment -------------------------------
(***************************************************************************)
(* A machine's pairing with a workspace, and its end.                      *)
(*                                                                         *)
(* The API's AgentDevice row decides who may connect (api routes/modules/  *)
(* agents.ts); the gateway has no database, verifies a short-lived JWT the  *)
(* API minted, and is told by the API whom to refuse meanwhile (api         *)
(* lib/gateway.ts, gateway routes.ts and agents/registry.ts); the machine   *)
(* keeps its device token in a file, which a running tunnel has read once   *)
(* (agent pair.ts, auth.ts, tunnel.ts; desktop runtime/sharing.ts).         *)
(*                                                                         *)
(* Every call between two of these programs may fail, and an action is the *)
(* code between two awaits.  A device is named by the first token it was    *)
(* given.  All codes are of one workspace, and one machine pairs.           *)
(***************************************************************************)
EXTENDS Naturals, FiniteSets

CONSTANTS
  Codes,        \* pairing codes
  Pairings,     \* what may pair the machine: its command line, its desktop
  Withdrawals,  \* requests that revoke or remove the machine, one at a time each
  Tunnels,      \* AgentTunnel objects of the machine
  MaxTokens,    \* bound: device tokens ever issued
  Races,        \* which of the races below may happen
  MaxRaces      \* bound: how many of them in one behaviour

\* What can come between a machine's row and its connection.
\* "disconnectLost": the gateway does not hear that a device was withdrawn.
\* "allowLost": the gateway does not hear that it was paired again.
\* "crossed": the gateway hears of a withdrawal and of a pairing at once.
\* "gatewayForgets": the gateway restarts while a tunnel is about to connect.
\* "answerLost": the answer with the new device token does not arrive.
\* "pairedTwice": two pairings of the machine are under way at once.
\* "stillRunning": the machine is paired while a tunnel runs on an earlier token.
\* "stoppedAsking": a tunnel is stopped while it asks for its JWT.
AllRaces == {"disconnectLost", "allowLost", "crossed", "gatewayForgets", "answerLost",
             "pairedTwice", "stillRunning", "stoppedAsking"}

ASSUME RacesAssumption == Races \subseteq AllRaces
ASSUME BoundsAssumption == MaxTokens \in Nat \ {0} /\ MaxRaces \in Nat

VARIABLES
  code,       \* AgentPairingCode: unissued, issued, consumed or expired
  row,        \* AgentDevice, by id: none, active, revoked or removed
  hash,       \* tokenHash: the token a row answers to, 0 for none
  deviceOf,   \* the device each token was issued for, 0 before it is issued
  pairing,    \* where each pairing is, on the machine and in POST /agents/enroll
  withdrawal, \* where each revocation or removal is
  denied,     \* the gateway's deny list
  disk,       \* the device token in the machine's file, 0 for none
  tunnel,     \* the machine's tunnels
  winners,    \* history: the pairings each code enrolled
  raced       \* history: the races that happened

rowVars == <<row, hash, deviceOf>>
vars == <<code, rowVars, pairing, withdrawal, denied, disk, tunnel, winners, raced>>

Tokens == 1..MaxTokens
Issued == {t \in Tokens : deviceOf[t] # 0}
Devices == {deviceOf[t] : t \in Issued}

NoPairing == [stage |-> "idle", code |-> "none", token |-> 0]
NoWithdrawal == [stage |-> "idle", kind |-> "none", device |-> 0]
Off == [stage |-> "off", token |-> 0, stopped |-> FALSE]

TypeOK ==
  /\ code \in [Codes -> {"unissued", "issued", "consumed", "expired"}]
  /\ row \in [Tokens -> {"none", "active", "revoked", "removed"}]
  /\ \A d, e \in Tokens : {row[d], row[e]} \subseteq {"active", "revoked"} => d = e
  /\ hash \in [Tokens -> {0} \cup Issued]
  /\ deviceOf \in [Tokens -> {0} \cup Issued]
  /\ pairing \in [Pairings -> [stage : {"idle", "sent", "found", "allow", "answer"},
                               code : Codes \cup {"none"}, token : {0} \cup Issued]]
  /\ withdrawal \in [Withdrawals -> [stage : {"idle", "found", "call"},
                                     kind : {"none", "revoke", "remove"},
                                     device : {0} \cup Devices]]
  /\ denied \subseteq Devices
  /\ disk \in {0} \cup Issued
  /\ tunnel \in [Tunnels -> [stage : {"off", "waiting", "asking", "found", "granted", "connected"},
                             token : {0} \cup Issued, stopped : BOOLEAN]]
  /\ winners \in [Codes -> SUBSET Pairings]
  /\ raced \subseteq Races

-----------------------------------------------------------------------------
(* Helpers.  A definition named ...Bug is a plausible mistake in the one     *)
(* after it, kept to show that the properties notice it.                     *)

\* The step is race x when the condition holds: it must be allowed, and is noted.
Note(xs) == /\ raced' = raced \cup xs
            /\ raced' \subseteq Races /\ Cardinality(raced') <= MaxRaces
NoteIf(x, condition) == Note({y \in {x} : condition})

\* A tunnel at work for a device: the id its token was issued with.
Connected(d) == {u \in Tunnels : tunnel[u].stage = "connected" /\ deviceOf[tunnel[u].token] = d}
Attempting(d) ==
  {u \in Tunnels : tunnel[u].stage \in {"found", "granted"} /\ deviceOf[tunnel[u].token] = d}

\* The row the machine's fingerprint finds.
Enrolled == {d \in Devices : row[d] \in {"active", "revoked"}}

\* The handler's call to the gateway about d is still to be heard.
Allowing(d) == {p \in Pairings : pairing[p].stage = "allow" /\ deviceOf[pairing[p].token] = d}
Disconnecting(d) == {w \in Withdrawals : withdrawal[w].stage = "call" /\ withdrawal[w].device = d}

\* A tunnel whose connection or attempt ended: scheduleReconnect, unless stopped.
Ended(u) == [tunnel[u] EXCEPT !.stage = IF @ = "off" \/ tunnel[u].stopped THEN "off" ELSE "waiting"]

\* updateMany's guard on consumedAt.
Unconsumed(c) == code[c] # "consumed"

\* What /disconnect adds to the deny list.
DenyBug(d) == denied
Deny(d) == denied \cup {d}

\* What /allow takes from it.
LiftBug(d) == denied
Lift(d) == denied \ {d}

\* tokenHash, of a row that is made or found again.
RenewBug(d, t) == [hash EXCEPT ![d] = IF row[d] = "none" THEN t ELSE @]
Renew(d, t) == [hash EXCEPT ![d] = t]

\* What stop leaves of a tunnel: an attempt past its own look at "stopped" goes on.
Asking(u) == tunnel[u].stage \in {"asking", "found", "granted"}
StopBug(u) == IF tunnel[u].stage = "connected" THEN "connected" ELSE "off"
Stop(u) == IF Asking(u) THEN tunnel[u].stage ELSE "off"

\* Whom attach's and kill's connections end: all that serve the device.
Dropped(us) == [u \in Tunnels |-> IF u \in us THEN Ended(u) ELSE tunnel[u]]

\* A machine set up before this behaviour begins, its tunnel off.
Init ==
  /\ code = [c \in Codes |-> "unissued"]
  /\ row = [d \in Tokens |-> IF d = 1 THEN "active" ELSE "none"]
  /\ hash = [d \in Tokens |-> IF d = 1 THEN 1 ELSE 0]
  /\ deviceOf = [t \in Tokens |-> IF t = 1 THEN 1 ELSE 0]
  /\ pairing = [p \in Pairings |-> NoPairing]
  /\ withdrawal = [w \in Withdrawals |-> NoWithdrawal]
  /\ denied = {} /\ disk = 1
  /\ tunnel = [u \in Tunnels |-> Off]
  /\ winners = [c \in Codes |-> {}]
  /\ raced = {}

-----------------------------------------------------------------------------
(* Pairing codes and POST /agents/enroll                                     *)

IssueCode(c) ==
  /\ code[c] = "unissued"
  /\ code' = [code EXCEPT ![c] = "issued"]
  /\ UNCHANGED <<rowVars, pairing, withdrawal, denied, disk, tunnel, winners, raced>>

\* Ten minutes are over.
CodeExpires(c) ==
  /\ code[c] = "issued"
  /\ code' = [code EXCEPT ![c] = "expired"]
  /\ UNCHANGED <<rowVars, pairing, withdrawal, denied, disk, tunnel, winners, raced>>

\* pair: somebody types the code, or the application asks for one and uses it.
SendPairing(p, c) ==
  /\ pairing[p] = NoPairing /\ code[c] # "unissued"
  /\ pairing' = [pairing EXCEPT ![p] = [NoPairing EXCEPT !.stage = "sent", !.code = c]]
  /\ NoteIf("pairedTwice", \E q \in Pairings \ {p} : pairing[q] # NoPairing)
  /\ UNCHANGED <<code, rowVars, withdrawal, denied, disk, tunnel, winners>>

FindCode(p) ==
  /\ pairing[p].stage = "sent"
  /\ pairing' = [pairing EXCEPT ![p] = IF code[pairing[p].code] = "issued"
                                       THEN [pairing[p] EXCEPT !.stage = "found"] ELSE NoPairing]
  /\ UNCHANGED <<code, rowVars, withdrawal, denied, disk, tunnel, winners, raced>>

\* The transaction: the code is consumed, and the machine's row made or renewed.
Enrol(p) ==
  LET c == pairing[p].code
      t == Cardinality(Issued) + 1
      d == IF Enrolled = {} THEN t ELSE CHOOSE e \in Enrolled : TRUE
  IN
  /\ pairing[p].stage = "found" /\ Unconsumed(c) /\ t \in Tokens
  /\ code' = [code EXCEPT ![c] = "consumed"]
  /\ winners' = [winners EXCEPT ![c] = @ \cup {p}]
  /\ row' = [row EXCEPT ![d] = "active"]
  /\ hash' = Renew(d, t)
  /\ deviceOf' = [deviceOf EXCEPT ![t] = d]
  /\ pairing' = [pairing EXCEPT ![p].stage = "allow", ![p].token = t]
  /\ NoteIf("crossed", Disconnecting(d) # {})
  /\ UNCHANGED <<withdrawal, denied, disk, tunnel>>

\* PairingCodeAlreadyUsedError: the pairing fails, and the code is used up.
LoseTheRace(p) ==
  /\ pairing[p].stage = "found" /\ ~Unconsumed(pairing[p].code)
  /\ pairing' = [pairing EXCEPT ![p] = NoPairing]
  /\ UNCHANGED <<code, rowVars, withdrawal, denied, disk, tunnel, winners, raced>>

\* allowAgent, heard or not; a failure is swallowed.
Allow(p) ==
  /\ pairing[p].stage = "allow"
  /\ pairing' = [pairing EXCEPT ![p].stage = "answer"]
  /\ denied' = Lift(deviceOf[pairing[p].token])
  /\ UNCHANGED <<code, rowVars, withdrawal, disk, tunnel, winners, raced>>

AllowIsLost(p) ==
  /\ pairing[p].stage = "allow"
  /\ pairing' = [pairing EXCEPT ![p].stage = "answer"]
  /\ Note({"allowLost"})
  /\ UNCHANGED <<code, rowVars, withdrawal, denied, disk, tunnel, winners>>

\* saveAgentConfig.  Nothing tells a tunnel that is already running.
SavePairing(p) ==
  /\ pairing[p].stage = "answer"
  /\ disk' = pairing[p].token
  /\ pairing' = [pairing EXCEPT ![p] = NoPairing]
  /\ NoteIf("stillRunning", \E u \in Tunnels : tunnel[u].stage # "off" /\ ~tunnel[u].stopped)
  /\ UNCHANGED <<code, rowVars, withdrawal, denied, tunnel, winners>>

\* The request is lost, or the answer: the machine cannot tell which.
LosePairing(p) ==
  /\ pairing[p].stage \in {"sent", "answer"}
  /\ pairing' = [pairing EXCEPT ![p] = NoPairing]
  /\ NoteIf("answerLost", pairing[p].stage = "answer")
  /\ UNCHANGED <<code, rowVars, withdrawal, denied, disk, tunnel, winners>>

-----------------------------------------------------------------------------
(* POST /agents/:deviceId/revoke and DELETE /agents/:deviceId                *)

FindDevice(w, kind, d) ==
  /\ withdrawal[w] = NoWithdrawal /\ d \in Enrolled
  /\ withdrawal' = [withdrawal EXCEPT ![w] = [stage |-> "found", kind |-> kind, device |-> d]]
  /\ UNCHANGED <<code, rowVars, pairing, denied, disk, tunnel, winners, raced>>

\* The update or the delete; either fails for a row that is gone.
Withdraw(w) ==
  LET d == withdrawal[w].device IN
  /\ withdrawal[w].stage = "found" /\ row[d] # "removed"
  /\ IF withdrawal[w].kind = "revoke"
     THEN row' = [row EXCEPT ![d] = "revoked"] ELSE row' = [row EXCEPT ![d] = "removed"]
  /\ hash' = [hash EXCEPT ![d] = 0]   \* a revocation writes the hash of a token nobody has
  /\ withdrawal' = [withdrawal EXCEPT ![w].stage = "call"]
  /\ NoteIf("crossed", Allowing(d) # {})
  /\ UNCHANGED <<code, deviceOf, pairing, denied, disk, tunnel, winners>>

WithdrawFails(w) ==
  /\ withdrawal[w].stage = "found" /\ row[withdrawal[w].device] = "removed"
  /\ withdrawal' = [withdrawal EXCEPT ![w] = NoWithdrawal]
  /\ UNCHANGED <<code, rowVars, pairing, denied, disk, tunnel, winners, raced>>

\* disconnectAgent, in the gateway: the device is refused, then its connection
\* is told to end and closed.
Disconnect(w) ==
  LET d == withdrawal[w].device IN
  /\ withdrawal[w].stage = "call"
  /\ denied' = Deny(d)
  /\ tunnel' = Dropped(Connected(d))
  /\ withdrawal' = [withdrawal EXCEPT ![w] = NoWithdrawal]
  /\ UNCHANGED <<code, rowVars, pairing, disk, winners, raced>>

DisconnectIsLost(w) ==
  /\ withdrawal[w].stage = "call"
  /\ withdrawal' = [withdrawal EXCEPT ![w] = NoWithdrawal]
  /\ Note({"disconnectLost"})
  /\ UNCHANGED <<code, rowVars, pairing, denied, disk, tunnel, winners>>

-----------------------------------------------------------------------------
(* The machine's tunnels, POST /agents/token and the gateway's /ws/agent     *)

\* onshell-agent run, and startSharing: one tunnel at a time, with the token of
\* the file as it is now.
StartTunnel(u) ==
  /\ tunnel[u].stage = "off" /\ disk # 0
  /\ \A v \in Tunnels : tunnel[v].stage = "off" \/ tunnel[v].stopped
  /\ tunnel' = [tunnel EXCEPT ![u] = [stage |-> "waiting", token |-> disk, stopped |-> FALSE]]
  /\ UNCHANGED <<code, rowVars, pairing, withdrawal, denied, disk, winners, raced>>

\* AgentTunnel.stop, of stopSharing and setApproval.
StopTunnel(u) ==
  /\ tunnel[u].stage # "off" /\ ~tunnel[u].stopped
  /\ tunnel' = [tunnel EXCEPT ![u].stopped = TRUE, ![u].stage = Stop(u)]
  /\ NoteIf("stoppedAsking", Asking(u))
  /\ UNCHANGED <<code, rowVars, pairing, withdrawal, denied, disk, winners>>

\* connect, after its delay.
AskForToken(u) ==
  /\ tunnel[u].stage = "waiting"
  /\ tunnel' = [tunnel EXCEPT ![u].stage = "asking"]
  /\ UNCHANGED <<code, rowVars, pairing, withdrawal, denied, disk, winners, raced>>

\* The row is found by the hash of the token, and is the device's of the request.
Answers(t) == hash[deviceOf[t]] = t /\ row[deviceOf[t]] = "active"
FindToken(u) ==
  /\ tunnel[u].stage = "asking"
  /\ tunnel' = [tunnel EXCEPT ![u] = IF Answers(tunnel[u].token)
                                     THEN [tunnel[u] EXCEPT !.stage = "found"] ELSE Ended(u)]
  /\ UNCHANGED <<code, rowVars, pairing, withdrawal, denied, disk, winners, raced>>

\* lastSeenAt is written, which fails for a row that is gone, and the JWT signed.
MintToken(u) ==
  /\ tunnel[u].stage = "found"
  /\ tunnel' = [tunnel EXCEPT ![u] = IF row[deviceOf[tunnel[u].token]] # "removed"
                                     THEN [tunnel[u] EXCEPT !.stage = "granted"] ELSE Ended(u)]
  /\ UNCHANGED <<code, rowVars, pairing, withdrawal, denied, disk, winners, raced>>

\* The gateway verifies the JWT and looks at its deny list, and at nothing else;
\* an earlier connection of the device is closed.
AdmitsBug(d) == TRUE
Admits(d) == d \notin denied
Connect(u) ==
  LET d == deviceOf[tunnel[u].token] IN
  /\ tunnel[u].stage = "granted"
  /\ tunnel' = IF Admits(d) THEN [Dropped(Connected(d)) EXCEPT ![u].stage = "connected"]
                            ELSE Dropped({u})
  /\ UNCHANGED <<code, rowVars, pairing, withdrawal, denied, disk, winners, raced>>

\* A request or a connection fails, on the network or by its liveness check.
Drop(u) ==
  /\ tunnel[u].stage \in {"asking", "found", "granted", "connected"}
  /\ tunnel' = Dropped({u})
  /\ UNCHANGED <<code, rowVars, pairing, withdrawal, denied, disk, winners, raced>>

\* One token lifetime after it was denied, which no attempt takes.
DenialAges(d) ==
  /\ d \in denied /\ Attempting(d) = {}
  /\ denied' = denied \ {d}
  /\ UNCHANGED <<code, rowVars, pairing, withdrawal, disk, tunnel, winners, raced>>

\* The deny list and every connection are lost.
GatewayRestarts ==
  /\ denied' = {}
  /\ tunnel' = Dropped({u \in Tunnels : tunnel[u].stage = "connected"})
  /\ NoteIf("gatewayForgets", \E d \in denied : Attempting(d) # {})
  /\ UNCHANGED <<code, rowVars, pairing, withdrawal, disk, winners>>

-----------------------------------------------------------------------------
Next ==
  \/ \E c \in Codes : IssueCode(c) \/ CodeExpires(c) \/ \E p \in Pairings : SendPairing(p, c)
  \/ \E p \in Pairings :
       \/ FindCode(p) \/ Enrol(p) \/ LoseTheRace(p) \/ Allow(p) \/ AllowIsLost(p)
       \/ SavePairing(p) \/ LosePairing(p)
  \/ \E w \in Withdrawals :
       \/ \E kind \in {"revoke", "remove"}, d \in Devices : FindDevice(w, kind, d)
       \/ Withdraw(w) \/ WithdrawFails(w) \/ Disconnect(w) \/ DisconnectIsLost(w)
  \/ \E u \in Tunnels :
       \/ StartTunnel(u) \/ StopTunnel(u) \/ AskForToken(u) \/ FindToken(u) \/ MintToken(u)
       \/ Connect(u) \/ Drop(u)
  \/ \E d \in Tokens : DenialAges(d)
  \/ GatewayRestarts

Spec == Init /\ [][Next]_vars

-----------------------------------------------------------------------------
(* Properties                                                                *)

Unless(xs, P) == P \/ raced \cap xs # {}
Withdrawn(d) == row[d] \in {"revoked", "removed"}

\* agents.ts, POST /agents/enroll: two agents racing on one code must not both
\* end up enrolled, whatever is read before the transaction.
OneEnrolmentPerCode == \A c \in Codes : Cardinality(winners[c]) <= 1

\* agents.ts: a revocation or a removal that has been answered has ended the
\* machine's connection, and none comes back with a JWT minted before it, but
\* for a gateway that did not hear of it, forgot it, or heard in the same moment
\* of a pairing.
WithdrawnIsCutUnlessRaced ==
  \A d \in Devices :
    Withdrawn(d) /\ Disconnecting(d) = {} =>
      Unless({"disconnectLost", "gatewayForgets", "crossed"}, Connected(d) = {})

\* docs/agent.md: pairing the machine again lifts the denial immediately: once
\* the pairing is answered the gateway refuses it no more, but for a call that
\* was lost or crossed a withdrawal's.
PairedIsWelcomeUnlessRaced ==
  \A d \in Devices :
    row[d] = "active" /\ Allowing(d) = {} =>
      Unless({"allowLost", "crossed"}, d \notin denied)

\* The machine the row says is enrolled is the one that can prove it: the file
\* holds the token the row answers to once no pairing is under way, but for an
\* answer that was lost and two pairings that saved in the other order.
HoldsItsTokenUnlessRaced ==
  \A d \in Devices :
    row[d] = "active" /\ (\A p \in Pairings : pairing[p].token = 0) =>
      Unless({"answerLost", "pairedTwice"}, disk = hash[d])

\* desktop sharing.ts: what was stopped is off; a restart leaves no connection
\* under the policy it replaces, but for a tunnel stopped while it asked for its
\* JWT, which connects all the same.
StoppedIsOffUnlessRaced ==
  \A u \in Tunnels : tunnel[u].stopped =>
    Unless({"stoppedAsking"}, tunnel[u].stage # "connected")
=============================================================================
