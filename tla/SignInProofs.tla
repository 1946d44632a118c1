----------------------------- MODULE SignInProofs -----------------------------
(***************************************************************************)
(* Theorems about SignIn, for any clients, tabs and workspaces, any number *)
(* of tokens and any set of races.                                         *)
(***************************************************************************)
EXTENDS SignIn, TLAPS, WellFoundedInduction

States == {"unused", "live", "rotated", "stale", "ended"}
IsRequest(r) ==
  /\ r = [op |-> r.op, stage |-> r.stage, sent |-> r.sent, to |-> r.to, turn |-> r.turn, new |-> r.new]
  /\ r.op \in Ops \cup {"none"} /\ r.stage \in Stages \cup {"idle"}

\* What the variables the argument is about hold, unused rows included.
RowTypes ==
  /\ state \in [Tokens -> States]
  /\ family \in [Tokens -> {0} \cup Tokens]
  /\ device \in [Tokens -> Clients]
RequestTypes == req = [s \in Tabs |-> req[s]] /\ \A s \in Tabs : IsRequest(req[s])
Types == /\ RowTypes /\ RequestTypes
         /\ cookie \in [Clients -> {0} \cup Tokens]
         /\ raced \in [Clients -> SUBSET AllRaces]

\* A row belongs to the family of an issued row, of the same client.
RowsAreOfFamilies ==
  \A t \in Issued : family[t] \in Issued /\ device[family[t]] = device[t]

\* What a client holds, sends and is sent was issued to it.
TokensAreIssued ==
  /\ \A c \in Clients : cookie[c] # 0 => cookie[c] \in Issued /\ device[cookie[c]] = c
  /\ \A s \in Tabs : req[s].stage # "idle" =>
       req[s].sent \in Issued /\ device[req[s].sent] = ClientOf[s]
  /\ \A s \in Tabs : req[s].stage = "set" =>
       req[s].new \in Issued /\ device[req[s].new] = ClientOf[s]

OverIsIssued == over \subseteq Issued

Reasons == {"grace", "inFlight", "fork", "switchAfter", "desktop"}

\* A refresh that is past its check of a family that has ended.
RefreshIsExcused ==
  \A s \in Tabs :
    req[s].op = "refresh" /\ req[s].stage \in {"found", "turned"} /\ family[req[s].sent] \in over =>
      Excused(ClientOf[s], Reasons)

Inv == /\ Types /\ RowsAreOfFamilies /\ TokensAreIssued /\ OverIsIssued
       /\ RefreshIsExcused /\ SignOutIsFinalUnlessRaced

-----------------------------------------------------------------------------
(* What the helpers return.                                                  *)

LEMMA IssuedAreTokens == Issued \subseteq Tokens /\ 0 \notin Issued
BY BoundsAssumption DEF Issued, Tokens

\* Revoking changes live rows of the given ones to ended, and nothing else.
LEMMA RevokeEnds ==
  ASSUME Types, NEW ts
  PROVE  /\ Revoke(ts) \in [Tokens -> States]
         /\ \A t \in Tokens : (Revoke(ts)[t] = "unused") <=> (state[t] = "unused")
         /\ \A t \in Tokens : state[t] = "ended" => Revoke(ts)[t] = "ended"
         /\ \A t \in Tokens : Revoke(ts)[t] \in {"live", "rotated"} => Revoke(ts)[t] = state[t]
         /\ \A t \in Tokens \cap ts : Revoke(ts)[t] # "live"
BY DEF Revoke, Types, RowTypes, States

\* A race once noted is there for good.
LEMMA NotedIsKept ==
  ASSUME Types, NEW a, NEW b, Note(a, b)
  PROVE  /\ raced' \in [Clients -> SUBSET AllRaces]
         /\ \A c \in Clients : raced'[c] = raced[c] \cup a[c] \cup b[c]
<1>1. \A c \in Clients : raced'[c] = raced[c] \cup a[c] \cup b[c]
  BY DEF Note
<1>2. \A c \in Clients : raced'[c] \subseteq Races
  BY DEF Note
<1>3. raced' = [c \in Clients |-> raced[c] \cup a[c] \cup b[c]]
  BY DEF Note
<1> QED BY <1>1, <1>2, <1>3, RacesAssumption

\* The new row: of its client, of the given family or of one of its own.
LEMMA IssueAdds ==
  ASSUME Inv, NEW s \in Tabs, NEW o, NEW continuing \in {0} \cup Issued,
         req[s].stage # "idle", Issue(s, o, continuing)
  PROVE  /\ RowTypes' /\ RequestTypes'
         /\ NextToken \in Tokens /\ NextToken \notin Issued
         /\ Issued' = Issued \cup {NextToken}
         /\ state' = [state EXCEPT ![NextToken] = "live"]
         /\ \A t \in Issued : /\ family'[t] = family[t] /\ device'[t] = device[t]
         /\ family'[NextToken] = IF continuing = 0 THEN NextToken ELSE continuing
         /\ device'[NextToken] = ClientOf[s]
         /\ req'[s].stage = "set" /\ req'[s].new = NextToken
         /\ req'[s].sent = req[s].sent /\ req'[s].op = req[s].op
         /\ \A z \in Tabs \ {s} : req'[z] = req[z]
<1> USE DEF Inv, Types, RowTypes, RequestTypes
<1>1. NextToken \in Tokens /\ NextToken \notin Issued
  BY DEF Issue
<1>2. /\ state' = [state EXCEPT ![NextToken] = "live"]
      /\ family' = [family EXCEPT ![NextToken] = IF continuing = 0 THEN NextToken ELSE continuing]
      /\ device' = [device EXCEPT ![NextToken] = ClientOf[s]]
      /\ req' = [req EXCEPT ![s].stage = "set", ![s].new = NextToken]
  BY DEF Issue
<1>3. Issued' = Issued \cup {NextToken}
  BY <1>1, <1>2 DEF Issued
<1>4. IsRequest(req[s])
  OBVIOUS
<1>5. /\ req'[s].stage = "set" /\ req'[s].new = NextToken
      /\ req'[s].sent = req[s].sent /\ req'[s].op = req[s].op
      /\ IsRequest(req'[s])
      /\ \A z \in Tabs \ {s} : req'[z] = req[z]
  BY <1>2, <1>4 DEF IsRequest, Stages
<1>6. req' = [z \in Tabs |-> req'[z]]
  BY <1>2
<1>7. /\ state' \in [Tokens -> States] /\ device' \in [Tokens -> Clients]
      /\ family' \in [Tokens -> {0} \cup Tokens]
  BY <1>1, <1>2, IssuedAreTokens, ClientsAssumption DEF States
<1> QED BY <1>1, <1>2, <1>3, <1>5, <1>6, <1>7

-----------------------------------------------------------------------------
(* What a step may do to the invariant, by the kind of step.                 *)

\* Rows and ended families as they were: a race noted is all that happens.
LEMMA RowsStay ==
  ASSUME Inv, UNCHANGED <<state, family, device, over>>,
         raced' \in [Clients -> SUBSET AllRaces], \A c \in Clients : raced[c] \subseteq raced'[c]
  PROVE  /\ RowTypes' /\ RowsAreOfFamilies' /\ OverIsIssued' /\ SignOutIsFinalUnlessRaced'
         /\ Issued' = Issued
         /\ \A c \in Clients : Excused(c, Reasons) => Excused(c, Reasons)'
<1> USE DEF Inv, Types, RowTypes, Issued
<1>1. RowTypes' /\ Issued' = Issued
  OBVIOUS
<1>2. RowsAreOfFamilies' /\ OverIsIssued'
  BY <1>1 DEF RowsAreOfFamilies, OverIsIssued
<1>3. \A c \in Clients : Excused(c, Reasons) => Excused(c, Reasons)'
  BY DEF Excused
<1>4. SignOutIsFinalUnlessRaced'
  <2> SUFFICES ASSUME NEW t \in Issued', family'[t] \in over', Usable(t)'
               PROVE  Excused(device[t], Reasons)'
    BY DEF SignOutIsFinalUnlessRaced, Reasons
  <2>1. Excused(device[t], Reasons)
    BY <1>1 DEF SignOutIsFinalUnlessRaced, Reasons, Usable
  <2>2. device[t] \in Clients
    BY <1>1
  <2> QED BY <1>3, <2>1, <2>2
<1> QED BY <1>1, <1>2, <1>3, <1>4

\* The families fs are ended: whatever of theirs stays usable was rotated, or is
\* excused by b.
LEMMA EndingIsExcused ==
  ASSUME Inv, NEW fs \in SUBSET Issued, NEW ts, NEW b,
         state' = Revoke(ts), End(fs), Note(EndRaces(fs), b), UNCHANGED <<family, device>>,
         \A t \in Issued : family[t] \in fs /\ state[t] = "live" /\ t \notin ts =>
           b[device[t]] \cap Reasons # {},
         \A s \in Tabs : req'[s] = req[s] \/ req'[s].op # "refresh"
  PROVE  /\ RowTypes' /\ RowsAreOfFamilies' /\ OverIsIssued'
         /\ SignOutIsFinalUnlessRaced' /\ RefreshIsExcused'
         /\ raced' \in [Clients -> SUBSET AllRaces]
         /\ Issued' = Issued
<1> USE DEF Inv, Types
<1>1. /\ state' \in [Tokens -> States]
      /\ \A t \in Tokens : (state'[t] = "unused") <=> (state[t] = "unused")
      /\ \A t \in Tokens : state'[t] \in {"live", "rotated"} => state'[t] = state[t]
      /\ \A t \in Tokens \cap ts : state'[t] # "live"
  BY RevokeEnds
<1>2. /\ raced' \in [Clients -> SUBSET AllRaces]
      /\ \A c \in Clients : raced'[c] = raced[c] \cup EndRaces(fs)[c] \cup b[c]
  BY NotedIsKept
<1>3. RowTypes' /\ Issued' = Issued
  BY <1>1 DEF RowTypes, Issued
<1>4. over' = over \cup fs
  BY DEF End
<1>5. RowsAreOfFamilies' /\ OverIsIssued'
  BY <1>3, <1>4 DEF RowsAreOfFamilies, OverIsIssued
<1>6. SignOutIsFinalUnlessRaced'
  <2> SUFFICES ASSUME NEW t \in Issued, family[t] \in over \cup fs, state'[t] \in {"live", "rotated"}
               PROVE  Excused(device[t], Reasons)'
    BY <1>3, <1>4 DEF SignOutIsFinalUnlessRaced, Reasons, Usable
  <2>0. t \in Tokens /\ device[t] \in Clients
    BY DEF Issued, RowTypes
  <2>1. state[t] = state'[t]
    BY <1>1, <2>0
  <2>2. CASE family[t] \in over
    <3>1. Excused(device[t], Reasons)
      BY <2>1, <2>2 DEF SignOutIsFinalUnlessRaced, Reasons, Usable
    <3> QED BY <1>2, <2>0, <3>1 DEF Excused
  <2>3. CASE family[t] \in fs /\ state[t] = "rotated"
    <3>1. t \in OfFamilies(fs)
      BY <2>3 DEF OfFamilies
    <3>2. "grace" \in EndRaces(fs)[device[t]]
      BY <2>0, <2>3, <3>1 DEF EndRaces
    <3> QED BY <1>2, <2>0, <3>2 DEF Excused, Reasons
  <2>4. CASE family[t] \in fs /\ state[t] = "live"
    <3>1. t \notin ts
      BY <1>1, <2>0, <2>1, <2>4
    <3>2. b[device[t]] \cap Reasons # {}
      BY <2>4, <3>1
    <3> QED BY <1>2, <2>0, <3>2 DEF Excused
  <2> QED BY <2>1, <2>2, <2>3, <2>4
<1>7. RefreshIsExcused'
  <2> SUFFICES ASSUME NEW s \in Tabs, req'[s].op = "refresh", req'[s].stage \in {"found", "turned"},
                      family[req'[s].sent] \in over \cup fs
               PROVE  Excused(ClientOf[s], Reasons)'
    BY <1>4 DEF RefreshIsExcused
  <2>0. req'[s] = req[s] /\ ClientOf[s] \in Clients
    BY ClientsAssumption
  <2>1. CASE family[req[s].sent] \in over
    <3>1. Excused(ClientOf[s], Reasons)
      BY <2>0, <2>1 DEF RefreshIsExcused
    <3> QED BY <1>2, <2>0, <3>1 DEF Excused
  <2>2. CASE family[req[s].sent] \in fs
    <3>1. "inFlight" \in EndRaces(fs)[ClientOf[s]]
      BY <2>0, <2>2 DEF EndRaces
    <3> QED BY <1>2, <2>0, <3>1 DEF Excused, Reasons
  <2> QED BY <2>0, <2>1, <2>2
<1> QED BY <1>2, <1>3, <1>5, <1>6, <1>7

\* A row is issued: in a family that has ended only with an excuse.
LEMMA IssuingIsExcused ==
  ASSUME Inv, NEW s \in Tabs, NEW o, NEW continuing \in {0} \cup Issued,
         req[s].stage # "idle", Issue(s, o, continuing), UNCHANGED <<cookie, over>>,
         raced' \in [Clients -> SUBSET AllRaces], \A c \in Clients : raced[c] \subseteq raced'[c],
         continuing # 0 => device[continuing] = ClientOf[s],
         continuing \in over => Excused(ClientOf[s], Reasons)'
  PROVE  Inv'
<1> DEFINE n == NextToken
<1>1. /\ RowTypes' /\ RequestTypes'
      /\ n \in Tokens /\ n \notin Issued
      /\ Issued' = Issued \cup {n}
      /\ state' = [state EXCEPT ![n] = "live"]
      /\ \A t \in Issued : family'[t] = family[t] /\ device'[t] = device[t]
      /\ family'[n] = IF continuing = 0 THEN n ELSE continuing
      /\ device'[n] = ClientOf[s]
      /\ req'[s].stage = "set" /\ req'[s].new = n
      /\ req'[s].sent = req[s].sent /\ req'[s].op = req[s].op
      /\ \A z \in Tabs \ {s} : req'[z] = req[z]
  BY IssueAdds
<1> HIDE DEF n
<1> USE DEF Inv
<1>2. Types'
  BY <1>1 DEF Types
<1>3. RowsAreOfFamilies'
  <2> SUFFICES ASSUME NEW t \in Issued'
               PROVE  family'[t] \in Issued' /\ device'[family'[t]] = device'[t]
    BY DEF RowsAreOfFamilies
  <2>1. CASE t \in Issued
    BY <1>1, <2>1 DEF RowsAreOfFamilies
  <2>2. CASE t = n /\ continuing = 0
    BY <1>1, <2>2
  <2>3. CASE t = n /\ continuing # 0
    BY <1>1, <2>3
  <2> QED BY <1>1, <2>1, <2>2, <2>3
<1>4. TokensAreIssued'
  <2>1. \A c \in Clients : cookie'[c] # 0 => cookie'[c] \in Issued' /\ device'[cookie'[c]] = c
    BY <1>1 DEF TokensAreIssued
  <2>2. \A z \in Tabs : req'[z].stage # "idle" =>
          req'[z].sent \in Issued' /\ device'[req'[z].sent] = ClientOf[z]
    BY <1>1 DEF TokensAreIssued
  <2>3. \A z \in Tabs : req'[z].stage = "set" =>
          req'[z].new \in Issued' /\ device'[req'[z].new] = ClientOf[z]
    BY <1>1 DEF TokensAreIssued
  <2> QED BY <2>1, <2>2, <2>3 DEF TokensAreIssued
<1>5. OverIsIssued'
  BY <1>1 DEF OverIsIssued
<1>6. \A c \in Clients : Excused(c, Reasons) => Excused(c, Reasons)'
  BY DEF Excused
<1>7. RefreshIsExcused'
  <2> SUFFICES ASSUME NEW z \in Tabs, req'[z].op = "refresh", req'[z].stage \in {"found", "turned"},
                      family'[req'[z].sent] \in over
               PROVE  Excused(ClientOf[z], Reasons)'
    BY DEF RefreshIsExcused
  <2>1. z # s /\ req'[z] = req[z]
    BY <1>1
  <2>2. req[z].sent \in Issued
    BY <2>1 DEF TokensAreIssued
  <2>3. family[req[z].sent] \in over
    BY <1>1, <2>1, <2>2
  <2>4. Excused(ClientOf[z], Reasons)
    BY <2>1, <2>3 DEF RefreshIsExcused
  <2> QED BY <1>6, <2>4, ClientsAssumption
<1>8. SignOutIsFinalUnlessRaced'
  <2> SUFFICES ASSUME NEW t \in Issued', family'[t] \in over, Usable(t)'
               PROVE  Excused(device[t], Reasons)'
    BY DEF SignOutIsFinalUnlessRaced, Reasons
  <2>1. CASE t \in Issued
    <3>1. t # n /\ t \in Tokens
      BY <1>1, <2>1 DEF Issued
    <3>2. Usable(t) /\ family[t] \in over /\ device'[t] = device[t]
      BY <1>1, <2>1, <3>1 DEF Usable, Types, RowTypes
    <3>3. Excused(device[t], Reasons) /\ device[t] \in Clients
      BY <2>1, <3>1, <3>2 DEF SignOutIsFinalUnlessRaced, Reasons, Types, RowTypes
    <3> QED BY <1>6, <3>2, <3>3 DEF Excused
  <2>2. CASE t = n
    <3>1. family'[t] = continuing
      BY <1>1, <2>2 DEF OverIsIssued
    <3> QED BY <1>1, <2>2, <3>1 DEF Excused
  <2> QED BY <1>1, <2>1, <2>2
<1> QED BY <1>2, <1>3, <1>4, <1>5, <1>7, <1>8

\* The rows are as they were, and one request moves on: what is left to show.
LEMMA RequestMoves ==
  ASSUME Inv, NEW s \in Tabs, NEW r, IsRequest(r), req' = [req EXCEPT ![s] = r],
         UNCHANGED <<family, device, cookie, over>>, Issued' = Issued,
         RowTypes', RowsAreOfFamilies', OverIsIssued', SignOutIsFinalUnlessRaced',
         raced' \in [Clients -> SUBSET AllRaces], \A c \in Clients : raced[c] \subseteq raced'[c],
         r.stage # "idle" => r.sent \in Issued /\ device[r.sent] = ClientOf[s],
         r.stage = "set" => r.new \in Issued /\ device[r.new] = ClientOf[s],
         r.op = "refresh" /\ r.stage \in {"found", "turned"} /\ family[r.sent] \in over =>
           Excused(ClientOf[s], Reasons)
  PROVE  Inv'
<1> USE DEF Inv
<1>1. Types'
  BY DEF Types, RequestTypes
<1>2. TokensAreIssued'
  BY DEF TokensAreIssued, Types, RequestTypes
<1>3. RefreshIsExcused'
  BY ClientsAssumption DEF RefreshIsExcused, Excused, Types, RequestTypes
<1> QED BY <1>1, <1>2, <1>3

-----------------------------------------------------------------------------
(* The invariant, action by action.                                          *)

LEMMA IdleIsRequest == IsRequest(Idle) /\ Idle.stage = "idle"
BY DEF IsRequest, Idle, Ops, Stages

\* One field at a time: the provers take no more at once.
LEMMA FieldsChange ==
  ASSUME NEW q, IsRequest(q), NEW x
  PROVE  /\ x \in Ops => /\ IsRequest([q EXCEPT !.op = x]) /\ [q EXCEPT !.op = x].op = x
                         /\ [q EXCEPT !.op = x].sent = q.sent
         /\ x \in Stages => /\ IsRequest([q EXCEPT !.stage = x]) /\ [q EXCEPT !.stage = x].stage = x
                            /\ [q EXCEPT !.stage = x].op = q.op /\ [q EXCEPT !.stage = x].sent = q.sent
         /\ IsRequest([q EXCEPT !.sent = x]) /\ [q EXCEPT !.sent = x].sent = x
         /\ [q EXCEPT !.sent = x].op = q.op /\ [q EXCEPT !.sent = x].stage = q.stage
         /\ IsRequest([q EXCEPT !.turn = x]) /\ [q EXCEPT !.turn = x].sent = q.sent
         /\ [q EXCEPT !.turn = x].op = q.op /\ [q EXCEPT !.turn = x].stage = q.stage
         /\ IsRequest([q EXCEPT !.to = x]) /\ [q EXCEPT !.to = x].sent = q.sent
         /\ [q EXCEPT !.to = x].op = q.op /\ [q EXCEPT !.to = x].stage = q.stage
<1>1. x \in Ops => /\ IsRequest([q EXCEPT !.op = x]) /\ [q EXCEPT !.op = x].op = x
                   /\ [q EXCEPT !.op = x].sent = q.sent
  BY DEF IsRequest
<1>2. x \in Stages => /\ IsRequest([q EXCEPT !.stage = x]) /\ [q EXCEPT !.stage = x].stage = x
                      /\ [q EXCEPT !.stage = x].op = q.op /\ [q EXCEPT !.stage = x].sent = q.sent
  BY DEF IsRequest
<1>3. /\ IsRequest([q EXCEPT !.sent = x]) /\ [q EXCEPT !.sent = x].sent = x
      /\ [q EXCEPT !.sent = x].op = q.op /\ [q EXCEPT !.sent = x].stage = q.stage
  BY DEF IsRequest
<1>4. /\ IsRequest([q EXCEPT !.turn = x]) /\ [q EXCEPT !.turn = x].sent = q.sent
      /\ [q EXCEPT !.turn = x].op = q.op /\ [q EXCEPT !.turn = x].stage = q.stage
  BY DEF IsRequest
<1>5. /\ IsRequest([q EXCEPT !.to = x]) /\ [q EXCEPT !.to = x].sent = q.sent
      /\ [q EXCEPT !.to = x].op = q.op /\ [q EXCEPT !.to = x].stage = q.stage
  BY DEF IsRequest
<1> QED BY <1>1, <1>2, <1>3, <1>4, <1>5

SentRequest(op, token, o) == [Idle EXCEPT !.op = op, !.stage = "sent", !.sent = token, !.to = o]
MovedRequest(q, stage, o) == [q EXCEPT !.stage = stage, !.to = o]
FoundRequest(q, turn, o) == [q EXCEPT !.stage = "found", !.turn = turn, !.to = o]

LEMMA SentIsRequest ==
  ASSUME NEW op \in Ops, NEW token, NEW o
  PROVE  /\ IsRequest(SentRequest(op, token, o))
         /\ SentRequest(op, token, o).stage = "sent" /\ SentRequest(op, token, o).sent = token
<1> DEFINE a == [Idle EXCEPT !.op = op]
           b == [a EXCEPT !.stage = "sent"]
           c == [b EXCEPT !.sent = token]
           d == [c EXCEPT !.to = o]
<1>1. IsRequest(a)
  BY IdleIsRequest, FieldsChange
<1>2. "sent" \in Stages
  BY DEF Stages
<1> HIDE DEF a
<1>3. IsRequest(b) /\ b.stage = "sent"
  BY <1>1, <1>2, FieldsChange, ZenonT(40)
<1> HIDE DEF b
<1>4. IsRequest(c) /\ c.stage = "sent" /\ c.sent = token
  BY <1>3, FieldsChange, ZenonT(40)
<1> HIDE DEF c
<1>5. IsRequest(d) /\ d.stage = "sent" /\ d.sent = token
  BY <1>4, FieldsChange, ZenonT(40)
<1> USE DEF a, b, c
<1>6. d = SentRequest(op, token, o)
  BY DEF SentRequest
<1> HIDE DEF d
<1> QED BY <1>5, <1>6

LEMMA MovedIsRequest ==
  ASSUME NEW q, IsRequest(q), NEW stage \in Stages, NEW o
  PROVE  /\ IsRequest(MovedRequest(q, stage, o))
         /\ MovedRequest(q, stage, o).stage = stage /\ MovedRequest(q, stage, o).sent = q.sent
         /\ MovedRequest(q, stage, o).op = q.op /\ MovedRequest(q, stage, o).to = o
<1> DEFINE a == [q EXCEPT !.stage = stage]
           d == [a EXCEPT !.to = o]
<1>1. IsRequest(a) /\ a.stage = stage /\ a.sent = q.sent /\ a.op = q.op
  BY FieldsChange, ZenonT(40)
<1> HIDE DEF a
<1>2. IsRequest(d) /\ d.stage = stage /\ d.sent = q.sent /\ d.op = q.op /\ d.to = o
  BY <1>1 DEF IsRequest
<1> USE DEF a
<1>3. d = MovedRequest(q, stage, o)
  BY DEF MovedRequest
<1> HIDE DEF d
<1> QED BY <1>2, <1>3

LEMMA FoundIsRequest ==
  ASSUME NEW q, IsRequest(q), NEW turn, NEW o
  PROVE  /\ IsRequest(FoundRequest(q, turn, o))
         /\ FoundRequest(q, turn, o).stage = "found" /\ FoundRequest(q, turn, o).sent = q.sent
         /\ FoundRequest(q, turn, o).op = q.op /\ FoundRequest(q, turn, o).to = o
<1> DEFINE a == [q EXCEPT !.stage = "found"]
           b == [a EXCEPT !.turn = turn]
           c == [b EXCEPT !.to = o]
<1>1. "found" \in Stages
  BY DEF Stages
<1>2. IsRequest(a) /\ a.stage = "found" /\ a.sent = q.sent /\ a.op = q.op
  BY <1>1, FieldsChange, ZenonT(40)
<1> HIDE DEF a
<1>3. IsRequest(b) /\ b.stage = "found" /\ b.sent = q.sent /\ b.op = q.op
  BY <1>2 DEF IsRequest
<1> HIDE DEF b
<1>4. IsRequest(c) /\ c.stage = "found" /\ c.sent = q.sent /\ c.op = q.op /\ c.to = o
  BY <1>3 DEF IsRequest
<1> USE DEF a, b
<1>5. c = FoundRequest(q, turn, o)
  BY DEF FoundRequest
<1> HIDE DEF c
<1> QED BY <1>4, <1>5

LEMMA InvInit == Init => Inv
<1> SUFFICES ASSUME Init PROVE Inv
  OBVIOUS
<1> USE DEF Init
<1>1. Issued = Range(FirstToken) /\ Range(FirstToken) \subseteq Tokens
  BY ClientsAssumption DEF Issued, Range, Tokens
<1>2. \A c \in Clients : FirstToken[c] \in Issued /\ device[FirstToken[c]] = c
  <2> SUFFICES ASSUME NEW c \in Clients PROVE FirstToken[c] \in Issued /\ device[FirstToken[c]] = c
    OBVIOUS
  <2>1. FirstToken[c] \in Range(FirstToken) /\ FirstToken[c] \in Tokens
    BY ClientsAssumption DEF Range, Tokens
  <2>2. device[FirstToken[c]] = CHOOSE d \in Clients : FirstToken[d] = FirstToken[c]
    BY <2>1
  <2>3. (CHOOSE d \in Clients : FirstToken[d] = FirstToken[c]) = c
    BY ClientsAssumption
  <2> QED BY <1>1, <2>1, <2>2, <2>3
<1>3. RowTypes
  <2>1. \A t \in Tokens : device[t] \in Clients
    <3> SUFFICES ASSUME NEW t \in Tokens PROVE device[t] \in Clients
      OBVIOUS
    <3>1. \E c \in Clients : t \in Range(FirstToken) => FirstToken[c] = t
      BY ClientsAssumption DEF Range
    <3>2. device[t] = CHOOSE c \in Clients : t \in Range(FirstToken) => FirstToken[c] = t
      OBVIOUS
    <3> QED BY <3>1, <3>2
  <2> QED BY <1>1, <2>1 DEF RowTypes, States
<1>4. Types
  BY <1>3, <1>1, IdleIsRequest, ClientsAssumption DEF Types, RequestTypes, Tokens
<1>5. RowsAreOfFamilies
  BY <1>1 DEF RowsAreOfFamilies
<1>6. TokensAreIssued
  BY <1>2, IdleIsRequest DEF TokensAreIssued, Idle
<1> QED BY <1>4, <1>5, <1>6 DEF Inv, OverIsIssued, RefreshIsExcused, SignOutIsFinalUnlessRaced

LEMMA NextPreservesInv == Inv /\ [Next]_vars => Inv'
<1> SUFFICES ASSUME Inv, [Next]_vars PROVE Inv'
  OBVIOUS
<1> USE DEF tokenVars, historyVars
<1>0. Types /\ RowTypes /\ RequestTypes /\ \A s \in Tabs : IsRequest(req[s]) /\ ClientOf[s] \in Clients
  BY ClientsAssumption DEF Inv, Types, RequestTypes
<1>a. \A s \in Tabs : req[s].stage # "idle" =>
        req[s].sent \in Issued /\ device[req[s].sent] = ClientOf[s]
  BY DEF Inv, TokensAreIssued
<1>1. ASSUME NEW s \in Tabs, NEW op \in Ops, NEW o, Send(s, op, o) PROVE Inv'
  <2> DEFINE r == SentRequest(op, cookie[ClientOf[s]], o)
  <2>1. IsRequest(r) /\ r.stage = "sent" /\ r.sent = cookie[ClientOf[s]]
    BY SentIsRequest
  <2>2. raced' \in [Clients -> SUBSET AllRaces] /\ \A c \in Clients : raced[c] \subseteq raced'[c]
    BY <1>0, <1>1, NotedIsKept DEF Send, Types
  <2>3. r.sent \in Issued /\ device[r.sent] = ClientOf[s]
    BY <1>0, <1>1, <2>1 DEF Inv, TokensAreIssued, Send
  <2>4. req' = [req EXCEPT ![s] = r] /\ UNCHANGED <<state, family, device, cookie, over>>
    BY <1>1 DEF Send, SentRequest
  <2> HIDE DEF r
  <2> QED BY <2>1, <2>2, <2>3, <2>4, RowsStay, RequestMoves
<1>2. ASSUME NEW s \in Tabs, FindToken(s) PROVE Inv'
  <2> DEFINE r == FoundRequest(req[s], state[req[s].sent] = "live", Resolve(org[req[s].sent]))
  <2>1. /\ IsRequest(req[s]) /\ req[s].stage = "sent" /\ Usable(req[s].sent)
        /\ UNCHANGED <<state, family, device, cookie, over, raced>>
    BY <1>0, <1>2 DEF FindToken, Handling
  <2>2. req' = [req EXCEPT ![s] = r]
    BY <1>2, <1>0 DEF FindToken, RequestTypes, FoundRequest
  <2>3. IsRequest(r) /\ r.stage = "found" /\ r.sent = req[s].sent
    BY <2>1, FoundIsRequest
  <2>4. family[r.sent] \in over => Excused(ClientOf[s], Reasons)
    BY <1>a, <2>1, <2>3 DEF Inv, SignOutIsFinalUnlessRaced, Reasons
  <2> HIDE DEF r
  <2> QED BY <1>0, <1>a, <2>1, <2>2, <2>3, <2>4, RowsStay, RequestMoves DEF Types
<1>3. ASSUME NEW s \in Tabs, RefuseToken(s) PROVE Inv'
  <2> DEFINE r == [req[s] EXCEPT !.stage = "clear"]
  <2>1. /\ IsRequest(req[s]) /\ req[s].stage = "sent"
        /\ UNCHANGED <<state, family, device, cookie, over, raced>>
    BY <1>0, <1>3 DEF RefuseToken, Handling
  <2>2. req' = [req EXCEPT ![s] = r]
    BY <1>3, <1>0 DEF RefuseToken, RequestTypes
  <2>3. IsRequest(r) /\ r.stage = "clear" /\ r.sent = req[s].sent
    BY <2>1 DEF IsRequest, Stages
  <2> HIDE DEF r
  <2> QED BY <1>0, <1>a, <2>1, <2>2, <2>3, RowsStay, RequestMoves DEF Types
<1>4. ASSUME NEW s \in Tabs, RotateToken(s) PROVE Inv'
  <2> DEFINE r == [req[s] EXCEPT !.stage = "turned"]
             t == req[s].sent
  <2>1. /\ IsRequest(req[s]) /\ req[s].stage = "found" /\ req[s].op = "refresh"
        /\ state' = IF req[s].turn THEN [state EXCEPT ![t] = Stamp(t)] ELSE state
        /\ UNCHANGED <<family, device, cookie, over, raced>>
    BY <1>0, <1>4 DEF RotateToken, Handling
  <2>2. req' = [req EXCEPT ![s] = r]
    BY <1>4, <1>0 DEF RotateToken, RequestTypes
  <2>3. IsRequest(r) /\ r.stage = "turned" /\ r.sent = t
    BY <2>1 DEF IsRequest, Stages
  <2>4. t \in Issued /\ t \in Tokens /\ device[t] = ClientOf[s]
    BY <1>a, <2>1 DEF Issued
  <2>5. family[t] \in over => Excused(ClientOf[s], Reasons)
    BY <2>1 DEF Inv, RefreshIsExcused
  <2>6. RowTypes' /\ Issued' = Issued
    BY <1>0, <2>1, <2>4 DEF RowTypes, Issued, Stamp, States
  <2>7. RowsAreOfFamilies' /\ OverIsIssued'
    BY <2>1, <2>6 DEF Inv, RowsAreOfFamilies, OverIsIssued
  <2>8. SignOutIsFinalUnlessRaced'
    <3> SUFFICES ASSUME NEW u \in Issued, family[u] \in over, Usable(u)'
                 PROVE  Excused(device[u], Reasons)
      BY <2>1, <2>6 DEF SignOutIsFinalUnlessRaced, Reasons, Excused
    <3>1. CASE u = t
      BY <2>4, <2>5, <3>1
    <3>2. CASE u # t
      <4>1. Usable(u)
        BY <1>0, <2>1, <2>4, <3>2 DEF Usable, RowTypes, Issued
      <4> QED BY <4>1 DEF Inv, SignOutIsFinalUnlessRaced, Reasons
    <3> QED BY <3>1, <3>2
  <2>9. raced' \in [Clients -> SUBSET AllRaces] /\ \A c \in Clients : raced[c] \subseteq raced'[c]
    BY <1>0, <2>1 DEF Types
  <2> HIDE DEF r, t
  <2> QED BY <2>1, <2>2, <2>3, <2>4, <2>5, <2>6, <2>7, <2>8, <2>9, RequestMoves
<1>5. ASSUME NEW s \in Tabs, IssueRefreshed(s) PROVE Inv'
  <2> DEFINE f == family[req[s].sent]
  <2>1. /\ req[s].op = "refresh" /\ req[s].stage = "turned" /\ Issue(s, req[s].to, f)
        /\ UNCHANGED <<cookie, over, raced>>
    BY <1>5 DEF IssueRefreshed, Handling
  <2>2. f \in Issued /\ device[f] = ClientOf[s]
    BY <1>a, <2>1 DEF Inv, RowsAreOfFamilies
  <2>3. f \in over => Excused(ClientOf[s], Reasons)
    BY <2>1 DEF Inv, RefreshIsExcused
  <2>4. f \in over => Excused(ClientOf[s], Reasons)'
    BY <2>1, <2>3 DEF Excused
  <2>5. raced' \in [Clients -> SUBSET AllRaces] /\ \A c \in Clients : raced[c] \subseteq raced'[c]
    BY <1>0, <2>1 DEF Types
  <2> HIDE DEF f
  <2> QED BY <2>1, <2>2, <2>4, <2>5, IssuingIsExcused
<1>6. ASSUME NEW s \in Tabs, IssueFails(s) PROVE Inv'
  <2>1. req' = [req EXCEPT ![s] = Idle] /\ UNCHANGED <<state, family, device, cookie, over, raced>>
    BY <1>6 DEF IssueFails
  <2> QED BY <1>0, <2>1, IdleIsRequest, RowsStay, RequestMoves DEF Types, Idle
<1>7. ASSUME NEW t \in Tokens, GraceElapses(t) PROVE Inv'
  <2>1. /\ state[t] = "rotated" /\ state' = [state EXCEPT ![t] = "stale"]
        /\ UNCHANGED <<family, device, cookie, req, over>>
    BY <1>7 DEF GraceElapses
  <2>2. raced' \in [Clients -> SUBSET AllRaces] /\ \A c \in Clients : raced[c] \subseteq raced'[c]
    BY <1>0, <1>7, NotedIsKept DEF GraceElapses, Types
  <2>3. RowTypes' /\ Issued' = Issued /\ \A u \in Issued : Usable(u)' => Usable(u)
    BY <1>0, <2>1 DEF RowTypes, Issued, Usable, States
  <2>4. Types' /\ TokensAreIssued'
    BY <1>0, <2>1, <2>2, <2>3 DEF Inv, Types, RequestTypes, TokensAreIssued
  <2>5. RowsAreOfFamilies' /\ OverIsIssued'
    BY <2>1, <2>3 DEF Inv, RowsAreOfFamilies, OverIsIssued
  <2>6. \A c \in Clients : Excused(c, Reasons) => Excused(c, Reasons)'
    BY <2>2 DEF Excused
  <2>7. RefreshIsExcused'
    BY <1>0, <2>1, <2>6 DEF Inv, RefreshIsExcused
  <2>8. SignOutIsFinalUnlessRaced'
    BY <1>0, <2>1, <2>3, <2>6 DEF Inv, SignOutIsFinalUnlessRaced, Reasons, RowTypes, Issued
  <2> QED BY <2>4, <2>5, <2>7, <2>8 DEF Inv
<1>8. ASSUME NEW s \in Tabs, FindMembership(s) PROVE Inv'
  <2> DEFINE r == [req[s] EXCEPT !.stage = "turned"]
  <2>1. /\ IsRequest(req[s]) /\ req[s].stage = "sent" /\ req[s].op = "switch"
        /\ UNCHANGED <<state, family, device, cookie, over, raced>>
    BY <1>0, <1>8 DEF FindMembership, Handling
  <2>2. req' = [req EXCEPT ![s] = r] \/ req' = [req EXCEPT ![s] = Idle]
    BY <1>8 DEF FindMembership
  <2>3. IsRequest(r) /\ r.stage = "turned" /\ r.sent = req[s].sent /\ r.op = "switch"
    BY <2>1 DEF IsRequest, Stages
  <2> HIDE DEF r
  <2>4. raced' \in [Clients -> SUBSET AllRaces] /\ \A c \in Clients : raced[c] \subseteq raced'[c]
    BY <1>0, <2>1 DEF Types
  <2>5. CASE req' = [req EXCEPT ![s] = r]
    BY <1>a, <2>1, <2>3, <2>4, <2>5, RowsStay, RequestMoves
  <2>6. CASE req' = [req EXCEPT ![s] = Idle]
    BY <2>1, <2>4, <2>6, IdleIsRequest, RowsStay, RequestMoves DEF Idle
  <2> QED BY <2>2, <2>5, <2>6
<1>9. ASSUME NEW s \in Tabs, IssueSwitched(s) PROVE Inv'
  <2> DEFINE f == family[req[s].sent]
  <2>1. /\ req[s].stage = "turned" /\ Issue(s, req[s].to, f) /\ UNCHANGED <<cookie, over>>
    BY <1>9 DEF IssueSwitched, Handling
  <2>2. f \in Issued /\ device[f] = ClientOf[s]
    BY <1>a, <2>1 DEF Inv, RowsAreOfFamilies
  <2>3. CASE f \in over
    <3>1. Note(Racing({ClientOf[s]}, "switchAfter"), NoRace)
      BY <1>9, <2>3 DEF IssueSwitched
    <3>2. /\ raced' \in [Clients -> SUBSET AllRaces]
          /\ \A c \in Clients : raced'[c] = raced[c] \cup Racing({ClientOf[s]}, "switchAfter")[c] \cup NoRace[c]
      BY <1>0, <3>1, NotedIsKept
    <3>3. "switchAfter" \in raced'[ClientOf[s]]
      BY <1>0, <3>2 DEF Racing
    <3>4. Excused(ClientOf[s], Reasons)'
      BY <3>3 DEF Excused, Reasons
    <3> HIDE DEF f
    <3> QED BY <2>1, <2>2, <3>2, <3>4, IssuingIsExcused
  <2>4. CASE f \notin over
    <3>1. raced' = raced
      BY <1>9, <2>4 DEF IssueSwitched
    <3>2. raced' \in [Clients -> SUBSET AllRaces] /\ \A c \in Clients : raced[c] \subseteq raced'[c]
      BY <1>0, <3>1 DEF Types
    <3> HIDE DEF f
    <3> QED BY <2>1, <2>2, <2>4, <3>2, IssuingIsExcused
  <2> QED BY <2>3, <2>4
<1>10. ASSUME NEW s \in Tabs, ChangePassword(s) PROVE Inv'
  <2> DEFINE r == MovedRequest(req[s], "turned", Resolve(org[req[s].sent]))
             all == {family[t] : t \in Issued}
  <2>1. /\ IsRequest(req[s]) /\ req[s].stage = "sent" /\ req[s].op = "change"
        /\ state' = Revoke(Issued) /\ End(all) /\ Note(EndRaces(all), NoRace)
        /\ UNCHANGED <<family, device, cookie>>
    BY <1>0, <1>10 DEF ChangePassword, Handling
  <2>2. req' = [req EXCEPT ![s] = r]
    BY <1>0, <1>10 DEF ChangePassword, RequestTypes, MovedRequest
  <2>3. IsRequest(r) /\ r.stage = "turned" /\ r.sent = req[s].sent /\ r.op = "change"
    BY <2>1, MovedIsRequest DEF Stages
  <2> HIDE DEF r
  <2>4. all \in SUBSET Issued
    BY DEF Inv, RowsAreOfFamilies
  <2> HIDE DEF all
  <2>5. \A z \in Tabs : req'[z] = req[z] \/ req'[z].op # "refresh"
    BY <1>0, <2>2, <2>3 DEF RequestTypes
  <2>6. /\ RowTypes' /\ RowsAreOfFamilies' /\ OverIsIssued'
        /\ SignOutIsFinalUnlessRaced' /\ RefreshIsExcused'
        /\ raced' \in [Clients -> SUBSET AllRaces] /\ Issued' = Issued
    BY <2>1, <2>4, <2>5, EndingIsExcused
  <2>7. Types'
    BY <1>0, <2>1, <2>2, <2>3, <2>6 DEF Types, RequestTypes
  <2>8. TokensAreIssued'
    BY <1>0, <1>a, <2>1, <2>2, <2>3, <2>6 DEF Inv, TokensAreIssued, RequestTypes
  <2> QED BY <2>6, <2>7, <2>8 DEF Inv
<1>11. ASSUME NEW s \in Tabs, IssueChanged(s) PROVE Inv'
  <2>1. req[s].stage = "turned" /\ Issue(s, req[s].to, 0) /\ UNCHANGED <<cookie, over, raced>>
    BY <1>11 DEF IssueChanged, Handling
  <2>2. 0 \notin over
    BY IssuedAreTokens DEF Inv, OverIsIssued
  <2>3. raced' \in [Clients -> SUBSET AllRaces] /\ \A c \in Clients : raced[c] \subseteq raced'[c]
    BY <1>0, <2>1 DEF Types
  <2> QED BY <2>1, <2>2, <2>3, IssuingIsExcused
<1>12. ASSUME NEW s \in Tabs, Logout(s) PROVE Inv'
  <2> DEFINE r == [req[s] EXCEPT !.stage = "clear"]
             f == family[req[s].sent]
             c == ClientOf[s]
             left == {t \in OfFamilies({f}) : state[t] = "live"} \ {req[s].sent}
             missed == {x \in {"fork"} : left # {}} \cup {x \in {"desktop"} : c \in native}
             b == [d \in Clients |-> IF d = c THEN missed ELSE {}]
  <2>1. /\ IsRequest(req[s]) /\ req[s].stage = "sent" /\ req[s].op = "logout"
        /\ state' = Revoke(LoggedOut(s)) /\ End({f}) /\ Note(EndRaces({f}), b)
        /\ UNCHANGED <<family, device, cookie>>
    BY <1>0, <1>12 DEF Logout, Handling
  <2>2. req' = [req EXCEPT ![s] = r]
    BY <1>0, <1>12 DEF Logout, RequestTypes
  <2>3. IsRequest(r) /\ r.stage = "clear" /\ r.sent = req[s].sent /\ r.op = "logout"
    BY <2>1 DEF IsRequest, Stages
  <2> HIDE DEF r
  <2>4. req[s].sent \in Issued /\ device[req[s].sent] = c /\ f \in Issued /\ device[f] = c
    BY <1>a, <2>1 DEF Inv, RowsAreOfFamilies
  <2>5. \A z \in Tabs : req'[z] = req[z] \/ req'[z].op # "refresh"
    BY <1>0, <2>2, <2>3 DEF RequestTypes
  <2>6. ASSUME NEW t \in Issued, family[t] \in {f}, state[t] = "live", t \notin LoggedOut(s)
        PROVE  b[device[t]] \cap Reasons # {}
    <3>1. device[t] = c /\ c \in Clients
      BY <1>0, <2>4, <2>6 DEF Inv, RowsAreOfFamilies
    <3>2. CASE t = req[s].sent
      <4>1. c \in native
        BY <1>0, <2>6, <3>2 DEF LoggedOut, Browsers
      <4> QED BY <3>1, <4>1 DEF Reasons
    <3>3. CASE t # req[s].sent
      <4>1. t \in left
        BY <2>6, <3>3 DEF OfFamilies
      <4> QED BY <3>1, <4>1 DEF Reasons
    <3> QED BY <3>2, <3>3
  <2> HIDE DEF f, b
  <2>7. /\ RowTypes' /\ RowsAreOfFamilies' /\ OverIsIssued'
        /\ SignOutIsFinalUnlessRaced' /\ RefreshIsExcused'
        /\ raced' \in [Clients -> SUBSET AllRaces] /\ Issued' = Issued
    BY <2>1, <2>4, <2>5, <2>6, EndingIsExcused
  <2>8. Types'
    BY <1>0, <2>1, <2>2, <2>3, <2>7 DEF Types, RequestTypes
  <2>9. TokensAreIssued'
    BY <1>0, <1>a, <2>1, <2>2, <2>3, <2>7 DEF Inv, TokensAreIssued, RequestTypes
  <2> QED BY <2>7, <2>8, <2>9 DEF Inv
<1>13. ASSUME NEW fs \in SUBSET Issued, NEW ts, state' = Revoke(ts), End(fs),
              Note(EndRaces(fs), NoRace), UNCHANGED <<family, device, cookie, req>>,
              \A t \in Issued : family[t] \in fs => t \in ts
       PROVE  Inv'
  <2>1. /\ RowTypes' /\ RowsAreOfFamilies' /\ OverIsIssued'
        /\ SignOutIsFinalUnlessRaced' /\ RefreshIsExcused'
        /\ raced' \in [Clients -> SUBSET AllRaces] /\ Issued' = Issued
    BY <1>13, EndingIsExcused
  <2>2. Types' /\ TokensAreIssued'
    BY <1>0, <1>13, <2>1 DEF Inv, Types, RequestTypes, TokensAreIssued
  <2> QED BY <2>1, <2>2 DEF Inv
<1>14. ASSUME NEW c \in Clients, NEW f \in Issued, RevokeFamily(c, f) PROVE Inv'
  BY <1>13, <1>14 DEF RevokeFamily, OfFamilies
<1>15. ASSUME NEW c \in Clients, RevokeOthers(c) PROVE Inv'
  <2> DEFINE fs == {family[t] : t \in Issued} \ {family[cookie[c]]}
  <2>1. fs \in SUBSET Issued
    BY DEF Inv, RowsAreOfFamilies
  <2>2. \A t \in Issued : family[t] \in fs => t \in Others(c)
    BY DEF Others
  <2>3. /\ state' = Revoke(Others(c)) /\ End(fs) /\ Note(EndRaces(fs), NoRace)
        /\ UNCHANGED <<family, device, cookie, req>>
    BY <1>15 DEF RevokeOthers
  <2> HIDE DEF fs
  <2> QED BY <1>13, <2>1, <2>2, <2>3
<1>16. ASSUME RevokeAll \/ \E o \in Orgs : RemoveMember(o) PROVE Inv'
  <2> DEFINE all == {family[t] : t \in Issued}
  <2>1. all \in SUBSET Issued
    BY DEF Inv, RowsAreOfFamilies
  <2>2. /\ state' = Revoke(Issued) /\ End(all) /\ Note(EndRaces(all), NoRace)
        /\ UNCHANGED <<family, device, cookie, req>>
    BY <1>16 DEF RevokeAll, RemoveMember
  <2> HIDE DEF all
  <2> QED BY <1>13, <2>1, <2>2
<1>17. ASSUME NEW s \in Tabs, SetCookies(s) PROVE Inv'
  <2>1. /\ req[s].stage = "set" /\ cookie' = [cookie EXCEPT ![ClientOf[s]] = req[s].new]
        /\ req' = [req EXCEPT ![s] = Idle] /\ UNCHANGED <<state, family, device, over, raced>>
    BY <1>17 DEF SetCookies
  <2>2. req[s].new \in Issued /\ device[req[s].new] = ClientOf[s]
    BY <2>1 DEF Inv, TokensAreIssued
  <2>3. raced' \in [Clients -> SUBSET AllRaces] /\ \A d \in Clients : raced[d] \subseteq raced'[d]
    BY <1>0, <2>1 DEF Types
  <2>4. /\ RowTypes' /\ RowsAreOfFamilies' /\ OverIsIssued' /\ SignOutIsFinalUnlessRaced'
        /\ Issued' = Issued
    BY <2>1, <2>3, RowsStay
  <2>5. Types'
    BY <1>0, <2>1, <2>2, <2>4, IdleIsRequest, IssuedAreTokens DEF Types, RequestTypes
  <2>6. TokensAreIssued'
    BY <1>0, <2>1, <2>2, <2>4, IdleIsRequest DEF Inv, TokensAreIssued, Types, RequestTypes
  <2>7. RefreshIsExcused'
    BY <1>0, <2>1 DEF Inv, RefreshIsExcused, RequestTypes, Idle, Excused
  <2> QED BY <2>4, <2>5, <2>6, <2>7 DEF Inv
<1>18. ASSUME NEW s \in Tabs, ClearCookies(s) PROVE Inv'
  <2>1. /\ cookie' = [cookie EXCEPT ![ClientOf[s]] = 0]
        /\ req' = [req EXCEPT ![s] = Idle] /\ UNCHANGED <<state, family, device, over>>
    BY <1>18 DEF ClearCookies
  <2>3. raced' \in [Clients -> SUBSET AllRaces] /\ \A d \in Clients : raced[d] \subseteq raced'[d]
    BY <1>0, <1>18, NotedIsKept DEF ClearCookies, Types
  <2>4. /\ RowTypes' /\ RowsAreOfFamilies' /\ OverIsIssued' /\ SignOutIsFinalUnlessRaced'
        /\ Issued' = Issued /\ \A d \in Clients : Excused(d, Reasons) => Excused(d, Reasons)'
    BY <2>1, <2>3, RowsStay
  <2>5. Types'
    BY <1>0, <2>1, <2>3, <2>4, IdleIsRequest DEF Types, RequestTypes
  <2>6. TokensAreIssued'
    BY <1>0, <2>1, <2>4, IdleIsRequest DEF Inv, TokensAreIssued, Types, RequestTypes
  <2>7. RefreshIsExcused'
    BY <1>0, <2>1, <2>4 DEF Inv, RefreshIsExcused, RequestTypes, Idle
  <2> QED BY <2>4, <2>5, <2>6, <2>7 DEF Inv
<1>19. ASSUME NEW s \in Tabs, Lose(s) PROVE Inv'
  <2>1. req' = [req EXCEPT ![s] = Idle] /\ UNCHANGED <<state, family, device, cookie, over, raced>>
    BY <1>19 DEF Lose
  <2> QED BY <1>0, <2>1, IdleIsRequest, RowsStay, RequestMoves DEF Types, Idle
<1>20. ASSUME NEW c \in Clients, SignInAgain(c) PROVE Inv'
  <2> DEFINE n == NextToken
  <2>1. /\ n \in Tokens /\ n \notin Issued
        /\ state' = [state EXCEPT ![n] = "live"] /\ family' = [family EXCEPT ![n] = n]
        /\ device' = [device EXCEPT ![n] = c] /\ cookie' = [cookie EXCEPT ![c] = n]
        /\ UNCHANGED <<req, over, raced>>
    BY <1>20 DEF SignInAgain
  <2> HIDE DEF n
  <2>2. RowTypes' /\ Issued' = Issued \cup {n}
    BY <1>0, <2>1 DEF RowTypes, Issued, States
  <2>3. \A t \in Issued : t # n /\ t \in Tokens /\ family'[t] = family[t] /\ device'[t] = device[t]
                          /\ state'[t] = state[t]
    BY <1>0, <2>1 DEF RowTypes, Issued
  <2>4. family'[n] = n /\ device'[n] = c /\ n \notin over
    BY <1>0, <2>1 DEF RowTypes, Inv, OverIsIssued
  <2>5. Types'
    BY <1>0, <2>1, <2>2 DEF Types, RequestTypes
  <2>6. RowsAreOfFamilies' /\ OverIsIssued'
    BY <2>1, <2>2, <2>3, <2>4 DEF Inv, RowsAreOfFamilies, OverIsIssued
  <2>7. TokensAreIssued'
    <3>1. \A d \in Clients : cookie'[d] # 0 => cookie'[d] \in Issued' /\ device'[cookie'[d]] = d
      BY <1>0, <2>1, <2>2, <2>3, <2>4 DEF Inv, TokensAreIssued, Types
    <3>2. \A s \in Tabs : req[s].stage # "idle" => device'[req[s].sent] = ClientOf[s] /\ req[s].sent \in Issued'
      BY <1>a, <2>2, <2>3
    <3>3. \A s \in Tabs : req[s].stage = "set" => device'[req[s].new] = ClientOf[s] /\ req[s].new \in Issued'
      BY <2>2, <2>3 DEF Inv, TokensAreIssued
    <3> QED BY <2>1, <3>1, <3>2, <3>3 DEF TokensAreIssued
  <2>8. RefreshIsExcused'
    BY <1>a, <2>1, <2>3 DEF Inv, RefreshIsExcused, Excused
  <2>9. SignOutIsFinalUnlessRaced'
    BY <2>1, <2>2, <2>3, <2>4 DEF Inv, SignOutIsFinalUnlessRaced, Excused, Usable
  <2> QED BY <2>5, <2>6, <2>7, <2>8, <2>9 DEF Inv
<1>21. CASE UNCHANGED vars
  <2>1. /\ UNCHANGED <<state, family, device, cookie, req, over, raced>>
    BY <1>21 DEF vars
  <2> QED BY <2>1 DEF Inv, Types, RowTypes, RequestTypes, RowsAreOfFamilies, TokensAreIssued,
                    OverIsIssued, RefreshIsExcused, SignOutIsFinalUnlessRaced, Issued, Excused, Usable
<1>22. ASSUME NEW s \in Tabs, SendRefresh(s) \/ SendChange(s) \/ SendLogout(s)
                              \/ \E o \in Orgs : SendSwitch(s, o)
       PROVE  Inv'
  BY <1>1, <1>22 DEF SendRefresh, SendChange, SendLogout, SendSwitch, Ops
<1> QED BY <1>2, <1>3, <1>4, <1>5, <1>6, <1>7, <1>8, <1>9, <1>10, <1>11, <1>12, <1>14, <1>15,
           <1>16, <1>17, <1>18, <1>19, <1>20, <1>21, <1>22 DEF Next

-----------------------------------------------------------------------------
\* No token of a family that was ended on purpose can be traded for a session
\* unless one of the five races the property names has touched its client.
THEOREM SignOutIsFinalUnlessRacedHolds == Spec => []SignOutIsFinalUnlessRaced
<1>1. Inv => SignOutIsFinalUnlessRaced
  BY DEF Inv
<1> QED BY <1>1, InvInit, NextPreservesInv, PTL DEF Spec

-----------------------------------------------------------------------------
(* Stamping and expiry.                                                      *)

LEMMA EndedStaysEnded ==
  ASSUME Inv, Next, NEW t \in Tokens, state[t] = "ended" PROVE state'[t] = "ended"
<1> USE DEF Inv, Types, RowTypes
<1>1. ASSUME NEW ts, state' = Revoke(ts) PROVE state'[t] = "ended"
  BY <1>1, RevokeEnds
<1>2. ASSUME NEW s \in Tabs, NEW o, NEW continuing, Issue(s, o, continuing) PROVE state'[t] = "ended"
  BY <1>2 DEF Issue, Issued
<1>3. ASSUME NEW s \in Tabs, RotateToken(s) PROVE state'[t] = "ended"
  BY <1>3 DEF RotateToken, Stamp
<1>4. ASSUME NEW u \in Tokens, GraceElapses(u) PROVE state'[t] = "ended"
  BY <1>4 DEF GraceElapses
<1>5. ASSUME NEW c \in Clients, SignInAgain(c) PROVE state'[t] = "ended"
  BY <1>5 DEF SignInAgain, Issued
<1>6. ASSUME UNCHANGED state PROVE state'[t] = "ended"
  BY <1>6
<1>7. ASSUME NEW s \in Tabs,
             \/ IssueRefreshed(s) \/ IssueSwitched(s) \/ IssueChanged(s)
      PROVE  state'[t] = "ended"
  BY <1>2, <1>7 DEF IssueRefreshed, IssueSwitched, IssueChanged
<1>8. ASSUME NEW s \in Tabs, ChangePassword(s) \/ Logout(s) PROVE state'[t] = "ended"
  BY <1>1, <1>8 DEF ChangePassword, Logout
<1>9. ASSUME NEW s \in Tabs,
             \/ SendRefresh(s) \/ SendChange(s) \/ SendLogout(s) \/ (\E o \in Orgs : SendSwitch(s, o))
             \/ FindToken(s) \/ RefuseToken(s) \/ IssueFails(s) \/ FindMembership(s)
             \/ SetCookies(s) \/ ClearCookies(s) \/ Lose(s)
      PROVE  state'[t] = "ended"
  BY <1>6, <1>9 DEF SendRefresh, SendChange, SendLogout, SendSwitch, Send, FindToken, RefuseToken,
                    IssueFails, FindMembership, SetCookies, ClearCookies, Lose, tokenVars
<1>10. ASSUME RevokeAll \/ (\E o \in Orgs : RemoveMember(o))
              \/ (\E c \in Clients : RevokeOthers(c) \/ \E f \in Issued : RevokeFamily(c, f))
       PROVE  state'[t] = "ended"
  BY <1>1, <1>10 DEF RevokeAll, RemoveMember, RevokeOthers, RevokeFamily
<1> QED BY <1>3, <1>4, <1>5, <1>7, <1>8, <1>9, <1>10 DEF Next

\* A row that was expired is expired for good: no refresh, sign-out or
\* revocation that stamps it afterwards makes it usable again.
THEOREM ExpiredForGoodHolds == Spec => ExpiredForGood
<1>1. Inv /\ [Next]_vars => [\A t \in Tokens : state[t] = "ended" => state'[t] = "ended"]_vars
  BY EndedStaysEnded
<1> QED BY <1>1, InvInit, NextPreservesInv, PTL DEF Spec, ExpiredForGood

-----------------------------------------------------------------------------
(* Types: the variables Inv leaves out, and what a request says.             *)

RestTypes ==
  /\ native \subseteq Clients
  /\ members \in SUBSET Orgs /\ members # {} /\ lastActive \in Orgs
  /\ org = [t \in Tokens |-> org[t]] /\ \A t \in Issued : org[t] \in Orgs
  /\ \A s \in Tabs : req[s] = Idle \/ (req[s].op \in Ops /\ req[s].stage \in Stages)
  /\ \A s \in Tabs : req[s].stage \in {"found", "turned"} => req[s].to \in Orgs
  /\ raced \in [Clients -> SUBSET Races]

\* The oldest membership, and so the workspace a session is resolved to, exists.
LEMMA ResolveIsMember ==
  ASSUME members \in SUBSET Orgs, members # {}, NEW preferred
  PROVE  Resolve(preferred) \in members
<1>1. IsWellFoundedOn(OpToRel(<, Nat), Nat)
  BY NatLessThanWellFounded
<1>2. members \subseteq Nat
  BY OrgsAssumption
<1>3. PICK x \in members : \A y \in members : ~(<<y, x>> \in OpToRel(<, Nat))
  BY <1>1, <1>2, WFMin
<1>4. \A y \in members : ~(y < x)
  BY <1>2, <1>3 DEF OpToRel
<1>5. \A y \in members : x <= y
  BY <1>2, <1>4
<1>6. Fallback \in members
  BY <1>5 DEF Fallback
<1> QED BY <1>6 DEF Resolve

LEMMA NoteType ==
  ASSUME NEW a, NEW b, Note(a, b)
  PROVE  raced' \in [Clients -> SUBSET Races]
<1>1. raced' = [c \in Clients |-> raced[c] \cup a[c] \cup b[c]]
  BY DEF Note
<1>2. \A c \in Clients : raced'[c] \subseteq Races
  BY DEF Note
<1> QED BY <1>1, <1>2

LEMMA IssueTypes ==
  ASSUME Inv, RestTypes, NEW s \in Tabs, NEW o \in Orgs, NEW continuing,
         req[s].stage = "turned", Issue(s, o, continuing)
  PROVE  /\ lastActive' \in Orgs
         /\ org' = [t \in Tokens |-> org'[t]] /\ \A t \in Issued' : org'[t] \in Orgs
         /\ \A z \in Tabs : req'[z] = Idle \/ (req'[z].op \in Ops /\ req'[z].stage \in Stages)
         /\ \A z \in Tabs : req'[z].stage \in {"found", "turned"} => req'[z].to \in Orgs
<1> USE DEF Inv, Types, RowTypes, RequestTypes, RestTypes
<1>1. /\ NextToken \in Tokens /\ lastActive' = o
      /\ state' = [state EXCEPT ![NextToken] = "live"] /\ org' = [org EXCEPT ![NextToken] = o]
      /\ req' = [req EXCEPT ![s].stage = "set", ![s].new = NextToken]
  BY DEF Issue
<1>2. Issued' = Issued \cup {NextToken}
  BY <1>1 DEF Issued
<1>3. org' = [t \in Tokens |-> org'[t]] /\ \A t \in Issued' : org'[t] \in Orgs
  BY <1>1, <1>2 DEF Issued
<1>4. req[s].op \in Ops /\ IsRequest(req[s])
  <2>1. Idle.stage = "idle"
    BY DEF Idle
  <2> QED BY <2>1
<1>5. req'[s].op = req[s].op /\ req'[s].stage = "set" /\ \A z \in Tabs \ {s} : req'[z] = req[z]
  BY <1>1, <1>4 DEF IsRequest, Stages
<1> QED BY <1>1, <1>3, <1>4, <1>5 DEF Stages

LEMMA RestTypesNext ==
  ASSUME Inv, Inv', RestTypes, [Next]_vars
  PROVE  RestTypes'
<1> USE DEF Inv, Types, RowTypes, RequestTypes, tokenVars, historyVars
<1>0. /\ members \in SUBSET Orgs /\ members # {} /\ \A o \in {0} \cup Orgs : Resolve(o) \in Orgs
      /\ \A z : Resolve(z) \in members
  BY ResolveIsMember DEF RestTypes
<1>1. ASSUME NEW s \in Tabs, NEW op \in Ops, NEW o, Send(s, op, o) PROVE RestTypes'
  <2> DEFINE r == SentRequest(op, cookie[ClientOf[s]], o)
  <2>1. r.stage = "sent" /\ IsRequest(r) /\ r.op = op
    <3>1. r.op = op
      BY DEF SentRequest, Idle
    <3> QED BY <3>1, SentIsRequest
  <2>2. req' = [req EXCEPT ![s] = r] /\ UNCHANGED <<native, state, org, members, lastActive>>
    BY <1>1 DEF Send, SentRequest
  <2>3. raced' \in [Clients -> SUBSET Races]
    BY <1>1, NoteType DEF Send, RestTypes
  <2> HIDE DEF r
  <2> QED BY <2>1, <2>2, <2>3 DEF RestTypes, Stages, Issued
<1>2. ASSUME NEW s \in Tabs, FindToken(s) PROVE RestTypes'
  <2> DEFINE r == FoundRequest(req[s], state[req[s].sent] = "live", Resolve(org[req[s].sent]))
  <2>1. /\ req[s].op = "refresh" /\ UNCHANGED <<native, state, org, members, lastActive, raced>>
        /\ req' = [req EXCEPT ![s] = r]
    BY <1>2 DEF FindToken, Handling, FoundRequest
  <2>2. r.stage = "found" /\ r.op = req[s].op /\ r.to = Resolve(org[req[s].sent])
    BY FoundIsRequest
  <2> HIDE DEF r
  <2> QED BY <1>0, <2>1, <2>2 DEF RestTypes, Stages, Ops, Issued
<1>3. ASSUME NEW s \in Tabs, RefuseToken(s) \/ RotateToken(s) PROVE RestTypes'
  <2>1. /\ req[s].stage \in {"sent", "found"} /\ req[s].op = "refresh"
        /\ \/ req' = [req EXCEPT ![s].stage = "clear"]
           \/ req[s].stage = "found" /\ req' = [req EXCEPT ![s].stage = "turned"]
        /\ UNCHANGED <<native, org, members, lastActive, raced>>
    BY <1>3 DEF RefuseToken, RotateToken, Handling
  <2>2. Issued' = Issued
    BY <1>3 DEF RefuseToken, RotateToken, Stamp, Issued, Handling, TokensAreIssued
  <2>3. IsRequest(req[s])
    OBVIOUS
  <2>4. /\ req'[s].op = "refresh" /\ req'[s].stage \in {"clear", "turned"}
        /\ req'[s].stage = "turned" => req[s].stage = "found" /\ req'[s].to = req[s].to
        /\ \A z \in Tabs \ {s} : req'[z] = req[z]
    BY <2>1, <2>3 DEF IsRequest
  <2> QED BY <2>1, <2>2, <2>4 DEF RestTypes, Stages, Ops
<1>4. ASSUME NEW s \in Tabs, NEW o \in Orgs, NEW continuing, req[s].stage = "turned",
             Issue(s, o, continuing), UNCHANGED <<native, members>>,
             raced' \in [Clients -> SUBSET Races]
      PROVE  RestTypes'
  BY <1>4, IssueTypes DEF RestTypes
<1>5. ASSUME NEW s \in Tabs, IssueRefreshed(s) \/ IssueSwitched(s) \/ IssueChanged(s) PROVE RestTypes'
  <2>1. req[s].stage = "turned" /\ UNCHANGED <<native, members>>
    BY <1>5 DEF IssueRefreshed, IssueSwitched, IssueChanged, Handling
  <2>2. req[s].to \in Orgs
    BY <2>1 DEF RestTypes
  <2>3. raced' \in [Clients -> SUBSET Races]
    BY <1>5, NoteType DEF IssueRefreshed, IssueSwitched, IssueChanged, RestTypes
  <2>4. \E continuing : Issue(s, req[s].to, continuing)
    BY <1>5 DEF IssueRefreshed, IssueSwitched, IssueChanged
  <2> QED BY <1>4, <2>1, <2>2, <2>3, <2>4
<1>6. ASSUME NEW s \in Tabs, req' = [req EXCEPT ![s] = Idle], Issued' = Issued,
             UNCHANGED <<native, org, members, lastActive>>, raced' \in [Clients -> SUBSET Races]
      PROVE  RestTypes'
  BY <1>6 DEF RestTypes, Idle
<1>7. ASSUME NEW s \in Tabs, IssueFails(s) \/ SetCookies(s) \/ ClearCookies(s) \/ Lose(s) PROVE RestTypes'
  <2>1. /\ req' = [req EXCEPT ![s] = Idle] /\ Issued' = Issued
        /\ UNCHANGED <<native, org, members, lastActive>>
    BY <1>7 DEF IssueFails, SetCookies, ClearCookies, Lose, Issued
  <2>2. raced' \in [Clients -> SUBSET Races]
    BY <1>7, NoteType DEF IssueFails, SetCookies, ClearCookies, Lose, RestTypes
  <2> QED BY <1>6, <2>1, <2>2
<1>8. ASSUME NEW t \in Tokens, GraceElapses(t) PROVE RestTypes'
  <2>1. raced' \in [Clients -> SUBSET Races]
    BY <1>8, NoteType DEF GraceElapses, RestTypes
  <2>2. Issued' = Issued /\ UNCHANGED <<native, org, members, lastActive, req>>
    BY <1>8 DEF GraceElapses, Issued
  <2> QED BY <2>1, <2>2 DEF RestTypes
<1>9. ASSUME NEW s \in Tabs, FindMembership(s) PROVE RestTypes'
  <2>1. /\ req[s].op = "switch" /\ UNCHANGED <<native, state, org, members, lastActive, raced>>
        /\ \/ req[s].to \in members /\ req' = [req EXCEPT ![s].stage = "turned"]
           \/ req' = [req EXCEPT ![s] = Idle]
    BY <1>9 DEF FindMembership, Handling
  <2>2. Issued' = Issued /\ raced' \in [Clients -> SUBSET Races] /\ IsRequest(req[s])
    BY <2>1 DEF Issued, RestTypes
  <2>3. CASE req[s].to \in members /\ req' = [req EXCEPT ![s].stage = "turned"]
    <3>1. /\ req'[s].op = "switch" /\ req'[s].stage = "turned" /\ req'[s].to = req[s].to
          /\ \A z \in Tabs \ {s} : req'[z] = req[z]
      BY <2>1, <2>2, <2>3 DEF IsRequest
    <3> QED BY <1>0, <2>1, <2>2, <2>3, <3>1 DEF RestTypes, Stages, Ops
  <2> QED BY <1>6, <2>1, <2>2, <2>3
<1>10. ASSUME NEW s \in Tabs, ChangePassword(s) PROVE RestTypes'
  <2> DEFINE r == MovedRequest(req[s], "turned", Resolve(org[req[s].sent]))
  <2>1. /\ req[s].op = "change" /\ UNCHANGED <<native, org, members, lastActive>>
        /\ req' = [req EXCEPT ![s] = r] /\ state' = Revoke(Issued)
    BY <1>10 DEF ChangePassword, Handling, MovedRequest
  <2>2. r.stage = "turned" /\ r.op = req[s].op /\ r.to = Resolve(org[req[s].sent])
    BY MovedIsRequest DEF Stages
  <2>3. raced' \in [Clients -> SUBSET Races]
    BY <1>10, NoteType DEF ChangePassword
  <2>4. Issued' = Issued
    BY <2>1, RevokeEnds DEF Issued
  <2> HIDE DEF r
  <2> QED BY <1>0, <2>1, <2>2, <2>3, <2>4 DEF RestTypes, Stages, Ops
<1>11. ASSUME NEW s \in Tabs, Logout(s) PROVE RestTypes'
  <2>1. /\ req[s].op = "logout" /\ UNCHANGED <<native, org, members, lastActive>>
        /\ req' = [req EXCEPT ![s].stage = "clear"] /\ state' = Revoke(LoggedOut(s))
    BY <1>11 DEF Logout, Handling
  <2>2. raced' \in [Clients -> SUBSET Races]
    BY <1>11, NoteType DEF Logout
  <2>3. Issued' = Issued /\ IsRequest(req[s])
    BY <2>1, RevokeEnds DEF Issued
  <2>4. req'[s].op = "logout" /\ req'[s].stage = "clear" /\ \A z \in Tabs \ {s} : req'[z] = req[z]
    BY <2>1, <2>3 DEF IsRequest
  <2> QED BY <2>1, <2>2, <2>3, <2>4 DEF RestTypes, Stages, Ops
<1>12. ASSUME RevokeAll \/ (\E o \in Orgs : RemoveMember(o))
              \/ (\E c \in Clients : RevokeOthers(c) \/ \E f \in Issued : RevokeFamily(c, f))
       PROVE  RestTypes'
  <2>1. /\ UNCHANGED <<native, org, lastActive, req>> /\ \E ts : state' = Revoke(ts)
        /\ members' \in SUBSET Orgs /\ members' # {}
    BY <1>0, <1>12 DEF RevokeAll, RemoveMember, RevokeOthers, RevokeFamily
  <2>2. raced' \in [Clients -> SUBSET Races]
    BY <1>12, NoteType DEF RevokeAll, RemoveMember, RevokeOthers, RevokeFamily
  <2>3. Issued' = Issued
    BY <2>1, RevokeEnds DEF Issued
  <2> QED BY <2>1, <2>2, <2>3 DEF RestTypes
<1>13. ASSUME NEW c \in Clients, SignInAgain(c) PROVE RestTypes'
  <2> DEFINE n == NextToken
             o == Resolve(lastActive)
  <2>1. /\ n \in Tokens /\ state' = [state EXCEPT ![n] = "live"] /\ org' = [org EXCEPT ![n] = o]
        /\ lastActive' = o /\ UNCHANGED <<native, req, members, raced>>
    BY <1>13 DEF SignInAgain
  <2>2. o \in Orgs
    BY <1>0
  <2> HIDE DEF n, o
  <2>3. Issued' = Issued \cup {n}
    BY <2>1 DEF Issued
  <2> QED BY <2>1, <2>2, <2>3 DEF RestTypes, Issued
<1>14. CASE UNCHANGED vars
  BY <1>14 DEF vars, RestTypes, Issued
<1>15. ASSUME NEW s \in Tabs, SendRefresh(s) \/ SendChange(s) \/ SendLogout(s)
                              \/ \E o \in Orgs : SendSwitch(s, o)
       PROVE  RestTypes'
  BY <1>1, <1>15 DEF SendRefresh, SendChange, SendLogout, SendSwitch, Ops
<1> QED BY <1>2, <1>3, <1>5, <1>7, <1>8, <1>9, <1>10, <1>11, <1>12, <1>13, <1>14, <1>15 DEF Next

LEMMA RestTypesInit == Init => RestTypes
<1> SUFFICES ASSUME Init PROVE RestTypes
  OBVIOUS
<1>1. native \subseteq Clients
  BY ClientsAssumption DEF Init, Range
<1>2. Idle.stage = "idle"
  BY DEF Idle
<1>3. Issued = Range(FirstToken) /\ Range(FirstToken) \subseteq Tokens
  BY ClientsAssumption DEF Init, Issued, Range, Tokens
<1> QED BY <1>1, <1>2, <1>3, OrgsAssumption DEF Init, RestTypes

\* Every row, cookie and request stays what the code says it is, and the user's
\* last membership is never taken.
THEOREM TypeCorrect == Spec => []TypeOK
<1>1. Inv /\ RestTypes => TypeOK
  <2> SUFFICES ASSUME Inv, RestTypes PROVE TypeOK
    OBVIOUS
  <2> USE DEF Inv, Types, RowTypes, RestTypes
  <2>1. \A t \in Issued : family[t] \in Issued /\ org[t] \in Orgs /\ device[t] \in Clients
    BY DEF RowsAreOfFamilies, Issued
  <2>2. cookie \in [Clients -> {0} \cup Tokens] /\ \A c \in Clients : cookie[c] \in {0} \cup Issued
    BY DEF TokensAreIssued
  <2>3. \A s \in Tabs : req[s] # Idle =>
          /\ req[s].op \in Ops /\ req[s].stage \in Stages /\ req[s].sent \in Issued
          /\ req[s].stage = "set" => req[s].new \in Issued
    BY DEF TokensAreIssued, Stages
  <2> QED BY <2>1, <2>2, <2>3 DEF TypeOK, States, OverIsIssued
<1>2. Inv /\ RestTypes /\ [Next]_vars => Inv' /\ RestTypes'
  BY NextPreservesInv, RestTypesNext
<1> QED BY <1>1, <1>2, InvInit, RestTypesInit, PTL DEF Spec

-----------------------------------------------------------------------------
(* What a step does to a request, a row and a client, one at a time.         *)

\* It leaves the client, with the token the client holds.
SendsOff(s) ==
  LET c == ClientOf[s] IN
  /\ req[s] = Idle /\ cookie[c] # 0
  /\ req'[s].stage = "sent" /\ req'[s].sent = cookie[c] /\ req'[s].op \in Ops
  /\ Overlaps(c, req'[s].op) => "overlap" \in raced'[c]
  /\ \A z \in Tabs \ {s} : req'[z] = req[z]
  /\ UNCHANGED <<cookie, mine, chosen, members, org>>

\* The API handles it: what it was sent with stays.
Finds(s) ==
  /\ req[s].op = "refresh" /\ req[s].stage = "sent"
  /\ req'[s].stage = "found" /\ req'[s].to = Resolve(org[req[s].sent])
Turns(s) ==
  /\ req[s].op = "refresh" /\ req[s].stage = "found"
  /\ req'[s].stage = "turned" /\ req'[s].to = req[s].to
Prepares(s) ==
  /\ req[s].op \in {"switch", "change"} /\ req[s].stage = "sent" /\ req'[s].stage = "turned"
Refuses(s) ==
  /\ req[s].stage = "sent" /\ req'[s].stage = "clear"
  /\ family[req[s].sent] \in over' \/ ~Usable(req[s].sent)
Issues(s) ==
  /\ req[s].stage = "turned" /\ req'[s].stage = "set"
  /\ req'[s].new \notin Issued /\ req'[s].new \in Issued'
  /\ state'[req'[s].new] = "live" /\ org'[req'[s].new] = req[s].to
HandledBy(s) ==
  /\ req[s].stage # "idle" /\ req[s] # Idle /\ req'[s].sent = req[s].sent /\ req'[s].op = req[s].op
  /\ Finds(s) \/ Turns(s) \/ Prepares(s) \/ Refuses(s) \/ Issues(s)
  /\ \A z \in Tabs \ {s} : req'[z] = req[z]
  /\ UNCHANGED <<cookie, mine, chosen, members>>

RequestStep(s) == req'[s] = req[s] \/ req'[s] = Idle \/ SendsOff(s) \/ HandledBy(s)

\* A row is written once, and its standing changes for a reason.
Written(t) ==
  /\ t \in Issued' /\ family'[t] = family[t] /\ org'[t] = org[t]
  /\ state'[t] = "ended" => state[t] = "ended" \/ family[t] \in over'
  /\ state'[t] = "stale" => \/ state[t] = "stale"
                            \/ /\ state[t] = "rotated" /\ UNCHANGED <<cookie, req>>
                               /\ \A c \in Clients : cookie[c] = t => "slow" \in raced'[c]
  /\ state'[t] = "rotated" => \/ state[t] = "rotated"
                              \/ \E s \in Tabs : req[s].stage = "found" /\ req[s].sent = t
  /\ state'[t] = "live" => state[t] = "live"

\* What a client holds is what it was sent, nothing, or of a new sign-in.
Unmoved(c) == cookie'[c] = cookie[c] /\ mine'[c] = mine[c] /\ chosen'[c] = chosen[c]
Given(c) ==
  \E s \in Tabs :
    /\ ClientOf[s] = c /\ req[s].stage = "set" /\ req' = [req EXCEPT ![s] = Idle]
    /\ cookie' = [cookie EXCEPT ![c] = req[s].new] /\ mine'[c] = family[req[s].new]
    /\ chosen'[c] = IF req[s].op = "refresh" THEN chosen[c] ELSE org[req[s].new]
    /\ UNCHANGED <<state, members>>
Emptied(c) ==
  \E s \in Tabs :
    /\ ClientOf[s] = c /\ req[s].stage = "clear" /\ req' = [req EXCEPT ![s] = Idle]
    /\ cookie' = [cookie EXCEPT ![c] = 0] /\ mine'[c] = mine[c] /\ chosen'[c] = chosen[c]
    /\ cookie[c] \in {0, req[s].sent} \/ "lateClear" \in raced'[c]
Again(c) ==
  \E n \in Tokens \ Issued :
    /\ cookie' = [cookie EXCEPT ![c] = n] /\ mine'[c] = n /\ family'[n] = n
    /\ state'[n] = "live" /\ org'[n] = chosen'[c]
    /\ \A s \in Tabs : ClientOf[s] = c => req[s] = Idle
    /\ UNCHANGED req
ClientStep(c) == Unmoved(c) \/ Given(c) \/ Emptied(c) \/ Again(c)

\* Every step does to each request one of the things above.
LEMMA StepOfRequests ==
  ASSUME Inv, RestTypes, [Next]_vars
  PROVE  \A s \in Tabs : RequestStep(s)
<1> SUFFICES ASSUME NEW x \in Tabs PROVE RequestStep(x)
  OBVIOUS
<1> USE DEF tokenVars, historyVars
<1>0. /\ Types /\ req = [s \in Tabs |-> req[s]] /\ \A s \in Tabs : IsRequest(req[s]) /\ ClientOf[s] \in Clients
      /\ Idle.stage = "idle"
  BY ClientsAssumption DEF Inv, Types, RequestTypes, Idle
<1>a. ASSUME NEW s \in Tabs, NEW r, req' = [req EXCEPT ![s] = r], RequestStep(s) PROVE RequestStep(x)
  BY <1>0, <1>a DEF RequestStep
<1>1. ASSUME NEW s \in Tabs, NEW op \in Ops, NEW o, Send(s, op, o) PROVE RequestStep(x)
  <2> DEFINE c == ClientOf[s]
             r == SentRequest(op, cookie[c], o)
  <2>1. r.op = op /\ r.stage = "sent" /\ r.sent = cookie[c]
    <3>1. r.op = op
      BY DEF SentRequest, Idle
    <3> QED BY <3>1, SentIsRequest
  <2>2. req' = [req EXCEPT ![s] = r] /\ req[s] = Idle /\ cookie[c] # 0
    BY <1>1 DEF Send, SentRequest
  <2>3. UNCHANGED <<cookie, mine, chosen, members, org>>
    BY <1>1 DEF Send
  <2>4. ASSUME Overlaps(c, op) PROVE "overlap" \in raced'[c]
    <3>1. Note(Racing({c}, "overlap"), NoRace)
      BY <1>1, <2>4 DEF Send
    <3>2. \A d \in Clients : raced'[d] = raced[d] \cup Racing({c}, "overlap")[d] \cup NoRace[d]
      BY <1>0, <3>1, NotedIsKept
    <3> QED BY <1>0, <3>2 DEF Racing
  <2> HIDE DEF r
  <2>5. req'[s] = r /\ \A z \in Tabs \ {s} : req'[z] = req[z]
    BY <1>0, <2>2
  <2>6. SendsOff(s)
    BY <2>1, <2>2, <2>3, <2>4, <2>5 DEF SendsOff
  <2> QED BY <1>a, <2>2, <2>6 DEF RequestStep
<1>2. ASSUME NEW s \in Tabs, FindToken(s) PROVE RequestStep(x)
  <2> DEFINE r == FoundRequest(req[s], state[req[s].sent] = "live", Resolve(org[req[s].sent]))
  <2>1. /\ req[s].stage = "sent" /\ req[s].op = "refresh" /\ IsRequest(req[s])
        /\ UNCHANGED <<cookie, mine, chosen, members>>
    BY <1>0, <1>2 DEF FindToken, Handling
  <2>2. req' = [req EXCEPT ![s] = r]
    BY <1>0, <1>2 DEF FindToken, FoundRequest
  <2>3. r.stage = "found" /\ r.sent = req[s].sent /\ r.op = req[s].op /\ r.to = Resolve(org[req[s].sent])
    BY <2>1, FoundIsRequest
  <2> HIDE DEF r
  <2>4. req'[s] = r /\ \A z \in Tabs \ {s} : req'[z] = req[z]
    BY <1>0, <2>2
  <2>5. HandledBy(s)
    BY <1>0, <2>1, <2>3, <2>4 DEF HandledBy, Finds
  <2> QED BY <1>a, <2>2, <2>5 DEF RequestStep
\* One field of the request changes: its stage.
<1>b. ASSUME NEW s \in Tabs, NEW g \in Stages, req' = [req EXCEPT ![s].stage = g], req[s].stage # "idle"
      PROVE  /\ req[s] # Idle /\ req' = [req EXCEPT ![s] = req'[s]]
             /\ req'[s].stage = g /\ req'[s].sent = req[s].sent /\ req'[s].op = req[s].op
             /\ req'[s].to = req[s].to /\ \A z \in Tabs \ {s} : req'[z] = req[z]
  <2>1. IsRequest(req[s])
    BY <1>0
  <2> QED BY <1>0, <1>b, <2>1 DEF IsRequest
<1>3. ASSUME NEW s \in Tabs, RefuseToken(s) PROVE RequestStep(x)
  <2>1. /\ req[s].stage = "sent" /\ req' = [req EXCEPT ![s].stage = "clear"] /\ ~Usable(req[s].sent)
        /\ UNCHANGED <<cookie, mine, chosen, members>>
    BY <1>3 DEF RefuseToken, Handling
  <2>2. HandledBy(s)
    BY <1>b, <2>1 DEF HandledBy, Refuses, Stages
  <2> QED BY <1>a, <1>b, <2>1, <2>2 DEF RequestStep, Stages
<1>4. ASSUME NEW s \in Tabs, RotateToken(s) PROVE RequestStep(x)
  <2>1. /\ req[s].op = "refresh" /\ req[s].stage = "found" /\ req' = [req EXCEPT ![s].stage = "turned"]
        /\ UNCHANGED <<cookie, mine, chosen, members>>
    BY <1>4 DEF RotateToken, Handling
  <2>2. HandledBy(s)
    BY <1>b, <2>1 DEF HandledBy, Turns, Stages
  <2> QED BY <1>a, <1>b, <2>1, <2>2 DEF RequestStep, Stages
<1>5. ASSUME NEW s \in Tabs, req' = [req EXCEPT ![s] = Idle] PROVE RequestStep(x)
  BY <1>0, <1>5 DEF RequestStep
<1>6. ASSUME NEW s \in Tabs, FindMembership(s) PROVE RequestStep(x)
  <2>1. /\ req[s].op = "switch" /\ req[s].stage = "sent" /\ UNCHANGED <<cookie, mine, chosen, members>>
        /\ req' = [req EXCEPT ![s].stage = "turned"] \/ req' = [req EXCEPT ![s] = Idle]
    BY <1>6 DEF FindMembership, Handling
  <2>2. ASSUME req' = [req EXCEPT ![s].stage = "turned"] PROVE RequestStep(x)
    <3>1. HandledBy(s)
      BY <1>b, <2>1, <2>2 DEF HandledBy, Prepares, Stages
    <3> QED BY <1>a, <1>b, <2>1, <2>2, <3>1 DEF RequestStep, Stages
  <2> QED BY <1>5, <2>1, <2>2
<1>7. ASSUME NEW s \in Tabs, ChangePassword(s) PROVE RequestStep(x)
  <2> DEFINE r == MovedRequest(req[s], "turned", Resolve(org[req[s].sent]))
  <2>1. /\ IsRequest(req[s]) /\ req[s].stage = "sent" /\ req[s].op = "change"
        /\ UNCHANGED <<cookie, mine, chosen, members>>
    BY <1>0, <1>7 DEF ChangePassword, Handling
  <2>2. req' = [req EXCEPT ![s] = r]
    BY <1>0, <1>7 DEF ChangePassword, MovedRequest
  <2>3. r.stage = "turned" /\ r.sent = req[s].sent /\ r.op = "change"
    BY <2>1, MovedIsRequest DEF Stages
  <2> HIDE DEF r
  <2>4. req'[s] = r /\ \A z \in Tabs \ {s} : req'[z] = req[z]
    BY <1>0, <2>2
  <2>5. HandledBy(s)
    BY <1>0, <2>1, <2>3, <2>4 DEF HandledBy, Prepares
  <2> QED BY <1>a, <2>2, <2>5 DEF RequestStep
<1>8. ASSUME NEW s \in Tabs, Logout(s) PROVE RequestStep(x)
  <2>1. /\ req[s].stage = "sent" /\ req' = [req EXCEPT ![s].stage = "clear"]
        /\ family[req[s].sent] \in over' /\ UNCHANGED <<cookie, mine, chosen, members>>
    BY <1>8 DEF Logout, Handling, End
  <2>2. HandledBy(s)
    BY <1>b, <2>1 DEF HandledBy, Refuses, Stages
  <2> QED BY <1>a, <1>b, <2>1, <2>2 DEF RequestStep, Stages
<1>9. ASSUME NEW s \in Tabs, IssueRefreshed(s) \/ IssueSwitched(s) \/ IssueChanged(s) PROVE RequestStep(x)
  <2>1. PICK continuing \in {0} \cup Issued : Issue(s, req[s].to, continuing)
    <3>1. family[req[s].sent] \in Issued
      BY <1>9 DEF IssueRefreshed, IssueSwitched, IssueChanged, Handling, Inv, RowsAreOfFamilies, TokensAreIssued
    <3> QED BY <1>9, <3>1 DEF IssueRefreshed, IssueSwitched, IssueChanged
  <2>2. req[s].stage = "turned" /\ UNCHANGED <<cookie, mine, chosen, members>>
    BY <1>9 DEF IssueRefreshed, IssueSwitched, IssueChanged, Handling
  <2>3. /\ NextToken \notin Issued /\ NextToken \in Issued' /\ NextToken \in Tokens
        /\ req'[s].stage = "set" /\ req'[s].new = NextToken
        /\ req'[s].sent = req[s].sent /\ req'[s].op = req[s].op
        /\ \A z \in Tabs \ {s} : req'[z] = req[z]
        /\ state' = [state EXCEPT ![NextToken] = "live"]
    BY <2>1, <2>2, IssueAdds
  <2>4. org' = [org EXCEPT ![NextToken] = req[s].to]
    BY <2>1 DEF Issue
  <2>5. state'[NextToken] = "live" /\ org'[NextToken] = req[s].to
    BY <1>0, <2>3, <2>4 DEF Types, RowTypes, RestTypes
  <2>6. HandledBy(s)
    BY <1>0, <2>2, <2>3, <2>5 DEF HandledBy, Issues
  <2> QED BY <2>3, <2>6 DEF RequestStep
<1>10. ASSUME NEW s \in Tabs, IssueFails(s) \/ SetCookies(s) \/ ClearCookies(s) \/ Lose(s) PROVE RequestStep(x)
  BY <1>5, <1>10 DEF IssueFails, SetCookies, ClearCookies, Lose
<1>11. ASSUME UNCHANGED req PROVE RequestStep(x)
  BY <1>11 DEF RequestStep
<1>12. ASSUME \/ RevokeAll \/ \E t \in Tokens : GraceElapses(t)
              \/ \E c \in Clients : RevokeOthers(c) \/ SignInAgain(c) \/ \E f \in Issued : RevokeFamily(c, f)
              \/ \E o \in Orgs : RemoveMember(o)
              \/ UNCHANGED vars
       PROVE  RequestStep(x)
  BY <1>11, <1>12 DEF RevokeAll, GraceElapses, RevokeOthers, SignInAgain, RevokeFamily, RemoveMember, vars
<1>13. ASSUME NEW s \in Tabs, SendRefresh(s) \/ SendChange(s) \/ SendLogout(s)
                              \/ \E o \in Orgs : SendSwitch(s, o)
       PROVE  RequestStep(x)
  BY <1>1, <1>13 DEF SendRefresh, SendChange, SendLogout, SendSwitch, Ops
<1> QED BY <1>2, <1>3, <1>4, <1>6, <1>7, <1>8, <1>9, <1>10, <1>12, <1>13 DEF Next

\* Every step leaves a row as it was written, or has a reason to stamp it.
LEMMA StepOfRows ==
  ASSUME Inv, RestTypes, [Next]_vars
  PROVE  \A t \in Issued : Written(t)
<1> SUFFICES ASSUME NEW t \in Issued PROVE Written(t)
  OBVIOUS
<1> USE DEF tokenVars, historyVars
<1>0. Types /\ state \in [Tokens -> States] /\ t \in Tokens /\ org = [u \in Tokens |-> org[u]] /\ state[t] # "unused"
  BY DEF Inv, Types, RowTypes, RestTypes, Issued
<1>1. ASSUME UNCHANGED <<state, family, org>> PROVE Written(t)
  BY <1>1 DEF Written, Issued
<1>2. ASSUME NEW ts, state' = Revoke(ts), UNCHANGED <<family, org>>, t \in ts => family[t] \in over'
      PROVE  Written(t)
  <2>1. state'[t] = IF t \in ts /\ state[t] = "live" THEN "ended" ELSE state[t]
    BY <1>0, <1>2 DEF Revoke
  <2>2. t \in Issued'
    BY <1>0, <2>1 DEF Issued
  <2> QED BY <1>2, <2>1, <2>2 DEF Written
<1>3. ASSUME NEW s \in Tabs, RotateToken(s) PROVE Written(t)
  <2> DEFINE u == req[s].sent
  <2>1. req[s].stage = "found" /\ UNCHANGED <<family, org>>
    BY <1>3 DEF RotateToken, Handling
  <2>2. state' = state \/ state' = [state EXCEPT ![u] = Stamp(u)]
    BY <1>3 DEF RotateToken
  <2>3. CASE state' = [state EXCEPT ![u] = Stamp(u)]
    <3>1. state'[t] = IF t = u THEN Stamp(u) ELSE state[t]
      BY <1>0, <2>3
    <3>2. Stamp(u) \in {"ended", "rotated"} /\ (Stamp(u) = "ended" => state[u] = "ended")
      BY DEF Stamp
    <3>3. t \in Issued'
      BY <1>0, <3>1, <3>2 DEF Issued
    <3> QED BY <2>1, <3>1, <3>2, <3>3 DEF Written
  <2>4. CASE state' = state
    BY <1>1, <2>1, <2>4
  <2> QED BY <2>2, <2>3, <2>4
<1>4. ASSUME NEW u \in Tokens, GraceElapses(u) PROVE Written(t)
  <2>1. state[u] = "rotated" /\ UNCHANGED <<family, org, cookie, req>>
    BY <1>4 DEF GraceElapses
  <2>2. state'[t] = IF t = u THEN "stale" ELSE state[t]
    BY <1>0, <1>4 DEF GraceElapses
  <2>3. t \in Issued'
    BY <1>0, <2>2 DEF Issued
  <2>4. ASSUME NEW c \in Clients, cookie[c] = u PROVE "slow" \in raced'[c]
    <3> DEFINE holders == {d \in Clients : cookie[d] = u}
    <3>1. holders # {} /\ c \in holders
      BY <2>4
    <3>2. Note(Racing(holders, "slow"), NoRace)
      BY <1>4, <3>1 DEF GraceElapses
    <3> HIDE DEF holders
    <3>3. \A d \in Clients : raced'[d] = raced[d] \cup Racing(holders, "slow")[d] \cup NoRace[d]
      BY <1>0, <3>2, NotedIsKept
    <3> QED BY <3>1, <3>3 DEF Racing
  <2> QED BY <2>1, <2>2, <2>3, <2>4 DEF Written
<1>5. ASSUME NEW n \in Tokens \ Issued, NEW f, NEW o, state' = [state EXCEPT ![n] = "live"],
             family' = [family EXCEPT ![n] = f], org' = [org EXCEPT ![n] = o]
      PROVE  Written(t)
  <2>1. t # n
    BY <1>5
  <2>2. state'[t] = state[t] /\ family'[t] = family[t] /\ org'[t] = org[t]
    BY <1>0, <1>5, <2>1 DEF Types, RowTypes
  <2>3. t \in Issued'
    BY <1>0, <2>2 DEF Issued
  <2> QED BY <2>2, <2>3 DEF Written
<1>6. ASSUME NEW s \in Tabs, IssueRefreshed(s) \/ IssueSwitched(s) \/ IssueChanged(s) PROVE Written(t)
  <2>1. PICK continuing : Issue(s, req[s].to, continuing)
    BY <1>6 DEF IssueRefreshed, IssueSwitched, IssueChanged
  <2> QED BY <1>5, <2>1 DEF Issue
<1>7. ASSUME NEW c \in Clients, SignInAgain(c) PROVE Written(t)
  BY <1>5, <1>7 DEF SignInAgain
<1>8. ASSUME NEW s \in Tabs, Logout(s) PROVE Written(t)
  <2>1. /\ state' = Revoke(LoggedOut(s)) /\ UNCHANGED <<family, org>> /\ family[req[s].sent] \in over'
    BY <1>8 DEF Logout, End
  <2>2. t \in LoggedOut(s) => t = req[s].sent
    BY DEF LoggedOut
  <2> QED BY <1>2, <2>1, <2>2
<1>9. ASSUME RevokeAll \/ (\E o \in Orgs : RemoveMember(o)) \/ (\E s \in Tabs : ChangePassword(s)) PROVE Written(t)
  <2> DEFINE all == {family[u] : u \in Issued}
  <2>1. state' = Revoke(Issued) /\ UNCHANGED <<family, org>> /\ End(all)
    BY <1>9 DEF RevokeAll, RemoveMember, ChangePassword
  <2>2. family[t] \in over'
    BY <2>1 DEF End
  <2> QED BY <1>2, <2>1, <2>2
<1>10. ASSUME NEW c \in Clients, RevokeOthers(c) PROVE Written(t)
  <2> DEFINE fs == {family[u] : u \in Issued} \ {family[cookie[c]]}
  <2>1. state' = Revoke(Others(c)) /\ UNCHANGED <<family, org>> /\ End(fs)
    BY <1>10 DEF RevokeOthers
  <2>2. t \in Others(c) => family[t] \in over'
    BY <2>1 DEF End, Others
  <2> QED BY <1>2, <2>1, <2>2
<1>11. ASSUME NEW c \in Clients, NEW f \in Issued, RevokeFamily(c, f) PROVE Written(t)
  <2>1. state' = Revoke(OfFamilies({f})) /\ UNCHANGED <<family, org>> /\ End({f})
    BY <1>11 DEF RevokeFamily
  <2>2. t \in OfFamilies({f}) => family[t] \in over'
    BY <2>1 DEF End, OfFamilies
  <2> QED BY <1>2, <2>1, <2>2
<1>12. ASSUME NEW s \in Tabs,
              \/ SendRefresh(s) \/ SendChange(s) \/ SendLogout(s) \/ (\E o \in Orgs : SendSwitch(s, o))
              \/ FindToken(s) \/ RefuseToken(s) \/ IssueFails(s) \/ FindMembership(s)
              \/ SetCookies(s) \/ ClearCookies(s) \/ Lose(s)
       PROVE  Written(t)
  BY <1>1, <1>12 DEF SendRefresh, SendChange, SendLogout, SendSwitch, Send, FindToken, RefuseToken,
                     IssueFails, FindMembership, SetCookies, ClearCookies, Lose
<1>13. CASE UNCHANGED vars
  BY <1>1, <1>13 DEF vars
<1> QED BY <1>3, <1>4, <1>6, <1>7, <1>8, <1>9, <1>10, <1>11, <1>12, <1>13 DEF Next

\* What the clients hold is of the types the steps rely on.
HistoryTypes == mine = [c \in Clients |-> mine[c]] /\ chosen = [c \in Clients |-> chosen[c]]

\* Every step leaves a client as it was or is one of the three that touch it.
LEMMA StepOfClients ==
  ASSUME Inv, RestTypes, HistoryTypes, [Next]_vars
  PROVE  (\A c \in Clients : ClientStep(c)) /\ HistoryTypes'
<1> USE DEF tokenVars, historyVars
<1>0. /\ Types /\ state \in [Tokens -> States] /\ org = [u \in Tokens |-> org[u]]
      /\ family \in [Tokens -> {0} \cup Tokens] /\ \A s \in Tabs : ClientOf[s] \in Clients
      /\ cookie \in [Clients -> {0} \cup Tokens]
      /\ mine = [c \in Clients |-> mine[c]] /\ chosen = [c \in Clients |-> chosen[c]]
  BY ClientsAssumption DEF Inv, Types, RowTypes, RestTypes, HistoryTypes
<1>1. ASSUME UNCHANGED <<cookie, mine, chosen>> PROVE (\A c \in Clients : ClientStep(c)) /\ HistoryTypes'
  BY <1>0, <1>1 DEF ClientStep, Unmoved, HistoryTypes
<1>2. ASSUME NEW s \in Tabs, SetCookies(s) PROVE (\A c \in Clients : ClientStep(c)) /\ HistoryTypes'
  <2> DEFINE d == ClientOf[s]
  <2>1. /\ req[s].stage = "set" /\ req' = [req EXCEPT ![s] = Idle] /\ UNCHANGED <<state, members>>
        /\ cookie' = [cookie EXCEPT ![d] = req[s].new] /\ mine' = [mine EXCEPT ![d] = family[req[s].new]]
        /\ chosen' = IF req[s].op = "refresh" THEN chosen ELSE [chosen EXCEPT ![d] = org[req[s].new]]
    BY <1>2 DEF SetCookies
  <2>2. d \in Clients
    BY <1>0
  <2>3. Given(d)
    BY <1>0, <2>1, <2>2 DEF Given
  <2>4. HistoryTypes'
    BY <1>0, <2>1 DEF HistoryTypes
  <2>5. \A c \in Clients : c # d => Unmoved(c)
    BY <1>0, <2>1 DEF Unmoved
  <2> QED BY <2>2, <2>3, <2>4, <2>5 DEF ClientStep
<1>3. ASSUME NEW s \in Tabs, ClearCookies(s) PROVE (\A c \in Clients : ClientStep(c)) /\ HistoryTypes'
  <2> DEFINE d == ClientOf[s]
  <2>1. /\ req[s].stage = "clear" /\ req' = [req EXCEPT ![s] = Idle]
        /\ cookie' = [cookie EXCEPT ![d] = 0] /\ UNCHANGED <<mine, chosen>>
    BY <1>3 DEF ClearCookies
  <2>2. cookie[d] \in {0, req[s].sent} \/ "lateClear" \in raced'[d]
    <3>1. SUFFICES ASSUME cookie[d] \notin {0, req[s].sent} PROVE "lateClear" \in raced'[d]
      OBVIOUS
    <3>2. Note(Racing({d}, "lateClear"), NoRace)
      BY <1>3, <3>1 DEF ClearCookies
    <3>3. \A e \in Clients : raced'[e] = raced[e] \cup Racing({d}, "lateClear")[e] \cup NoRace[e]
      BY <1>0, <3>2, NotedIsKept
    <3> QED BY <1>0, <3>3 DEF Racing
  <2>3. Emptied(d)
    BY <2>1, <2>2 DEF Emptied
  <2>4. HistoryTypes'
    BY <1>0, <2>1 DEF HistoryTypes
  <2>5. \A c \in Clients : c # d => Unmoved(c)
    BY <1>0, <2>1 DEF Unmoved
  <2> QED BY <2>3, <2>4, <2>5 DEF ClientStep
<1>4. ASSUME NEW d \in Clients, SignInAgain(d) PROVE (\A c \in Clients : ClientStep(c)) /\ HistoryTypes'
  <2> DEFINE n == NextToken
             o == Resolve(lastActive)
  <2>1. /\ n \in Tokens \ Issued /\ \A s \in Tabs : ClientOf[s] = d => req[s] = Idle
        /\ state' = [state EXCEPT ![n] = "live"] /\ family' = [family EXCEPT ![n] = n]
        /\ org' = [org EXCEPT ![n] = o] /\ chosen' = [chosen EXCEPT ![d] = o]
        /\ cookie' = [cookie EXCEPT ![d] = n] /\ mine' = [mine EXCEPT ![d] = n] /\ UNCHANGED req
    BY <1>4 DEF SignInAgain
  <2> HIDE DEF n, o
  <2>2. state'[n] = "live" /\ family'[n] = n /\ org'[n] = chosen'[d] /\ mine'[d] = n
    BY <1>0, <2>1
  <2>3. Again(d)
    BY <2>1, <2>2 DEF Again
  <2>4. HistoryTypes'
    BY <1>0, <2>1 DEF HistoryTypes
  <2>5. \A c \in Clients : c # d => Unmoved(c)
    BY <1>0, <2>1 DEF Unmoved
  <2> QED BY <2>3, <2>4, <2>5 DEF ClientStep
<1>5. ASSUME NEW s \in Tabs,
             \/ SendRefresh(s) \/ SendChange(s) \/ SendLogout(s) \/ (\E o \in Orgs : SendSwitch(s, o))
             \/ FindToken(s) \/ RefuseToken(s) \/ RotateToken(s) \/ IssueRefreshed(s) \/ IssueFails(s)
             \/ FindMembership(s) \/ IssueSwitched(s) \/ ChangePassword(s) \/ IssueChanged(s) \/ Logout(s)
             \/ Lose(s)
      PROVE  UNCHANGED <<cookie, mine, chosen>>
  BY <1>5 DEF SendRefresh, SendChange, SendLogout, SendSwitch, Send, FindToken, RefuseToken, RotateToken,
              IssueRefreshed, IssueFails, FindMembership, IssueSwitched, ChangePassword, IssueChanged,
              Logout, Lose
<1>6. ASSUME \/ RevokeAll \/ \E t \in Tokens : GraceElapses(t)
             \/ \E c \in Clients : RevokeOthers(c) \/ \E f \in Issued : RevokeFamily(c, f)
             \/ \E o \in Orgs : RemoveMember(o)
             \/ UNCHANGED vars
      PROVE  UNCHANGED <<cookie, mine, chosen>>
  BY <1>6 DEF RevokeAll, GraceElapses, RevokeOthers, RevokeFamily, RemoveMember, vars
<1> QED BY <1>1, <1>2, <1>3, <1>4, <1>5, <1>6 DEF Next

\* What a step can only add to, and what it can only take from.
LEMMA StepOfHistory ==
  ASSUME Inv, [Next]_vars
  PROVE  /\ over \subseteq over' /\ members' \subseteq members
         /\ \A c \in Clients : raced[c] \subseteq raced'[c]
<1> USE DEF tokenVars, historyVars
<1>0. Types
  BY DEF Inv
<1>1. ASSUME NEW a, NEW b, Note(a, b) PROVE \A c \in Clients : raced[c] \subseteq raced'[c]
  BY <1>0, <1>1, NotedIsKept
<1>2. ASSUME NEW s \in Tabs, NEW op, NEW o, Send(s, op, o)
      PROVE  UNCHANGED <<over, members>> /\ (raced' = raced \/ \E a, b : Note(a, b))
  BY <1>2 DEF Send
<1>3. ASSUME NEW s \in Tabs, SendRefresh(s) \/ SendChange(s) \/ SendLogout(s) \/ (\E o \in Orgs : SendSwitch(s, o))
      PROVE  UNCHANGED <<over, members>> /\ (raced' = raced \/ \E a, b : Note(a, b))
  BY <1>2, <1>3 DEF SendRefresh, SendChange, SendLogout, SendSwitch
<1>4. ASSUME NEW s \in Tabs,
             \/ FindToken(s) \/ RefuseToken(s) \/ RotateToken(s) \/ IssueRefreshed(s) \/ IssueFails(s)
             \/ FindMembership(s) \/ IssueSwitched(s) \/ IssueChanged(s)
             \/ SetCookies(s) \/ ClearCookies(s) \/ Lose(s)
      PROVE  UNCHANGED <<over, members>> /\ (raced' = raced \/ \E a, b : Note(a, b))
  BY <1>4 DEF FindToken, RefuseToken, RotateToken, IssueRefreshed, IssueFails, FindMembership, IssueSwitched,
              IssueChanged, SetCookies, ClearCookies, Lose
<1>5. ASSUME (\E t \in Tokens : GraceElapses(t)) \/ (\E c \in Clients : SignInAgain(c)) \/ UNCHANGED vars
      PROVE  UNCHANGED <<over, members>> /\ (raced' = raced \/ \E a, b : Note(a, b))
  BY <1>5 DEF GraceElapses, SignInAgain, vars
<1>6. ASSUME \/ RevokeAll \/ (\E s \in Tabs : ChangePassword(s) \/ Logout(s))
             \/ (\E c \in Clients : RevokeOthers(c) \/ \E f \in Issued : RevokeFamily(c, f))
             \/ (\E o \in Orgs : RemoveMember(o))
      PROVE  over \subseteq over' /\ members' \subseteq members /\ \E a, b : Note(a, b)
  BY <1>6 DEF RevokeAll, ChangePassword, Logout, RevokeOthers, RevokeFamily, RemoveMember, End
<1> QED BY <1>1, <1>3, <1>4, <1>5, <1>6 DEF Next

\* A row that a step writes is live.
LEMMA NewIsLive ==
  ASSUME Inv, [Next]_vars
  PROVE  \A t \in Issued' \ Issued : state'[t] = "live"
<1> SUFFICES ASSUME NEW t \in Tokens, state[t] = "unused" PROVE state'[t] \in {"unused", "live"}
  BY DEF Issued
<1>0. Types /\ state \in [Tokens -> States]
  BY DEF Inv, Types, RowTypes
<1>1. ASSUME NEW ts, state' = Revoke(ts) PROVE state'[t] = "unused"
  BY <1>0, <1>1, RevokeEnds
<1>2. ASSUME NEW n, state' = [state EXCEPT ![n] = "live"] PROVE state'[t] \in {"unused", "live"}
  BY <1>0, <1>2
<1>3. ASSUME NEW s \in Tabs, RotateToken(s) PROVE state'[t] = "unused"
  <2>1. state[req[s].sent] # "unused"
    BY <1>3 DEF RotateToken, Handling, Inv, TokensAreIssued, Issued
  <2> QED BY <1>0, <1>3, <2>1 DEF RotateToken
<1>4. ASSUME NEW u \in Tokens, GraceElapses(u) PROVE state'[t] = "unused"
  BY <1>0, <1>4 DEF GraceElapses
<1>5. ASSUME NEW c \in Clients, SignInAgain(c) PROVE state'[t] \in {"unused", "live"}
  BY <1>2, <1>5 DEF SignInAgain
<1>6. ASSUME NEW s \in Tabs, IssueRefreshed(s) \/ IssueSwitched(s) \/ IssueChanged(s)
      PROVE  state'[t] \in {"unused", "live"}
  BY <1>2, <1>6 DEF IssueRefreshed, IssueSwitched, IssueChanged, Issue
<1>7. ASSUME \/ RevokeAll \/ (\E o \in Orgs : RemoveMember(o))
             \/ (\E s \in Tabs : ChangePassword(s) \/ Logout(s))
             \/ (\E c \in Clients : RevokeOthers(c) \/ \E f \in Issued : RevokeFamily(c, f))
      PROVE  state'[t] = "unused"
  BY <1>1, <1>7 DEF RevokeAll, RemoveMember, ChangePassword, Logout, RevokeOthers, RevokeFamily
<1>8. ASSUME NEW s \in Tabs,
             \/ SendRefresh(s) \/ SendChange(s) \/ SendLogout(s) \/ (\E o \in Orgs : SendSwitch(s, o))
             \/ FindToken(s) \/ RefuseToken(s) \/ IssueFails(s) \/ FindMembership(s)
             \/ SetCookies(s) \/ ClearCookies(s) \/ Lose(s)
      PROVE  state'[t] = "unused"
  BY <1>8 DEF SendRefresh, SendChange, SendLogout, SendSwitch, Send, FindToken, RefuseToken,
              IssueFails, FindMembership, SetCookies, ClearCookies, Lose, tokenVars
<1>9. CASE UNCHANGED vars
  BY <1>9 DEF vars, tokenVars
<1> QED BY <1>3, <1>4, <1>5, <1>6, <1>7, <1>8, <1>9 DEF Next

-----------------------------------------------------------------------------
(* Staying signed in.                                                        *)

\* A client holds a token of the family it was last given, and only an ended
\* family has ended tokens.
HeldIsMine == \A c \in Clients : cookie[c] # 0 => mine[c] = family[cookie[c]]
EndedIsOver == \A t \in Issued : state[t] = "ended" => family[t] \in over

\* The token of an answer has never been held, sent or answered with before: so
\* nobody can have rotated it.
AnswersAreNew ==
  \A s \in Tabs : req[s].stage = "set" =>
    /\ state[req[s].new] \in {"live", "ended"}
    /\ \A c \in Clients : cookie[c] # req[s].new
    /\ \A z \in Tabs : req[z].stage # "idle" => req[z].sent # req[s].new
    /\ \A z \in Tabs \ {s} : req[z].stage = "set" => req[z].new # req[s].new

\* A token that went stale in the hands of its client, and what clears cookies.
StaleIsSlow == \A c \in Clients : cookie[c] # 0 /\ state[cookie[c]] = "stale" => "slow" \in raced[c]
ClearsForAReason ==
  \A s \in Tabs : req[s].stage = "clear" /\ req[s].sent = cookie[ClientOf[s]] =>
    family[req[s].sent] \in over \/ "slow" \in raced[ClientOf[s]]
ClearedForAReason ==
  \A c \in Clients : cookie[c] = 0 /\ mine[c] \notin over => Excused(c, {"slow", "lateClear"})

Signed == /\ HeldIsMine /\ EndedIsOver /\ AnswersAreNew
          /\ StaleIsSlow /\ ClearsForAReason /\ ClearedForAReason

LEMMA SignedNext ==
  ASSUME Inv, RestTypes, HistoryTypes, Signed, [Next]_vars
  PROVE  Signed'
<1>1. /\ \A s \in Tabs : RequestStep(s)
      /\ \A t \in Issued : Written(t)
      /\ \A c \in Clients : ClientStep(c)
  BY StepOfRequests, StepOfRows, StepOfClients
<1>2. /\ over \subseteq over' /\ \A c \in Clients : raced[c] \subseteq raced'[c]
      /\ raced' \in [Clients -> SUBSET AllRaces]
  BY StepOfHistory, NextPreservesInv DEF Inv, Types
<1>3. /\ \A c \in Clients : cookie[c] # 0 => cookie[c] \in Issued
      /\ \A s \in Tabs : req[s].stage # "idle" => req[s].sent \in Issued
      /\ \A s \in Tabs : req[s].stage = "set" => req[s].new \in Issued
      /\ \A s \in Tabs : ClientOf[s] \in Clients /\ IsRequest(req[s])
      /\ req = [s \in Tabs |-> req[s]] /\ cookie \in [Clients -> {0} \cup Tokens]
      /\ Idle.stage = "idle" /\ 0 \notin Issued /\ 0 \notin Tokens
      /\ Issued \subseteq Tokens /\ state \in [Tokens -> States]
  BY ClientsAssumption, IssuedAreTokens DEF Inv, Types, RowTypes, RequestTypes, TokensAreIssued, Idle, Tokens
<1>4. \A t \in Issued' \ Issued : state'[t] = "live"
  BY NewIsLive
<1>5. HeldIsMine'
  <2> SUFFICES ASSUME NEW c \in Clients, cookie'[c] # 0 PROVE mine'[c] = family'[cookie'[c]]
    BY DEF HeldIsMine
  <2>1. CASE Unmoved(c)
    BY <1>1, <1>3, <2>1 DEF Signed, HeldIsMine, Unmoved, Written
  <2>2. CASE Given(c)
    BY <1>1, <1>3, <2>2 DEF Given, Written
  <2>3. CASE Emptied(c)
    BY <1>3, <2>3 DEF Emptied
  <2>4. CASE Again(c)
    BY <1>3, <2>4 DEF Again
  <2> QED BY <1>1, <2>1, <2>2, <2>3, <2>4 DEF ClientStep
<1>6. EndedIsOver'
  BY <1>1, <1>2, <1>4 DEF Signed, EndedIsOver, Written
<1>7. \A c \in Clients :
        \/ cookie'[c] = cookie[c] \/ cookie'[c] = 0
        \/ cookie'[c] \notin Issued /\ state'[cookie'[c]] = "live"
        \/ \E s \in Tabs : /\ req[s].stage = "set" /\ cookie'[c] = req[s].new
                           /\ req' = [req EXCEPT ![s] = Idle] /\ state' = state
  BY <1>1, <1>3 DEF ClientStep, Unmoved, Given, Emptied, Again
<1>8. AnswersAreNew'
  <2> SUFFICES ASSUME NEW s \in Tabs, req'[s].stage = "set"
               PROVE  /\ state'[req'[s].new] \in {"live", "ended"}
                      /\ \A c \in Clients : cookie'[c] # req'[s].new
                      /\ \A z \in Tabs : req'[z].stage # "idle" => req'[z].sent # req'[s].new
                      /\ \A z \in Tabs \ {s} : req'[z].stage = "set" => req'[z].new # req'[s].new
    BY DEF AnswersAreNew
  <2>1. CASE req'[s] = req[s]
    <3> DEFINE n == req[s].new
    <3>1. /\ n \in Issued /\ state[n] \in {"live", "ended"} /\ req[s].stage = "set"
          /\ \A c \in Clients : cookie[c] # n
          /\ \A z \in Tabs : req[z].stage # "idle" => req[z].sent # n
          /\ \A z \in Tabs \ {s} : req[z].stage = "set" => req[z].new # n
      BY <1>3, <2>1 DEF Signed, AnswersAreNew
    <3> HIDE DEF n
    <3>2. state'[n] \in {"live", "ended"}
      <4>1. state'[n] \in States
        BY <1>1, <1>3, <3>1, NextPreservesInv DEF Written, Inv, Types, RowTypes
      <4>2. state'[n] # "unused"
        BY <1>1, <3>1 DEF Written, Issued
      <4>3. ~\E z \in Tabs : req[z].stage = "found" /\ req[z].sent = n
        BY <3>1
      <4> QED BY <1>1, <3>1, <4>1, <4>2, <4>3 DEF Written, States
    <3>3. \A c \in Clients : cookie'[c] # n
      <4> SUFFICES ASSUME NEW c \in Clients, cookie'[c] = n PROVE FALSE
        OBVIOUS
      <4>1. PICK z \in Tabs : /\ req[z].stage = "set" /\ n = req[z].new /\ req' = [req EXCEPT ![z] = Idle]
        BY <1>3, <1>7, <3>1
      <4>2. z = s
        BY <3>1, <4>1
      <4> QED BY <1>3, <2>1, <3>1, <4>1, <4>2
    <3>4. \A z \in Tabs : req'[z].stage # "idle" => req'[z].sent # n
      BY <1>1, <1>3, <3>1 DEF RequestStep, SendsOff, HandledBy
    <3>5. \A z \in Tabs \ {s} : req'[z].stage = "set" => req'[z].new # n
      <4> SUFFICES ASSUME NEW z \in Tabs \ {s}, req'[z].stage = "set" PROVE req'[z].new # n
        OBVIOUS
      <4>1. req'[z] = req[z] \/ req'[z].new \notin Issued
        BY <1>1, <1>3 DEF RequestStep, SendsOff, HandledBy, Finds, Turns, Prepares, Refuses, Issues
      <4> QED BY <3>1, <4>1
    <3> QED BY <2>1, <3>2, <3>3, <3>4, <3>5 DEF n
  <2>2. CASE req'[s] # req[s]
    <3> DEFINE n == req'[s].new
    <3>1. /\ n \notin Issued /\ n \in Issued' /\ state'[n] = "live" /\ UNCHANGED cookie
          /\ req[s].stage # "idle" /\ req'[s].sent = req[s].sent /\ \A z \in Tabs \ {s} : req'[z] = req[z]
      BY <1>1, <1>3, <2>2 DEF RequestStep, SendsOff, HandledBy, Finds, Turns, Prepares, Refuses, Issues
    <3> HIDE DEF n
    <3>2. n # 0
      BY <3>1, BoundsAssumption DEF Issued, Tokens
    <3>3. \A c \in Clients : cookie'[c] # n
      BY <1>3, <3>1, <3>2
    <3>4. \A z \in Tabs : req'[z].stage # "idle" => req'[z].sent # n
      BY <1>3, <3>1
    <3>5. \A z \in Tabs \ {s} : req'[z].stage = "set" => req'[z].new # n
      BY <1>3, <3>1
    <3> QED BY <3>1, <3>3, <3>4, <3>5 DEF n
  <2> QED BY <2>1, <2>2
<1>9. StaleIsSlow'
  <2> SUFFICES ASSUME NEW c \in Clients, cookie'[c] # 0, state'[cookie'[c]] = "stale" PROVE "slow" \in raced'[c]
    BY DEF StaleIsSlow
  <2>1. CASE cookie'[c] = cookie[c]
    <3>1. cookie[c] \in Issued /\ Written(cookie[c])
      BY <1>1, <1>3, <2>1
    <3> QED BY <1>2, <2>1, <3>1 DEF Signed, StaleIsSlow, Written
  <2>2. ASSUME NEW s \in Tabs, req[s].stage = "set", cookie'[c] = req[s].new, state' = state
        PROVE  FALSE
    BY <2>2 DEF Signed, AnswersAreNew
  <2> QED BY <1>7, <2>1, <2>2
<1>10. ClearsForAReason'
  <2> SUFFICES ASSUME NEW s \in Tabs, req'[s].stage = "clear", req'[s].sent = cookie'[ClientOf[s]]
               PROVE  family'[req'[s].sent] \in over' \/ "slow" \in raced'[ClientOf[s]]
    BY DEF ClearsForAReason
  <2>1. req'[s].sent = req[s].sent /\ req[s].stage # "idle"
    BY <1>1, <1>3 DEF RequestStep, SendsOff, HandledBy
  <2>2. req[s].sent \in Issued /\ family'[req[s].sent] = family[req[s].sent]
    BY <1>1, <1>3, <2>1 DEF Written
  <2>3. cookie[ClientOf[s]] = req[s].sent
    <3>1. ASSUME NEW z \in Tabs, req[z].stage = "set" PROVE req[s].sent # req[z].new
      BY <2>1, <3>1 DEF Signed, AnswersAreNew
    <3>2. cookie'[ClientOf[s]] # 0 /\ cookie'[ClientOf[s]] \in Issued /\ ClientOf[s] \in Clients
      BY <1>3, <2>1, <2>2
    <3> QED BY <1>7, <2>1, <3>1, <3>2
  <2>4. CASE req[s].stage = "clear"
    BY <1>2, <1>3, <2>1, <2>2, <2>3, <2>4 DEF Signed, ClearsForAReason
  <2>5. CASE req[s].stage # "clear"
    <3>1. family[req[s].sent] \in over' \/ ~Usable(req[s].sent)
      BY <1>1, <1>3, <2>5 DEF RequestStep, SendsOff, HandledBy, Finds, Turns, Prepares, Refuses, Issues
    <3>2. ~Usable(req[s].sent) => state[req[s].sent] \in {"ended", "stale"}
      BY <1>3, <2>2 DEF Usable, States, Issued
    <3>3. state[req[s].sent] = "ended" => family[req[s].sent] \in over'
      BY <1>2, <2>2 DEF Signed, EndedIsOver
    <3>4. state[req[s].sent] = "stale" => "slow" \in raced'[ClientOf[s]]
      BY <1>2, <1>3, <2>2, <2>3 DEF Signed, StaleIsSlow
    <3> QED BY <2>1, <2>2, <3>1, <3>2, <3>3, <3>4
  <2> QED BY <2>4, <2>5
<1>11. ClearedForAReason'
  <2> SUFFICES ASSUME NEW c \in Clients, cookie'[c] = 0, mine'[c] \notin over'
               PROVE  raced'[c] \cap {"slow", "lateClear"} # {}
    BY DEF ClearedForAReason, Excused
  <2>1. CASE Unmoved(c)
    BY <1>2, <2>1 DEF Signed, ClearedForAReason, Excused, Unmoved
  <2>2. CASE Given(c)
    BY <1>3, <2>2 DEF Given
  <2>3. CASE Again(c)
    BY <1>3, <2>3 DEF Again
  <2>4. CASE Emptied(c)
    <3>1. PICK s \in Tabs : /\ ClientOf[s] = c /\ req[s].stage = "clear" /\ mine'[c] = mine[c]
                            /\ cookie[c] \in {0, req[s].sent} \/ "lateClear" \in raced'[c]
      BY <2>4 DEF Emptied
    <3>2. CASE cookie[c] = 0
      BY <1>2, <3>1, <3>2 DEF Signed, ClearedForAReason, Excused
    <3>3. CASE cookie[c] = req[s].sent /\ cookie[c] # 0
      BY <1>2, <3>1, <3>3 DEF Signed, ClearsForAReason, HeldIsMine
    <3> QED BY <3>1, <3>2, <3>3
  <2> QED BY <1>1, <2>1, <2>2, <2>3, <2>4 DEF ClientStep
<1> QED BY <1>5, <1>6, <1>8, <1>9, <1>10, <1>11 DEF Signed

\* refresh-token-policy.ts: tabs that refresh on their own do not sign each other
\* out.  What a client was given stays good until its family is ended, but for
\* the two races the property names.
THEOREM StaysSignedInHolds == Spec => []StaysSignedInUnlessRaced
<1>1. Init => HistoryTypes /\ Signed
  <2> SUFFICES ASSUME Init PROVE HistoryTypes /\ Signed
    OBVIOUS
  <2>1. HistoryTypes
    BY ClientsAssumption DEF Init, HistoryTypes
  <2>2. \A c \in Clients : cookie[c] \in Tokens /\ mine[c] = cookie[c] /\ cookie[c] \in Range(FirstToken)
    BY ClientsAssumption DEF Init, Tokens, Range
  <2>3. \A c \in Clients : cookie[c] # 0 /\ family[cookie[c]] = cookie[c] /\ state[cookie[c]] = "live"
    BY <2>2 DEF Init, Tokens
  <2>4. \A t \in Issued : state[t] # "ended"
    BY DEF Init, Issued
  <2>5. \A s \in Tabs : req[s].stage = "idle"
    BY DEF Init, Idle
  <2> QED BY <2>1, <2>2, <2>3, <2>4, <2>5 DEF Signed, HeldIsMine, EndedIsOver, AnswersAreNew, StaleIsSlow,
                                             ClearsForAReason, ClearedForAReason
<1>2. Inv /\ RestTypes /\ HistoryTypes /\ Signed /\ [Next]_vars =>
        Inv' /\ RestTypes' /\ HistoryTypes' /\ Signed'
  BY NextPreservesInv, RestTypesNext, StepOfClients, SignedNext
<1>3. Inv /\ Signed => StaysSignedInUnlessRaced
  <2> SUFFICES ASSUME Inv, Signed, NEW c \in Clients, cookie[c] = 0 \/ ~Usable(cookie[c]), mine[c] \notin over
               PROVE  Excused(c, {"slow", "lateClear"})
    BY DEF StaysSignedInUnlessRaced
  <2>1. CASE cookie[c] = 0
    BY <2>1 DEF Signed, ClearedForAReason
  <2>2. CASE cookie[c] # 0
    <3>1. cookie[c] \in Issued /\ state[cookie[c]] \in {"ended", "stale"}
      BY <2>2 DEF Inv, Types, RowTypes, TokensAreIssued, Usable, States, Issued
    <3>2. state[cookie[c]] # "ended"
      BY <2>2, <3>1 DEF Signed, EndedIsOver, HeldIsMine
    <3> QED BY <2>2, <3>1, <3>2 DEF Signed, StaleIsSlow, Excused
  <2> QED BY <2>1, <2>2
<1> QED BY <1>1, <1>2, <1>3, InvInit, RestTypesInit, PTL DEF Spec

-----------------------------------------------------------------------------
(* The workspace that was chosen.                                            *)

Bringing == {"refresh", "switch", "change"}
Calm(c) == ~Excused(c, {"overlap"})

\* Only these requests are answered with a token, and of them only refreshes are
\* ever on their way with another.
BringersAreAnswered == \A s \in Tabs : req[s].stage \in {"turned", "set"} => req[s].op \in Bringing
OneAtATime ==
  \A s, z \in Tabs :
    /\ s # z /\ ClientOf[s] = ClientOf[z] /\ Calm(ClientOf[s])
    /\ req[s].op \in Bringing /\ req[z].op \in Bringing
    => req[s].op = "refresh"

\* Wherever a refresh is on its way, it is about the workspace that was chosen.
RefreshFollows ==
  \A s \in Tabs :
    req[s].op = "refresh" /\ Calm(ClientOf[s]) /\ chosen[ClientOf[s]] \in members =>
      /\ req[s].stage = "sent" => org[req[s].sent] = chosen[ClientOf[s]]
      /\ req[s].stage \in {"found", "turned"} => req[s].to = chosen[ClientOf[s]]
      /\ req[s].stage = "set" => org[req[s].new] = chosen[ClientOf[s]]

Settled == BringersAreAnswered /\ OneAtATime /\ RefreshFollows /\ SwitchSticksUnlessRaced

LEMMA SettledNext ==
  ASSUME Inv, RestTypes, HistoryTypes, Settled, [Next]_vars
  PROVE  Settled'
<1>1. /\ \A s \in Tabs : RequestStep(s)
      /\ \A t \in Issued : Written(t)
      /\ \A c \in Clients : ClientStep(c)
  BY StepOfRequests, StepOfRows, StepOfClients
<1>2. members' \subseteq members /\ \A c \in Clients : raced[c] \subseteq raced'[c]
  BY StepOfHistory
<1>3. /\ \A c \in Clients : cookie[c] # 0 => cookie[c] \in Issued
      /\ \A s \in Tabs : req[s].stage # "idle" => req[s].sent \in Issued
      /\ \A s \in Tabs : req[s].stage = "set" => req[s].new \in Issued
      /\ \A s \in Tabs : ClientOf[s] \in Clients
      /\ req = [s \in Tabs |-> req[s]] /\ cookie \in [Clients -> {0} \cup Tokens]
      /\ Idle.stage = "idle" /\ Idle.op = "none"
  BY ClientsAssumption DEF Inv, Types, RequestTypes, TokensAreIssued, Idle
<1>4. \A c \in Clients : "overlap" \notin raced'[c] => Calm(c)
  BY <1>2 DEF Calm, Excused
<1>5. BringersAreAnswered'
  <2> SUFFICES ASSUME NEW s \in Tabs, req'[s].stage \in {"turned", "set"} PROVE req'[s].op \in Bringing
    BY DEF BringersAreAnswered
  <2>1. req[s].stage \in {"turned", "set"} => req[s].op \in Bringing
    BY DEF Settled, BringersAreAnswered
  <2> QED BY <1>1, <1>3, <2>1 DEF RequestStep, SendsOff, HandledBy, Finds, Turns, Prepares, Refuses, Issues, Bringing
<1>6. \A s \in Tabs : req'[s].op \in Bringing => req'[s].op = req[s].op \/ SendsOff(s)
  BY <1>1, <1>3 DEF RequestStep, HandledBy, Bringing
<1>7. OneAtATime'
  <2> SUFFICES ASSUME NEW s \in Tabs, NEW z \in Tabs, s # z, ClientOf[s] = ClientOf[z],
                      "overlap" \notin raced'[ClientOf[s]],
                      req'[s].op \in Bringing, req'[z].op \in Bringing
               PROVE  req'[s].op = "refresh"
    BY DEF OneAtATime, Calm, Excused
  <2>1. CASE SendsOff(s)
    <3>1. req'[z] = req[z] /\ ~Overlaps(ClientOf[s], req'[s].op)
      BY <2>1 DEF SendsOff
    <3> QED BY <3>1 DEF Overlaps, Bringing
  <2>2. CASE SendsOff(z)
    <3>1. req'[s] = req[s] /\ ~Overlaps(ClientOf[s], req'[z].op)
      BY <2>2 DEF SendsOff
    <3> QED BY <3>1 DEF Overlaps, Bringing
  <2>3. CASE ~SendsOff(s) /\ ~SendsOff(z)
    BY <1>3, <1>4, <1>6, <2>3 DEF Settled, OneAtATime
  <2> QED BY <2>1, <2>2, <2>3
<1>8. ASSUME NEW s \in Tabs, req'[s].op = "refresh", "overlap" \notin raced'[ClientOf[s]],
             chosen'[ClientOf[s]] \in members'
      PROVE  /\ req'[s].stage = "sent" => org'[req'[s].sent] = chosen'[ClientOf[s]]
             /\ req'[s].stage \in {"found", "turned"} => req'[s].to = chosen'[ClientOf[s]]
             /\ req'[s].stage = "set" => org'[req'[s].new] = chosen'[ClientOf[s]]
  <2> DEFINE c == ClientOf[s]
  <2>1. c \in Clients /\ Calm(c)
    BY <1>3, <1>4, <1>8
  <2>2. chosen'[c] = chosen[c]
    <3>1. CASE Unmoved(c)
      BY <3>1 DEF Unmoved
    <3>2. CASE Given(c)
      <4>1. PICK z \in Tabs : /\ ClientOf[z] = c /\ req[z].stage = "set" /\ req' = [req EXCEPT ![z] = Idle]
                              /\ chosen'[c] = IF req[z].op = "refresh" THEN chosen[c] ELSE org[req[z].new]
        BY <3>2 DEF Given
      <4>2. z # s /\ req'[s] = req[s]
        BY <1>3, <1>8, <4>1
      <4>3. req[z].op \in Bringing /\ req[s].op \in Bringing
        BY <1>8, <4>1, <4>2 DEF Settled, BringersAreAnswered, Bringing
      <4>4. req[z].op = "refresh"
        BY <2>1, <4>1, <4>2, <4>3 DEF Settled, OneAtATime
      <4> QED BY <4>1, <4>4
    <3>3. CASE Emptied(c)
      BY <3>3 DEF Emptied
    <3>4. CASE Again(c)
      BY <1>3, <1>8, <3>4 DEF Again
    <3> QED BY <1>1, <2>1, <3>1, <3>2, <3>3, <3>4 DEF ClientStep
  <2>3. chosen[c] \in members
    BY <1>2, <1>8, <2>2
  <2>4. req[s].op = "refresh" =>
          /\ req[s].stage = "sent" => org[req[s].sent] = chosen[c]
          /\ req[s].stage \in {"found", "turned"} => req[s].to = chosen[c]
          /\ req[s].stage = "set" => org[req[s].new] = chosen[c]
    BY <2>1, <2>3 DEF Settled, RefreshFollows
  <2>5. CASE req'[s] = req[s]
    <3>1. req[s].stage # "idle" => org'[req[s].sent] = org[req[s].sent]
      BY <1>1, <1>3 DEF Written
    <3>2. req[s].stage = "set" => org'[req[s].new] = org[req[s].new]
      BY <1>1, <1>3 DEF Written
    <3> QED BY <1>8, <2>2, <2>4, <2>5, <3>1, <3>2
  <2>6. CASE SendsOff(s)
    <3>1. /\ req'[s].stage = "sent" /\ req'[s].sent = cookie[c] /\ cookie[c] # 0 /\ org' = org
      BY <2>6 DEF SendsOff
    <3>2. org[cookie[c]] = chosen[c]
      BY <2>1, <2>3, <3>1 DEF Settled, SwitchSticksUnlessRaced, Calm
    <3> QED BY <2>2, <3>1, <3>2
  <2>7. CASE HandledBy(s)
    <3>1. req[s].op = "refresh" /\ (Finds(s) \/ Turns(s) \/ Refuses(s) \/ Issues(s))
      BY <1>8, <2>7 DEF HandledBy, Prepares
    <3>2. CASE Finds(s)
      <4>1. org[req[s].sent] = chosen[c]
        BY <2>4, <3>1, <3>2 DEF Finds
      <4> QED BY <2>2, <2>3, <3>2, <4>1 DEF Finds, Resolve
    <3>3. CASE Turns(s)
      BY <2>2, <2>4, <3>1, <3>3 DEF Turns
    <3>4. CASE Refuses(s)
      BY <3>4 DEF Refuses
    <3>5. CASE Issues(s)
      BY <2>2, <2>4, <3>1, <3>5 DEF Issues
    <3> QED BY <3>1, <3>2, <3>3, <3>4, <3>5
  <2> QED BY <1>1, <1>3, <1>8, <2>5, <2>6, <2>7 DEF RequestStep
<1>9. RefreshFollows'
  BY <1>8 DEF RefreshFollows, Calm, Excused
<1>10. SwitchSticksUnlessRaced'
  <2> SUFFICES ASSUME NEW c \in Clients, cookie'[c] # 0, chosen'[c] \in members', "overlap" \notin raced'[c]
               PROVE  org'[cookie'[c]] = chosen'[c]
    BY DEF SwitchSticksUnlessRaced, Excused
  <2>1. Calm(c)
    BY <1>4
  <2>2. CASE Unmoved(c)
    <3>1. org[cookie[c]] = chosen[c]
      BY <1>2, <2>1, <2>2 DEF Settled, SwitchSticksUnlessRaced, Unmoved, Calm
    <3> QED BY <1>1, <1>3, <2>2, <3>1 DEF Unmoved, Written
  <2>3. CASE Given(c)
    <3>1. PICK s \in Tabs : /\ ClientOf[s] = c /\ req[s].stage = "set" /\ cookie'[c] = req[s].new
                            /\ chosen'[c] = IF req[s].op = "refresh" THEN chosen[c] ELSE org[req[s].new]
      BY <1>3, <2>3 DEF Given
    <3>2. org'[req[s].new] = org[req[s].new]
      BY <1>1, <1>3, <3>1 DEF Written
    <3>3. CASE req[s].op = "refresh"
      BY <1>2, <2>1, <3>1, <3>2, <3>3 DEF Settled, RefreshFollows
    <3>4. CASE req[s].op # "refresh"
      BY <3>1, <3>2, <3>4
    <3> QED BY <3>3, <3>4
  <2>4. CASE Emptied(c)
    BY <1>3, <2>4 DEF Emptied
  <2>5. CASE Again(c)
    BY <1>3, <2>5 DEF Again
  <2> QED BY <1>1, <2>2, <2>3, <2>4, <2>5 DEF ClientStep
<1> QED BY <1>5, <1>7, <1>9, <1>10 DEF Settled

\* auth.ts, POST /auth/refresh: a refresh does not move its caller to another
\* workspace than the one they chose and still belong to, unless it crosses a
\* switch or a password change of the same client.
THEOREM SwitchSticksHolds == Spec => []SwitchSticksUnlessRaced
<1>1. Init => HistoryTypes /\ Settled
  <2> SUFFICES ASSUME Init PROVE HistoryTypes /\ Settled
    OBVIOUS
  <2>1. HistoryTypes
    BY ClientsAssumption DEF Init, HistoryTypes
  <2>2. \A c \in Clients : org[cookie[c]] = lastActive /\ chosen[c] = lastActive
    BY ClientsAssumption DEF Init, Range, Tokens
  <2>3. \A s \in Tabs : req[s].stage = "idle" /\ req[s].op = "none"
    BY DEF Init, Idle
  <2> QED BY <2>1, <2>2, <2>3 DEF Settled, BringersAreAnswered, OneAtATime, RefreshFollows,
                                  SwitchSticksUnlessRaced, Bringing
<1>2. Inv /\ RestTypes /\ HistoryTypes /\ Settled /\ [Next]_vars =>
        Inv' /\ RestTypes' /\ HistoryTypes' /\ Settled'
  BY NextPreservesInv, RestTypesNext, StepOfClients, SettledNext
<1>3. Settled => SwitchSticksUnlessRaced
  BY DEF Settled
<1> QED BY <1>1, <1>2, <1>3, InvInit, RestTypesInit, PTL DEF Spec

=============================================================================
