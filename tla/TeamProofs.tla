------------------------------ MODULE TeamProofs ------------------------------
(***************************************************************************)
(* Proofs about Team, for any number of people, requests, hosts and        *)
(* invitations: types, the last owner, no inherited access, no way back in *)
(* but by an invitation, and sessions under access.                        *)
(***************************************************************************)
EXTENDS Team, TLAPS, FiniteSetTheorems

Taking == {"bothDown", "staleRole", "adminEdit"}

\* A request that has counted the owners and is about to take one down.
IsCounted(q) == q.op \in {"change", "remove"} /\ q.seen = "owner" /\ q.to # "owner" /\ q.at = "ready"
Counted(r) == IsCounted(req[r])

\* What a request about a person is about.
About == {"change", "remove", "access", "admin", "invite", "accept"}
Proper == {q \in Request : /\ q.op \in About => q.who \in People
                           /\ q.op = "remove" => q.to = "none"
                           /\ q.op \in {"accept", "revoke"} => q.inv \in Invitations}

Types == /\ role \in [People -> Roles \cup {"none"}]
         /\ req \in [Requests -> Proper]

\* While nothing has raced: whoever is about to be taken down leaves another owner, and nobody
\* else is about to be taken down.
AnotherOwner == \A r \in Requests : Counted(r) => \E p \in Owners : p # req[r].who
OneAtATime == \A r, o \in Requests : Counted(r) /\ Counted(o) => r = o
Kept == raced \cap Taking = {} => Owners # {} /\ AnotherOwner /\ OneAtATime

Inv == Types /\ Kept

Sent == /\ invitation \in [Invitations -> [state : {"none", "pending", "accepted", "expired", "deleted"},
                                         who : People \cup {"none"}, role : Roles \cup {"none"}, stale : BOOLEAN]]
        /\ \A i \in Invitations : invitation[i].state = "pending" => invitation[i].who \in People

-------------------------------------------------------------------------------
\* Requests as records.

LEMMA IdleIsRequest == Idle \in Proper /\ ~IsCounted(Idle)
BY DEF Idle, Proper, About, Request, IsCounted, Ops, Stages, Roles, Scopes

LEMMA MoveIs ==
  ASSUME Types, NEW r \in Requests, NEW st \in Stages
  PROVE  /\ [req EXCEPT ![r].at = st] = [req EXCEPT ![r] = [req[r] EXCEPT !.at = st]]
         /\ [req[r] EXCEPT !.at = st] \in Proper
         /\ [req[r] EXCEPT !.at = st].at = st
         /\ [req[r] EXCEPT !.at = st].op = req[r].op
         /\ [req[r] EXCEPT !.at = st].who = req[r].who
         /\ [req[r] EXCEPT !.at = st].seen = req[r].seen
         /\ [req[r] EXCEPT !.at = st].to = req[r].to
BY DEF Types, Proper, About, Request

\* A step that gives no request a count and no owner's role away keeps the invariant.
LEMMA Harmless ==
  ASSUME Inv, NEW r \in Requests, NEW x \in Proper, ~IsCounted(x),
         req' = [req EXCEPT ![r] = x], role' \in [People -> Roles \cup {"none"}],
         Owners \subseteq Owners', raced \subseteq raced'
  PROVE  Inv'
<1>1. Types'
  BY DEF Inv, Types
<1>2. ASSUME NEW o \in Requests, Counted(o)'
      PROVE  o # r /\ Counted(o) /\ req'[o] = req[o]
  BY <1>2 DEF Counted, Inv, Types
<1>3. Kept'
  BY <1>2 DEF Kept, Inv, AnotherOwner, OneAtATime, Taking
<1>. QED BY <1>1, <1>3 DEF Inv

LEMMA RacesGrow == ASSUME NEW S, Race(S) PROVE raced \subseteq raced'
BY DEF Race

LEMMA StandingStill == ASSUME Inv, UNCHANGED role PROVE Owners' = Owners /\ role' \in [People -> Roles \cup {"none"}]
BY DEF Inv, Types, Owners

\* Ending a request that leaves the roles alone.
LEMMA EndsKeepsInv ==
  ASSUME Inv, NEW r \in Requests, Ends(r), role' = role, raced \subseteq raced'
  PROVE  Inv'
BY Harmless, IdleIsRequest, StandingStill DEF Ends

LEMMA MovesKeepsInv ==
  ASSUME Inv, NEW r \in Requests, NEW st \in Stages, Moves(r, st), role' = role, raced \subseteq raced',
         st # "ready" \/ req[r].op \notin {"change", "remove"}
  PROVE  Inv'
<1>. DEFINE x == [req[r] EXCEPT !.at = st]
<1>1. x \in Proper /\ x.at = st /\ x.op = req[r].op
  BY MoveIs DEF Inv
<1>2. req' = [req EXCEPT ![r] = x]
  BY MoveIs DEF Moves, Inv
<1>3. ~IsCounted(x)
  BY <1>1 DEF IsCounted
<1>. HIDE DEF x
<1>. QED BY <1>1, <1>2, <1>3, Harmless, StandingStill

LEMMA StartsKeepsInv ==
  ASSUME Inv, NEW r \in Requests, NEW call \in Proper, Starts(r, call), ~IsCounted(call)
  PROVE  Inv'
BY Harmless, StandingStill DEF Starts, rows

-------------------------------------------------------------------------------
\* The beginnings of requests.

LEMMA BeginOnMemberKeepsInv ==
  ASSUME Inv, NEW r \in Requests, BeginOnMember(r)
  PROVE  Inv'
<1>1. PICK p \in People, q \in People, op \in {"change", "remove", "access"} :
        Starts(r, [Idle EXCEPT !.op = op, !.at = "actor", !.rank = role[p], !.who = q])
  BY DEF BeginOnMember
<1>2. role[p] \in Roles \cup {"none"}
  BY DEF Inv, Types
<1>. DEFINE call == [Idle EXCEPT !.op = op, !.at = "actor", !.rank = role[p], !.who = q]
<1>3. call \in Proper /\ ~IsCounted(call)
  BY <1>2 DEF Idle, Proper, About, Request, IsCounted, Ops, Stages, Roles, Scopes
<1>. HIDE DEF call
<1>. QED BY <1>1, <1>3, StartsKeepsInv DEF call

LEMMA BeginAdminKeepsInv ==
  ASSUME Inv, NEW r \in Requests, BeginAdmin(r)
  PROVE  Inv'
<1>1. PICK q \in People, to \in Given \cup {"owner"} :
        Starts(r, [Idle EXCEPT !.op = "admin", !.at = "ready", !.who = q, !.to = to])
  BY DEF BeginAdmin
<1>. DEFINE call == [Idle EXCEPT !.op = "admin", !.at = "ready", !.who = q, !.to = to]
<1>2. call \in Proper /\ ~IsCounted(call)
  BY GivenAssumption DEF Idle, Proper, About, Request, IsCounted, Ops, Stages, Roles, Scopes
<1>. HIDE DEF call
<1>. QED BY <1>1, <1>2, StartsKeepsInv DEF call

LEMMA BeginInviteKeepsInv ==
  ASSUME Inv, NEW r \in Requests, BeginInvite(r)
  PROVE  Inv'
<1>1. PICK q \in People : Starts(r, [Idle EXCEPT !.op = "invite", !.at = "actor", !.who = q])
  BY DEF BeginInvite
<1>. DEFINE call == [Idle EXCEPT !.op = "invite", !.at = "actor", !.who = q]
<1>2. call \in Proper /\ ~IsCounted(call)
  BY DEF Idle, Proper, About, Request, IsCounted, Ops, Stages, Roles, Scopes
<1>. HIDE DEF call
<1>. QED BY <1>1, <1>2, StartsKeepsInv DEF call

LEMMA BeginRevokeKeepsInv ==
  ASSUME Inv, NEW r \in Requests, BeginRevoke(r)
  PROVE  Inv'
<1>1. PICK i \in Invitations : Starts(r, [Idle EXCEPT !.op = "revoke", !.at = "actor", !.inv = i])
  BY DEF BeginRevoke
<1>. DEFINE call == [Idle EXCEPT !.op = "revoke", !.at = "actor", !.inv = i]
<1>2. call \in Proper /\ ~IsCounted(call)
  BY DEF Idle, Proper, About, Request, IsCounted, Ops, Stages, Roles, Scopes
<1>. HIDE DEF call
<1>. QED BY <1>1, <1>2, StartsKeepsInv DEF call

LEMMA FindInvitationKeepsInv ==
  ASSUME Inv, Sent, NEW r \in Requests, FindInvitation(r)
  PROVE  Inv'
<1>1. PICK i \in Invitations : invitation[i].state = "pending" /\
        Starts(r, [Idle EXCEPT !.op = "accept", !.at = "actor", !.who = invitation[i].who, !.inv = i])
  BY DEF FindInvitation
<1>. DEFINE w == invitation[i].who
            call == [Idle EXCEPT !.op = "accept", !.at = "actor", !.who = w, !.inv = i]
<1>2. w \in People
  BY <1>1 DEF Sent
<1>. HIDE DEF w
<1>3. call \in Proper /\ ~IsCounted(call)
  BY <1>2 DEF Idle, Proper, About, Request, IsCounted, Ops, Stages, Roles, Scopes
<1>. HIDE DEF call
<1>. QED BY <1>1, <1>3, StartsKeepsInv DEF call, w

LEMMA BeginOnHostsKeepsInv ==
  ASSUME Inv, NEW r \in Requests, BeginAdd(r) \/ BeginOnHost(r)
  PROVE  Inv'
<1>1. ASSUME NEW p \in People PROVE role[p] \in Roles \cup {"none"}
  BY DEF Inv, Types
<1>2. CASE BeginAdd(r)
  <2>1. PICK p \in People : Starts(r, [Idle EXCEPT !.op = "add", !.at = "actor", !.by = p, !.rank = role[p]])
    BY <1>2 DEF BeginAdd
  <2>. DEFINE call == [Idle EXCEPT !.op = "add", !.at = "actor", !.by = p, !.rank = role[p]]
  <2>2. call \in Proper /\ ~IsCounted(call)
    BY <1>1 DEF Idle, Proper, About, Request, IsCounted, Ops, Stages, Roles, Scopes
  <2>. HIDE DEF call
  <2>. QED BY <2>1, <2>2, StartsKeepsInv DEF call
<1>3. CASE BeginOnHost(r)
  <2>1. PICK p \in People, h \in Hosts, op \in {"delete", "open"} :
          Starts(r, [Idle EXCEPT !.op = op, !.at = "actor", !.by = p, !.rank = role[p], !.host = h])
    BY <1>3 DEF BeginOnHost
  <2>. DEFINE call == [Idle EXCEPT !.op = op, !.at = "actor", !.by = p, !.rank = role[p], !.host = h]
  <2>2. call \in Proper /\ ~IsCounted(call)
    BY <1>1 DEF Idle, Proper, About, Request, IsCounted, Ops, Stages, Roles, Scopes
  <2>. HIDE DEF call
  <2>. QED BY <2>1, <2>2, StartsKeepsInv DEF call
<1>. QED BY <1>2, <1>3

-------------------------------------------------------------------------------
\* Members: the actions the owners depend on.

LEMMA ReadyAfterRead ==
  ASSUME NEW op \in {"change", "remove"}, NEW w \in People, NEW m \in Roles \cup {"none"},
         NEW to \in Roles \cup {"none"}, NEW st \in {"counting", "ready"},
         st = "ready" => ~(m = "owner" /\ to # "owner"), op = "remove" => to = "none"
  PROVE  /\ [Idle EXCEPT !.op = op, !.who = w, !.to = to, !.seen = m, !.at = st] \in Proper
         /\ ~IsCounted([Idle EXCEPT !.op = op, !.who = w, !.to = to, !.seen = m, !.at = st])
<1>. DEFINE x == [Idle EXCEPT !.op = op, !.who = w, !.to = to, !.seen = m, !.at = st]
<1>1. x \in Request
  BY DEF Idle, Request, Ops, Stages, Roles, Scopes
<1>2. x.op = op /\ x.at = st /\ x.who = w /\ x.seen = m /\ x.to = to
  BY DEF Idle
<1>. HIDE DEF x
<1>3. x \in Proper /\ ~IsCounted(x)
  BY <1>1, <1>2 DEF Proper, About, IsCounted
<1>. QED BY <1>3 DEF x

\* A request that is ready to take an owner down has come from a count, not from the read of the role.
LEMMA FindMemberKeepsInv ==
  ASSUME Inv, NEW r \in Requests, FindMember(r)
  PROVE  Inv'
<1>. DEFINE w == req[r].who  op == req[r].op  m == role[w]
            x(to) == [Idle EXCEPT !.op = op, !.who = w, !.to = to, !.seen = m,
                                  !.at = IF m = "owner" /\ to # "owner" THEN "counting" ELSE "ready"]
<1>1. /\ op \in {"change", "remove"} /\ w \in People /\ m \in Roles \cup {"none"}
      /\ role' = role /\ raced' = raced
  BY DEF Inv, Types, Proper, About, FindMember, rows
<1>2. PICK to \in Roles \cup {"none"} : /\ op = "remove" => to = "none"
        /\ IF Refused(m, req[r].rank, to) THEN Ends(r) ELSE req' = [req EXCEPT ![r] = x(to)]
  BY GivenAssumption DEF FindMember, Roles
<1>3. CASE Refused(m, req[r].rank, to)
  BY <1>1, <1>2, <1>3, EndsKeepsInv
<1>4. CASE ~Refused(m, req[r].rank, to)
  <2>. HIDE DEF w, op, m
  <2>0. op = "remove" => to = "none"
    BY <1>2
  <2>1. x(to) \in Proper /\ ~IsCounted(x(to))
    <3>. DEFINE st == IF m = "owner" /\ to # "owner" THEN "counting" ELSE "ready"
    <3>1. st \in {"counting", "ready"} /\ (st = "ready" => ~(m = "owner" /\ to # "owner"))
      OBVIOUS
    <3>. HIDE DEF st
    <3>. QED BY <1>1, <2>0, <3>1, ReadyAfterRead DEF st
  <2>. HIDE DEF x
  <2>. QED BY <1>1, <1>2, <1>4, <2>1, Harmless, StandingStill
<1>. QED BY <1>3, <1>4

\* The count leaves another owner, since there are two.
LEMMA CountOwnersKeepsInv ==
  ASSUME Inv, NEW r \in Requests, CountOwners(r)
  PROVE  Inv'
<1>1. role' = role /\ raced \subseteq raced' /\ At(r, req[r].op, "counting") /\ Downs(r)
  BY DEF CountOwners, rows, Race, At
<1>2. CASE LastOwner
  BY <1>1, <1>2, EndsKeepsInv DEF CountOwners
<1>3. CASE ~LastOwner
  <2>. DEFINE x == [req[r] EXCEPT !.at = "ready"]
  <2>1. /\ req' = [req EXCEPT ![r] = x] /\ x \in Proper /\ x.who = req[r].who
    BY <1>3, MoveIs DEF CountOwners, Moves, Inv, Stages
  <2>. HIDE DEF x
  <2>2. Types' /\ Owners' = Owners
    BY <1>1, <2>1 DEF Inv, Types, Owners
  <2>3. \E p \in Owners : p # req[r].who
    <3>1. IsFiniteSet(Owners)
      BY PeopleAssumption, FS_Subset DEF Owners
    <3>2. SUFFICES ASSUME Owners \subseteq {req[r].who} PROVE FALSE
      OBVIOUS
    <3>3. Cardinality({req[r].who}) = 1 /\ IsFiniteSet({req[r].who})
      BY FS_Singleton
    <3>4. Cardinality(Owners) <= 1
      BY <3>1, <3>2, <3>3, FS_Subset
    <3>. QED BY <1>3, <3>4 DEF LastOwner
  <2>4. ASSUME raced' \cap Taking = {}
        PROVE  Kept'
    <3>1. raced' = raced \cup When(\E o \in Requests : Downs(o) /\ req[o].at = "ready", "bothDown")
      BY <1>3 DEF CountOwners, Race
    <3>2. \A o \in Requests : ~Counted(o)
      BY <2>4, <3>1 DEF When, Taking, Counted, IsCounted, Downs
    <3>3. Owners # {} /\ raced \cap Taking = {}
      BY <2>4, <1>1, <2>3
    <3>4. \A o \in Requests : Counted(o)' => o = r
      BY <2>1, <3>2 DEF Counted, Inv, Types
    <3>5. AnotherOwner'
      BY <2>1, <2>2, <2>3, <3>4 DEF AnotherOwner, Inv, Types
    <3>. QED BY <2>2, <3>3, <3>4, <3>5 DEF Kept, OneAtATime
  <2>. QED BY <2>2, <2>4 DEF Inv, Kept
<1>. QED BY <1>2, <1>3

\* A step that touches no request.
LEMMA NoRequest ==
  ASSUME Inv, req' = req, role' = role, raced \subseteq raced'
  PROVE  Inv'
BY StandingStill DEF Inv, Types, Kept, AnotherOwner, OneAtATime, Counted, Taking

\* A role is written: by the request that counted, the others stand; by another, no owner is lost.
LEMMA WriteRoleKeepsInv ==
  ASSUME Inv, NEW r \in Requests, WriteRole(r)
  PROVE  Inv'
<1>. DEFINE q == req[r].who  to == req[r].to
<1>1. /\ q \in People /\ to \in Roles \cup {"none"} /\ req[r].op = "change" /\ req[r].at = "ready"
  BY DEF WriteRole, At, Inv, Types, Proper, About, Request
<1>2. CASE req[r].lost
  BY <1>2, EndsKeepsInv DEF WriteRole, rows
<1>3. CASE ~req[r].lost
  <2>1. /\ role' = [role EXCEPT ![q] = to]
        /\ Moves(r, "after") \/ Ends(r)
        /\ raced \subseteq raced'
        /\ role[q] = "owner" /\ req[r].seen # "owner" /\ to # "owner" => "staleRole" \in raced'
    BY <1>3 DEF WriteRole, Race, When
  <2>2. PICK x \in Proper : ~IsCounted(x) /\ req' = [req EXCEPT ![r] = x]
    <3>1. CASE Ends(r)
      BY <3>1, IdleIsRequest DEF Ends
    <3>2. CASE Moves(r, "after")
      <4>. DEFINE y == [req[r] EXCEPT !.at = "after"]
      <4>1. y \in Proper /\ y.at = "after" /\ req' = [req EXCEPT ![r] = y]
        BY <3>2, MoveIs DEF Inv, Moves, Stages
      <4>. HIDE DEF y
      <4>. QED BY <4>1 DEF IsCounted
    <3>. QED BY <2>1, <3>1, <3>2
  <2>3. role' \in [People -> Roles \cup {"none"}]
    BY <1>1, <2>1 DEF Inv, Types
  <2>4. CASE role[q] # "owner" \/ to = "owner"
    <3>1. Owners \subseteq Owners'
      BY <1>1, <2>1, <2>4 DEF Owners, Inv, Types
    <3>. QED BY <2>1, <2>2, <2>3, <3>1, Harmless
  <2>5. CASE role[q] = "owner" /\ to # "owner" /\ req[r].seen # "owner"
    <3>1. Types' /\ "staleRole" \in raced'
      BY <2>1, <2>2, <2>3, <2>5 DEF Inv, Types
    <3>. QED BY <3>1 DEF Inv, Kept, Taking
  <2>6. CASE to # "owner" /\ req[r].seen = "owner"
    <3>1. Counted(r)
      BY <1>1, <2>6 DEF Counted, IsCounted
    <3>2. Types'
      BY <2>2, <2>3 DEF Inv, Types
    <3>3. ASSUME raced' \cap Taking = {}
          PROVE  Kept'
      <4>1. PICK p \in Owners : p # q
        BY <2>1, <3>1, <3>3 DEF Inv, Kept, AnotherOwner
      <4>2. p \in Owners'
        BY <1>1, <2>1, <4>1 DEF Owners, Inv, Types
      <4>3. \A o \in Requests : ~Counted(o)'
        BY <2>1, <2>2, <3>1, <3>3 DEF Inv, Kept, OneAtATime, Counted, Types
      <4>. QED BY <4>2, <4>3 DEF Kept, AnotherOwner, OneAtATime
    <3>. QED BY <3>2, <3>3 DEF Inv, Kept
  <2>. QED BY <2>4, <2>5, <2>6
<1>. QED BY <1>2, <1>3

\* Removing a member marks what others have read of the row, which is nothing the owners depend on.
LEMMA ForgetIs ==
  ASSUME Types, NEW r \in Requests, NEW q, req' = [Forget(q) EXCEPT ![r] = Idle]
  PROVE  /\ req' \in [Requests -> Proper]
         /\ ~Counted(r)'
         /\ \A o \in Requests : Counted(o)' => Counted(o) /\ req'[o].who = req[o].who
<1>1. ASSUME NEW o \in Requests
      PROVE  /\ Forget(q)[o] \in Proper /\ Forget(q)[o].who = req[o].who
             /\ IsCounted(Forget(q)[o]) => Counted(o)
  <2>1. Forget(q)[o] = req[o] \/ Forget(q)[o] = [req[o] EXCEPT !.lost = TRUE]
    BY DEF Forget
  <2>. DEFINE x == [req[o] EXCEPT !.lost = TRUE]
  <2>2. req[o] \in Proper
    BY DEF Types
  <2>3. /\ x.op = req[o].op /\ x.at = req[o].at /\ x.who = req[o].who
        /\ x.seen = req[o].seen /\ x.to = req[o].to /\ x.inv = req[o].inv
    BY <2>2 DEF Proper, Request
  <2>4. x \in Request
    BY <2>2 DEF Proper, Request
  <2>5. x \in Proper
    BY <2>2, <2>3, <2>4 DEF Proper
  <2>. HIDE DEF x, Forget
  <2>. QED BY <2>1, <2>2, <2>3, <2>5 DEF Counted, IsCounted, x
<1>2. req' = [o \in Requests |-> IF o = r THEN Idle ELSE Forget(q)[o]]
  BY DEF Forget
<1>. HIDE DEF Forget
<1>3. ASSUME NEW o \in Requests
      PROVE  req'[o] = IF o = r THEN Idle ELSE Forget(q)[o]
  BY <1>2
<1>4. ASSUME NEW o \in Requests
      PROVE  req'[o] \in Proper /\ (Counted(o)' => o # r /\ Counted(o) /\ req'[o].who = req[o].who)
  BY <1>1, <1>3, IdleIsRequest DEF Counted
<1>5. req' \in [Requests -> Proper]
  BY <1>2, <1>4
<1>. QED BY <1>4, <1>5

LEMMA RemoveMemberKeepsInv ==
  ASSUME Inv, NEW r \in Requests, RemoveMember(r)
  PROVE  Inv'
<1>. DEFINE q == req[r].who
<1>1. q \in People /\ req[r].op = "remove" /\ req[r].at = "ready"
  BY DEF RemoveMember, At, Inv, Types, Proper, About, Request
<1>2. CASE req[r].lost
  BY <1>2, EndsKeepsInv DEF RemoveMember, rows
<1>3. CASE ~req[r].lost
  <2>1. /\ role' = [role EXCEPT ![q] = "none"]
        /\ req' = [Forget(q) EXCEPT ![r] = Idle]
        /\ raced \subseteq raced'
        /\ role[q] = "owner" /\ req[r].seen # "owner" => "staleRole" \in raced'
    BY <1>3 DEF RemoveMember, Race, When
  <2>. HIDE DEF q
  <2>2. /\ Types' /\ ~Counted(r)'
        /\ \A o \in Requests : Counted(o)' => Counted(o) /\ req'[o].who = req[o].who
    BY <1>1, <2>1, ForgetIs DEF Inv, Types
  <2>3. ASSUME raced' \cap Taking = {}
        PROVE  Kept'
    <3>1. Owners # {} /\ AnotherOwner /\ OneAtATime
      BY <2>1, <2>3 DEF Inv, Kept
    <3>2. OneAtATime'
      BY <2>2, <3>1 DEF OneAtATime
    <3>3. CASE req[r].seen = "owner"
      <4>1. Counted(r)
        <5>1. req[r].to # "owner"
          BY <1>1 DEF Inv, Types, Proper
        <5>. QED BY <1>1, <3>3, <5>1 DEF Counted, IsCounted
      <4>2. PICK p \in Owners : p # q
        BY <3>1, <4>1 DEF AnotherOwner, q
      <4>3. p \in Owners'
        BY <1>1, <2>1, <4>2 DEF Owners, Inv, Types
      <4>4. \A o \in Requests : ~Counted(o)'
        BY <2>2, <3>1, <4>1 DEF OneAtATime
      <4>. QED BY <3>2, <4>3, <4>4 DEF Kept, AnotherOwner
    <3>4. CASE req[r].seen # "owner"
      <4>1. Owners' = Owners
        BY <1>1, <2>1, <2>3, <3>4 DEF Owners, Inv, Types, Taking
      <4>. QED BY <2>2, <3>1, <3>2, <4>1 DEF Kept, AnotherOwner
    <3>. QED BY <3>3, <3>4
  <2>. QED BY <2>2, <2>3 DEF Inv, Kept
<1>. QED BY <1>2, <1>3

\* A platform administrator's edit counts as a race: what it does to the owners is nobody's promise.
LEMMA AdminWritesKeepsInv ==
  ASSUME Inv, NEW r \in Requests, AdminWrites(r)
  PROVE  Inv'
<1>1. CASE req[r].lost
  BY <1>1, EndsKeepsInv DEF AdminWrites, rows
<1>2. CASE ~req[r].lost
  <2>1. req[r].who \in People /\ req[r].to \in Roles \cup {"none"}
    BY DEF AdminWrites, At, Inv, Types, Proper, About, Request
  <2>2. Types'
    BY <1>2, <2>1, IdleIsRequest DEF AdminWrites, Ends, Inv, Types
  <2>3. "adminEdit" \in raced'
    BY <1>2 DEF AdminWrites, Race
  <2>. QED BY <2>2, <2>3 DEF Inv, Kept, Taking
<1>. QED BY <1>1, <1>2

-------------------------------------------------------------------------------
\* Members: the actions about grants.

LEMMA FindGovernedKeepsInv ==
  ASSUME Inv, NEW r \in Requests, FindGoverned(r)
  PROVE  Inv'
<1>. DEFINE w == req[r].who
            st(S) == IF S \cap Hosts # {} THEN "counting" ELSE "ready"
            x(S) == [Idle EXCEPT !.op = "access", !.who = w, !.scope = S, !.at = st(S)]
<1>1. w \in People /\ role' = role /\ raced' = raced
  BY DEF Inv, Types, Proper, About, FindGoverned, At, rows
<1>2. PICK S \in (SUBSET Hosts) \cup {{"*"}} : Ends(r) \/ req' = [req EXCEPT ![r] = x(S)]
  BY DEF FindGoverned
<1>5. S \in SUBSET Scopes
  BY DEF Scopes
<1>3. CASE Ends(r)
  BY <1>1, <1>3, EndsKeepsInv
<1>4. CASE req' = [req EXCEPT ![r] = x(S)]
  <2>1. st(S) \in Stages
    BY DEF Stages
  <2>. HIDE DEF w, st
  <2>2. x(S) \in Request /\ x(S).op = "access" /\ x(S).who = w
    BY <1>1, <1>5, <2>1 DEF Idle, Request, Ops, Stages, Roles, Scopes
  <2>. HIDE DEF x
  <2>3. x(S) \in Proper /\ ~IsCounted(x(S))
    BY <1>1, <2>2 DEF Proper, About, IsCounted
  <2>. QED BY <1>1, <1>4, <2>3, Harmless, StandingStill
<1>. QED BY <1>2, <1>3, <1>4

LEMMA AccessKeepsInv ==
  ASSUME Inv, NEW r \in Requests, CheckHosts(r) \/ DropGrants(r) \/ ReplaceAccess(r)
  PROVE  Inv'
<1>1. CASE CheckHosts(r)
  <2>1. role' = role /\ raced \subseteq raced' /\ req[r].op = "access"
    BY <1>1 DEF CheckHosts, At, rows
  <2>2. Moves(r, "ready") \/ Ends(r)
    BY <1>1 DEF CheckHosts
  <2>. QED BY <2>1, <2>2, EndsKeepsInv, MovesKeepsInv DEF Stages
<1>2. CASE DropGrants(r)
  BY <1>2, EndsKeepsInv DEF DropGrants, Race
<1>3. CASE ReplaceAccess(r)
  <2>1. Ends(r) /\ role' = role /\ raced \subseteq raced'
    BY <1>3 DEF ReplaceAccess, Race, rows
  <2>. QED BY <2>1, EndsKeepsInv
<1>. QED BY <1>1, <1>2, <1>3

-------------------------------------------------------------------------------
\* Invitations: they only ever add a member.

LEMMA InviteKeepsInv ==
  ASSUME Inv, NEW r \in Requests,
         CheckMember(r) \/ CheckPending(r) \/ CreateInvitation(r) \/ RevokeInvitation(r)
  PROVE  Inv'
<1>1. CASE CheckMember(r) \/ CheckPending(r)
  <2>1. role' = role /\ raced \subseteq raced' /\ req[r].op = "invite"
    BY <1>1 DEF CheckMember, CheckPending, At, rows
  <2>2. PICK st \in Stages : Moves(r, st) \/ Ends(r)
    BY <1>1 DEF CheckMember, CheckPending, Stages
  <2>. QED BY <2>1, <2>2, EndsKeepsInv, MovesKeepsInv
<1>2. CASE CreateInvitation(r) \/ RevokeInvitation(r)
  <2>1. Ends(r) /\ role' = role /\ raced \subseteq raced'
    BY <1>2 DEF CreateInvitation, RevokeInvitation, Race
  <2>. QED BY <2>1, EndsKeepsInv
<1>. QED BY <1>1, <1>2

LEMMA FindAccountKeepsInv ==
  ASSUME Inv, NEW r \in Requests, FindAccount(r)
  PROVE  Inv'
<1>. DEFINE a == req[r].who \in account  s == role[req[r].who]
            x == [[[req[r] EXCEPT !.at = "ready"] EXCEPT !.answer = a] EXCEPT !.seen = s]
<1>1. req[r] \in Proper /\ req[r].op = "accept" /\ role' = role /\ raced' = raced /\ s \in Roles \cup {"none"}
  BY DEF Inv, Types, Proper, About, FindAccount, At, rows
<1>2. a \in BOOLEAN
  OBVIOUS
<1>3. req' = [req EXCEPT ![r] = x]
  BY DEF FindAccount, Inv, Types
<1>. HIDE DEF a, s
<1>4. x \in Proper /\ x.op = "accept"
  BY <1>1, <1>2, ZenonT(40) DEF Proper, About, Request, Stages
<1>. HIDE DEF x
<1>. QED BY <1>1, <1>3, <1>4, Harmless, StandingStill DEF IsCounted

LEMMA AcceptKeepsInv ==
  ASSUME Inv, Sent, NEW r \in Requests, Accept(r)
  PROVE  Inv'
<1>. DEFINE q == req[r].who  i == req[r].inv
<1>1. q \in People /\ i \in Invitations
  BY DEF Accept, At, Inv, Types, Proper, About
<1>2. /\ Ends(r) /\ raced \subseteq raced'
      /\ role' = role \/ (role[q] = "none" /\ role' = [role EXCEPT ![q] = invitation[i].role])
  BY DEF Accept, Race, rows
<1>3. invitation[i].role \in Roles \cup {"none"}
  BY <1>1 DEF Sent
<1>4. role' \in [People -> Roles \cup {"none"}] /\ Owners \subseteq Owners'
  BY <1>1, <1>2, <1>3 DEF Owners, Inv, Types
<1>. QED BY <1>2, <1>4, Harmless, IdleIsRequest DEF Ends

-------------------------------------------------------------------------------
\* Hosts and sessions: roles are only read.

LEMMA AddHostKeepsInv ==
  ASSUME Inv, NEW r \in Requests, AddHost(r) \/ ShareHost(r)
  PROVE  Inv'
<1>1. role' = role /\ raced \subseteq raced'
  BY DEF AddHost, ShareHost, Share, Race
<1>2. CASE Ends(r)
  BY <1>1, <1>2, EndsKeepsInv
<1>3. CASE AddHost(r) /\ ~Ends(r)
  <2>1. PICK h \in Hosts : req' = [req EXCEPT ![r].at = "after", ![r].host = h, ![r].rank = "none"]
    BY <1>3 DEF AddHost
  <2>. DEFINE x == [[[req[r] EXCEPT !.at = "after"] EXCEPT !.host = h] EXCEPT !.rank = "none"]
  <2>2. req' = [req EXCEPT ![r] = x]
    BY <2>1 DEF Inv, Types
  <2>3. req[r] \in Proper /\ req[r].op = "add"
    BY <1>3 DEF Inv, Types, AddHost, At
  <2>4. x \in Request /\ x.op = "add"
    BY <2>3, ZenonT(40) DEF Proper, Request, Stages
  <2>. HIDE DEF x
  <2>5. x \in Proper /\ ~IsCounted(x)
    BY <2>4 DEF Proper, About, IsCounted
  <2>. QED BY <1>1, <2>2, <2>5, Harmless, StandingStill
<1>. QED BY <1>2, <1>3 DEF ShareHost

LEMMA FilterHostsKeepsInv ==
  ASSUME Inv, NEW r \in Requests, FilterHosts(r)
  PROVE  Inv'
<1>. DEFINE a == HasImplicitHostAccess(req[r].rank) \/ "*" \in grants[req[r].by]
            x == [[[req[r] EXCEPT !.at = "checked"] EXCEPT !.rank = "none"] EXCEPT !.answer = a]
<1>1. req[r] \in Proper /\ req[r].op \in {"delete", "open"} /\ role' = role /\ raced' = raced
  BY DEF Inv, Types, FilterHosts, rows
<1>2. a \in BOOLEAN
  BY DEF HasImplicitHostAccess
<1>3. req' = [req EXCEPT ![r] = x]
  BY DEF FilterHosts, Inv, Types
<1>. HIDE DEF a
<1>4. x \in Request /\ x.op = req[r].op
  BY <1>1, <1>2, ZenonT(40) DEF Proper, Request, Stages
<1>. HIDE DEF x
<1>5. x \in Proper /\ ~IsCounted(x)
  BY <1>1, <1>4 DEF Proper, About, IsCounted
<1>. QED BY <1>1, <1>3, <1>5, Harmless, StandingStill

LEMMA OnHostKeepsInv ==
  ASSUME Inv, NEW r \in Requests, FindHost(r) \/ DeleteHost(r) \/ OpenSession(r) \/ Fail(r)
  PROVE  Inv'
<1>1. CASE FindHost(r)
  <2>1. role' = role /\ raced \subseteq raced' /\ req[r].op \in {"delete", "open"}
    BY <1>1 DEF FindHost, rows
  <2>2. Moves(r, "ready") \/ Ends(r)
    BY <1>1 DEF FindHost
  <2>. QED BY <2>1, <2>2, EndsKeepsInv, MovesKeepsInv DEF Stages
<1>2. CASE DeleteHost(r) \/ OpenSession(r) \/ Fail(r)
  <2>1. Ends(r) /\ role' = role /\ raced \subseteq raced'
    BY <1>2 DEF DeleteHost, OpenSession, Fail, Race, rows
  <2>. QED BY <2>1, EndsKeepsInv
<1>. QED BY <1>1, <1>2

-------------------------------------------------------------------------------
\* Invitations name people.

LEMMA SentStays ==
  ASSUME Inv, Sent, Next
  PROVE  Sent'
<1>1. CASE invitation' = invitation
  BY <1>1 DEF Sent
<1>2. ASSUME NEW r \in Requests, CreateInvitation(r)
      PROVE  Sent'
  <2>1. req[r].who \in People
    BY <1>2 DEF CreateInvitation, At, Inv, Types, Proper, About
  <2>. QED BY <1>2, <2>1, GivenAssumption DEF CreateInvitation, Sent
<1>3. ASSUME NEW i \in Invitations, NEW st \in {"accepted", "expired", "deleted"},
             invitation' = [invitation EXCEPT ![i].state = st]
      PROVE  Sent'
  BY <1>3 DEF Sent
<1>4. ASSUME NEW q, invitation' = [i \in Invitations |-> [invitation[i] EXCEPT !.stale = @ \/ invitation[i].who = q]]
      PROVE  Sent'
  BY <1>4, ZenonT(40) DEF Sent
<1>5. ASSUME NEW r \in Requests, MemberStep(r)
      PROVE  Sent'
  BY <1>1, <1>4, <1>5 DEF MemberStep, BeginOnMember, FindMember, FindGoverned, CountOwners, CheckHosts, WriteRole,
     DropGrants, ReplaceAccess, RemoveMember, BeginAdmin, AdminWrites, Starts, rows
<1>6. ASSUME NEW r \in Requests, InvitationStep(r)
      PROVE  Sent'
  <2>1. req[r].op \in {"accept", "revoke"} => req[r].inv \in Invitations
    BY DEF Inv, Types, Proper
  <2>2. CASE RevokeInvitation(r) \/ Accept(r)
    BY <1>1, <1>3, <2>1, <2>2 DEF RevokeInvitation, Accept, At, rows
  <2>. QED BY <1>1, <1>2, <1>6, <2>2 DEF InvitationStep, BeginInvite, CheckMember, CheckPending, BeginRevoke,
           FindInvitation, FindAccount, Starts, rows
<1>7. ASSUME NEW r \in Requests, HostStep(r) \/ Fail(r)
      PROVE  Sent'
  BY <1>1, <1>7 DEF HostStep, Fail, BeginAdd, AddHost, ShareHost, BeginOnHost, FilterHosts, FindHost, DeleteHost,
     OpenSession, Starts, rows
<1>8. ASSUME NEW i \in Invitations, Expire(i)
      PROVE  Sent'
  BY <1>3, <1>8 DEF Expire
<1>9. ASSUME NEW s \in open, CloseSession(s)
      PROVE  Sent'
  BY <1>1, <1>9 DEF CloseSession
<1>. QED BY <1>5, <1>6, <1>7, <1>8, <1>9 DEF Next

-------------------------------------------------------------------------------
\* The rows of the database: members have accounts, and grants are of hosts that are there.

RolesOK == account \subseteq People /\ \A p \in People : role[p] # "none" => p \in account
GrantsOK == /\ grants \in [People -> SUBSET Scopes] /\ given \in [People -> SUBSET Scopes]
            /\ host \in [Hosts -> {"none", "there", "gone"}]
            /\ \A p \in People : grants[p] \ {"*"} \subseteq There
RestOK == calls \in 0..MaxCalls /\ open \subseteq People \X Hosts /\ raced \subseteq Races

\* What a request that has read a row still knows of it when it writes: accounts stay, and a host
\* that was added never becomes one that was not.
Knows(q, accounts, hosts) ==
  /\ q.op = "change" /\ q.at # "actor" => q.who \in accounts
  /\ q.op = "admin" => q.who \in accounts
  /\ q.op \in {"add", "delete", "open"} => q.by \in People
  /\ q.op \in {"delete", "open"} => q.host \in Hosts
  /\ q.op = "add" /\ q.at = "after" => q.host \in Hosts /\ hosts[q.host] # "none"
KnowsAll == \A r \in Requests : Knows(req[r], account, host)

Whole == Inv /\ Sent /\ RolesOK /\ GrantsOK /\ RestOK /\ KnowsAll

\* Which rows a step of each kind leaves alone.
LEMMA OthersLeaveRows ==
  ASSUME NEW r \in Requests,
         \/ BeginOnMember(r) \/ FindMember(r) \/ FindGoverned(r) \/ CountOwners(r) \/ CheckHosts(r) \/ BeginAdmin(r)
         \/ BeginInvite(r) \/ CheckMember(r) \/ CheckPending(r) \/ BeginRevoke(r) \/ FindInvitation(r) \/ FindAccount(r)
         \/ BeginAdd(r) \/ BeginOnHost(r) \/ FilterHosts(r) \/ FindHost(r) \/ Fail(r)
  PROVE  role' = role /\ grants' = grants /\ account' = account /\ host' = host /\ open' = open /\ given' = given
BY DEF BeginOnMember, FindMember, FindGoverned, CountOwners, CheckHosts, BeginAdmin, BeginInvite, CheckMember,
   CheckPending, BeginRevoke, FindInvitation, FindAccount, BeginAdd, BeginOnHost, FilterHosts, FindHost, Fail,
   Starts, rows

LEMMA RolesStay ==
  ASSUME Whole, Next
  PROVE  RolesOK' /\ account \subseteq account'
<1>1. CASE role' = role /\ account' = account
  BY <1>1 DEF Whole, RolesOK
<1>2. ASSUME NEW r \in Requests, WriteRole(r) \/ AdminWrites(r)
      PROVE  RolesOK' /\ account' = account
  <2>1. req[r].who \in account
    BY <1>2 DEF Whole, KnowsAll, Knows, WriteRole, AdminWrites, At
  <2>. QED BY <1>1, <1>2, <2>1 DEF Whole, Inv, Types, RolesOK, WriteRole, AdminWrites, rows
<1>3. ASSUME NEW r \in Requests, RemoveMember(r)
      PROVE  RolesOK' /\ account' = account
  BY <1>1, <1>3 DEF Whole, Inv, Types, RolesOK, RemoveMember, rows
<1>4. ASSUME NEW r \in Requests, Accept(r)
      PROVE  RolesOK' /\ account \subseteq account'
  <2>1. req[r].who \in People
    BY <1>4 DEF Whole, Inv, Types, Proper, About, Accept, At
  <2>. QED BY <1>1, <1>4, <2>1 DEF Whole, Inv, Types, RolesOK, Accept, rows
<1>5. ASSUME NEW r \in Requests,
             \/ DropGrants(r) \/ ReplaceAccess(r) \/ CreateInvitation(r) \/ RevokeInvitation(r)
             \/ AddHost(r) \/ ShareHost(r) \/ DeleteHost(r) \/ OpenSession(r)
      PROVE  role' = role /\ account' = account
  BY <1>5 DEF DropGrants, ReplaceAccess, CreateInvitation, RevokeInvitation, AddHost, ShareHost, DeleteHost,
     OpenSession, rows
<1>6. ASSUME NEW r \in Requests, MemberStep(r) \/ InvitationStep(r) \/ HostStep(r) \/ Fail(r)
      PROVE  RolesOK' /\ account \subseteq account'
  BY <1>1, <1>2, <1>3, <1>4, <1>5, <1>6, OthersLeaveRows DEF MemberStep, InvitationStep, HostStep
<1>7. CASE (\E i \in Invitations : Expire(i)) \/ (\E s \in open : CloseSession(s))
  BY <1>1, <1>7 DEF Expire, CloseSession
<1>. QED BY <1>6, <1>7 DEF Next

LEMMA GrantsStay ==
  ASSUME Whole, Next
  PROVE  GrantsOK' /\ \A h \in Hosts : host[h] # "none" => host'[h] # "none"
<1>0. req \in [Requests -> Proper]
  BY DEF Whole, Inv, Types
<1>1. CASE grants' = grants /\ given' = given /\ host' = host
  BY <1>1 DEF Whole, GrantsOK, There
<1>2. ASSUME NEW r \in Requests, WriteRole(r) \/ AdminWrites(r) \/ RemoveMember(r)
      PROVE  GrantsOK' /\ host' = host
  <2>1. grants' = grants /\ host' = host /\ There' = There
    BY <1>2 DEF WriteRole, AdminWrites, RemoveMember, rows, There
  <2>2. given' \in [People -> SUBSET Scopes]
    BY <1>2 DEF WriteRole, AdminWrites, RemoveMember, rows, Whole, GrantsOK
  <2>. QED BY <2>1, <2>2 DEF Whole, GrantsOK
<1>3. ASSUME NEW r \in Requests, DropGrants(r)
      PROVE  GrantsOK' /\ host' = host
  <2>1. grants' = [grants EXCEPT ![req[r].who] = {}] /\ given' = given /\ host' = host /\ There' = There
    BY <1>3 DEF DropGrants, There
  <2>2. grants' \in [People -> SUBSET Scopes] /\ \A p \in People : grants'[p] \subseteq grants[p]
    BY <2>1 DEF Whole, GrantsOK
  <2>. QED BY <2>1, <2>2 DEF Whole, GrantsOK
<1>4. ASSUME NEW r \in Requests, ReplaceAccess(r)
      PROVE  GrantsOK' /\ host' = host
  <2>1. req[r].scope \in SUBSET Scopes
    BY <1>0 DEF Proper, Request
  <2>2. CASE ~(req[r].scope \ {"*"} \subseteq There)
    BY <1>1, <1>4, <2>2 DEF ReplaceAccess, rows
  <2>3. CASE req[r].scope \ {"*"} \subseteq There
    <3>1. host' = host /\ There' = There
      BY <1>4, <2>3 DEF ReplaceAccess, There
    <3>2. grants' = [grants EXCEPT ![req[r].who] = req[r].scope]
      BY <1>4, <2>3 DEF ReplaceAccess
    <3>3. given' \in [People -> SUBSET Scopes]
      BY <1>4, <2>1, <2>3 DEF ReplaceAccess, Whole, GrantsOK
    <3>4. grants' \in [People -> SUBSET Scopes] /\ \A p \in People : grants'[p] = grants[p] \/ grants'[p] = req[r].scope
      BY <2>1, <3>2 DEF Whole, GrantsOK
    <3>. QED BY <2>3, <3>1, <3>3, <3>4 DEF Whole, GrantsOK
  <2>. QED BY <2>2, <2>3
<1>5. ASSUME NEW p \in People, NEW h \in Hosts, Share(p, h), host' \in [Hosts -> {"none", "there", "gone"}],
             host'[h] = "there", There \subseteq There'
      PROVE  GrantsOK'
  <2>1. /\ grants' = [grants EXCEPT ![p] = @ \cup {h}]
        /\ given' = given \/ given' = [given EXCEPT ![p] = @ \cup {h}]
    BY <1>5 DEF Share, Whole, GrantsOK
  <2>2. h \in Scopes /\ h \in There'
    BY <1>5 DEF Scopes, There
  <2>3. \A q \in People : grants'[q] = grants[q] \/ grants'[q] = grants[q] \cup {h}
    BY <2>1 DEF Whole, GrantsOK
  <2>. QED BY <1>5, <2>1, <2>2, <2>3 DEF Whole, GrantsOK
<1>6. ASSUME NEW r \in Requests, AddHost(r)
      PROVE  GrantsOK' /\ \A h \in Hosts : host[h] # "none" => host'[h] # "none"
  <2>1. PICK h \in Hosts : /\ host[h] = "none" /\ host' = [host EXCEPT ![h] = "there"]
                           /\ (grants' = grants /\ given' = given) \/ Share(req[r].by, h)
    BY <1>6 DEF AddHost
  <2>2. /\ host' \in [Hosts -> {"none", "there", "gone"}] /\ host'[h] = "there" /\ There \subseteq There'
        /\ \A o \in Hosts : host[o] # "none" => host'[o] # "none"
    BY <2>1 DEF Whole, GrantsOK, There
  <2>3. req[r].by \in People
    BY <1>6 DEF Whole, KnowsAll, Knows, AddHost, At
  <2>4. CASE grants' = grants /\ given' = given
    BY <2>2, <2>4 DEF Whole, GrantsOK
  <2>. QED BY <1>5, <2>1, <2>2, <2>3, <2>4
<1>7. ASSUME NEW r \in Requests, ShareHost(r)
      PROVE  GrantsOK' /\ host' = host
  <2>1. req[r].by \in People /\ req[r].host \in Hosts /\ host[req[r].host] # "none" /\ host' = host
    BY <1>7 DEF Whole, KnowsAll, Knows, ShareHost, At
  <2>2. CASE host[req[r].host] = "gone" \/ req[r].host \in grants[req[r].by]
    BY <1>1, <1>7, <2>1, <2>2 DEF ShareHost
  <2>3. CASE ~(host[req[r].host] = "gone" \/ req[r].host \in grants[req[r].by])
    <3>1. Share(req[r].by, req[r].host)
      BY <1>7, <2>3 DEF ShareHost
    <3>2. host'[req[r].host] = "there" /\ There \subseteq There'
      BY <2>1, <2>3 DEF Whole, GrantsOK, There
    <3>. QED BY <1>5, <2>1, <3>1, <3>2 DEF Whole, GrantsOK
  <2>. QED BY <2>2, <2>3
<1>8. ASSUME NEW r \in Requests, DeleteHost(r)
      PROVE  GrantsOK' /\ \A h \in Hosts : host[h] # "none" => host'[h] # "none"
  <2>. DEFINE h == req[r].host
  <2>1. /\ host' = [host EXCEPT ![h] = "gone"]
        /\ grants' = [p \in People |-> grants[p] \ {h}]
        /\ given' = [p \in People |-> given[p] \ {h}]
    BY <1>8 DEF DeleteHost
  <2>. HIDE DEF h
  <2>2. /\ host' \in [Hosts -> {"none", "there", "gone"}]
        /\ There \ {h} \subseteq There'
        /\ \A o \in Hosts : host[o] # "none" => host'[o] # "none"
    BY <2>1, ZenonT(40) DEF Whole, GrantsOK, There
  <2>3. \A p \in People : grants'[p] = grants[p] \ {h} /\ given'[p] = given[p] \ {h}
    BY <2>1
  <2>4. grants' \in [People -> SUBSET Scopes] /\ given' \in [People -> SUBSET Scopes]
    BY <2>1 DEF Whole, GrantsOK
  <2>. QED BY <2>2, <2>3, <2>4 DEF Whole, GrantsOK
<1>9. ASSUME NEW r \in Requests, CreateInvitation(r) \/ RevokeInvitation(r) \/ Accept(r) \/ OpenSession(r)
      PROVE  grants' = grants /\ given' = given /\ host' = host
  BY <1>9 DEF CreateInvitation, RevokeInvitation, Accept, OpenSession, rows
<1>10. ASSUME NEW r \in Requests, MemberStep(r) \/ InvitationStep(r) \/ HostStep(r) \/ Fail(r)
       PROVE  GrantsOK' /\ \A h \in Hosts : host[h] # "none" => host'[h] # "none"
  BY <1>1, <1>2, <1>3, <1>4, <1>6, <1>7, <1>8, <1>9, <1>10, OthersLeaveRows DEF MemberStep, InvitationStep, HostStep
<1>11. CASE (\E i \in Invitations : Expire(i)) \/ (\E s \in open : CloseSession(s))
  BY <1>1, <1>11 DEF Expire, CloseSession
<1>. QED BY <1>10, <1>11 DEF Next

LEMMA RestStays ==
  ASSUME Whole, Next
  PROVE  RestOK'
<1>1. ASSUME NEW S, Race(S) PROVE raced' \in SUBSET Races
  BY <1>1 DEF Race
<1>2. calls' \in 0..MaxCalls
  <2>1. CASE calls' = calls
    BY <2>1 DEF Whole, RestOK
  <2>2. ASSUME NEW r \in Requests, NEW call, Starts(r, call) PROVE calls' \in 0..MaxCalls
    BY <2>2, BoundsAssumption DEF Starts, Whole, RestOK
  <2>3. ASSUME NEW r \in Requests, MemberStep(r) PROVE calls' \in 0..MaxCalls
    BY <2>1, <2>2, <2>3 DEF MemberStep, BeginOnMember, FindMember, FindGoverned, CountOwners, CheckHosts, WriteRole,
       DropGrants, ReplaceAccess, RemoveMember, BeginAdmin, AdminWrites
  <2>4. ASSUME NEW r \in Requests, InvitationStep(r) PROVE calls' \in 0..MaxCalls
    BY <2>1, <2>2, <2>4 DEF InvitationStep, BeginInvite, CheckMember, CheckPending, CreateInvitation, BeginRevoke,
       RevokeInvitation, FindInvitation, FindAccount, Accept
  <2>5. ASSUME NEW r \in Requests, HostStep(r) \/ Fail(r) PROVE calls' \in 0..MaxCalls
    BY <2>1, <2>2, <2>5 DEF HostStep, Fail, BeginAdd, AddHost, ShareHost, BeginOnHost, FilterHosts, FindHost,
       DeleteHost, OpenSession
  <2>6. CASE (\E i \in Invitations : Expire(i)) \/ (\E s \in open : CloseSession(s))
    BY <2>1, <2>6 DEF Expire, CloseSession
  <2>. QED BY <2>3, <2>4, <2>5, <2>6 DEF Next
<1>3. raced' \subseteq Races
  <2>1. CASE raced' = raced
    BY <2>1 DEF Whole, RestOK
  <2>2. ASSUME NEW r \in Requests, MemberStep(r) PROVE raced' \subseteq Races
    BY <1>1, <2>1, <2>2 DEF MemberStep, BeginOnMember, FindMember, FindGoverned, CountOwners, CheckHosts, WriteRole,
       DropGrants, ReplaceAccess, RemoveMember, BeginAdmin, AdminWrites, Starts
  <2>3. ASSUME NEW r \in Requests, InvitationStep(r) PROVE raced' \subseteq Races
    BY <1>1, <2>1, <2>3 DEF InvitationStep, BeginInvite, CheckMember, CheckPending, CreateInvitation, BeginRevoke,
       RevokeInvitation, FindInvitation, FindAccount, Accept, Starts
  <2>4. ASSUME NEW r \in Requests, HostStep(r) \/ Fail(r) PROVE raced' \subseteq Races
    BY <1>1, <2>1, <2>4 DEF HostStep, Fail, BeginAdd, AddHost, ShareHost, Share, BeginOnHost, FilterHosts, FindHost,
       DeleteHost, OpenSession, Starts
  <2>5. CASE (\E i \in Invitations : Expire(i)) \/ (\E s \in open : CloseSession(s))
    BY <1>1, <2>1, <2>5 DEF Expire, CloseSession
  <2>. QED BY <2>2, <2>3, <2>4, <2>5 DEF Next
<1>4. open' \subseteq People \X Hosts
  <2>1. CASE open' \subseteq open
    BY <2>1 DEF Whole, RestOK
  <2>2. ASSUME NEW r \in Requests, OpenSession(r) PROVE open' \subseteq People \X Hosts
    <3>1. req[r].by \in People
      BY <2>2 DEF Whole, KnowsAll, Knows, OpenSession, At
    <3>. QED BY <2>2, <3>1 DEF Whole, RestOK, OpenSession, There
  <2>3. ASSUME NEW r \in Requests, DeleteHost(r) PROVE open' \subseteq open
    BY <2>3 DEF DeleteHost
  <2>4. ASSUME NEW r \in Requests,
               \/ WriteRole(r) \/ DropGrants(r) \/ ReplaceAccess(r) \/ RemoveMember(r) \/ AdminWrites(r)
               \/ CreateInvitation(r) \/ RevokeInvitation(r) \/ Accept(r) \/ AddHost(r) \/ ShareHost(r)
        PROVE  open' = open
    BY <2>4 DEF WriteRole, DropGrants, ReplaceAccess, RemoveMember, AdminWrites, CreateInvitation, RevokeInvitation,
       Accept, AddHost, ShareHost, rows
  <2>5. ASSUME NEW r \in Requests, MemberStep(r) \/ InvitationStep(r) \/ HostStep(r) \/ Fail(r)
        PROVE  open' \subseteq People \X Hosts
    BY <2>1, <2>2, <2>3, <2>4, <2>5, OthersLeaveRows DEF MemberStep, InvitationStep, HostStep
  <2>6. CASE (\E i \in Invitations : Expire(i)) \/ (\E s \in open : CloseSession(s))
    BY <2>1, <2>6 DEF Expire, CloseSession
  <2>. QED BY <2>5, <2>6 DEF Next
<1>. QED BY <1>2, <1>3, <1>4 DEF RestOK

\* What the requests know stays true when one of them comes to know something else.
LEMMA KnowsOthers ==
  ASSUME Whole, Next, NEW r \in Requests, NEW x, req' = [req EXCEPT ![r] = x], Knows(x, account', host')
  PROVE  KnowsAll'
<1>1. account \subseteq account' /\ \A h \in Hosts : host[h] # "none" => host'[h] # "none"
  BY RolesStay, GrantsStay
<1>2. ASSUME NEW o \in Requests, o # r
      PROVE  Knows(req'[o], account', host')
  <2>1. req'[o] = req[o] /\ Knows(req[o], account, host)
    BY <1>2 DEF Whole, Inv, Types, KnowsAll
  <2>. QED BY <1>1, <2>1 DEF Knows
<1>3. Knows(req'[r], account', host')
  BY DEF Whole, Inv, Types
<1>. QED BY <1>2, <1>3 DEF KnowsAll

LEMMA EndKnows ==
  ASSUME Whole, Next, NEW r \in Requests, Ends(r)
  PROVE  KnowsAll'
<1>1. Knows(Idle, account', host')
  BY DEF Knows, Idle
<1>. QED BY <1>1, KnowsOthers DEF Ends

\* A request that has read its row before comes to know nothing new by waiting for something else.
LEMMA MoveKnows ==
  ASSUME Whole, Next, NEW r \in Requests, NEW st \in Stages, Moves(r, st),
         req[r].op = "change" => req[r].at # "actor", req[r].op # "add"
  PROVE  KnowsAll'
<1>. DEFINE x == [req[r] EXCEPT !.at = st]
<1>1. /\ req[r] \in Request /\ Knows(req[r], account, host)
      /\ req' = [req EXCEPT ![r] = x]
  BY MoveIs DEF Whole, Inv, Types, Proper, KnowsAll, Moves
<1>2. x.op = req[r].op /\ x.who = req[r].who /\ x.by = req[r].by /\ x.host = req[r].host
  BY <1>1 DEF Request
<1>. HIDE DEF x
<1>3. account \subseteq account'
  BY RolesStay
<1>4. Knows(x, account', host')
  BY <1>1, <1>2, <1>3 DEF Knows
<1>. QED BY <1>1, <1>4, KnowsOthers

LEMMA BeginKnows ==
  ASSUME Whole, Next, NEW r \in Requests,
         BeginOnMember(r) \/ BeginAdmin(r) \/ BeginInvite(r) \/ BeginRevoke(r) \/ FindInvitation(r)
           \/ BeginAdd(r) \/ BeginOnHost(r)
  PROVE  KnowsAll'
<1>1. ASSUME NEW call, Starts(r, call), Knows(call, account', host')
      PROVE  KnowsAll'
  BY <1>1, KnowsOthers DEF Starts
<1>2. ASSUME NEW p \in People, NEW q, NEW op \in {"change", "remove", "access"},
             Starts(r, [Idle EXCEPT !.op = op, !.at = "actor", !.rank = role[p], !.who = q])
      PROVE  KnowsAll'
  <2>. DEFINE call == [Idle EXCEPT !.op = op, !.at = "actor", !.rank = role[p], !.who = q]
  <2>1. call.op = op /\ call.at = "actor"
    BY DEF Idle
  <2>. HIDE DEF call
  <2>2. Knows(call, account', host')
    BY <2>1 DEF Knows
  <2>. QED BY <1>1, <1>2, <2>2 DEF call
<1>3. CASE BeginAdmin(r)
  <2>1. PICK q \in People, to \in Given \cup {"owner"} :
          role[q] # "none" /\ Starts(r, [Idle EXCEPT !.op = "admin", !.at = "ready", !.who = q, !.to = to])
    BY <1>3 DEF BeginAdmin
  <2>. DEFINE call == [Idle EXCEPT !.op = "admin", !.at = "ready", !.who = q, !.to = to]
  <2>2. call.op = "admin" /\ call.who = q /\ q \in account'
    BY <2>1, RolesStay DEF Idle, Whole, RolesOK
  <2>. HIDE DEF call
  <2>3. Knows(call, account', host')
    BY <2>2 DEF Knows
  <2>. QED BY <1>1, <2>1, <2>3 DEF call
<1>4. ASSUME NEW call, Starts(r, call), call.op \in {"invite", "revoke", "accept"}
      PROVE  KnowsAll'
  BY <1>1, <1>4 DEF Knows
<1>5. CASE BeginInvite(r)
  <2>1. PICK q \in People : Starts(r, [Idle EXCEPT !.op = "invite", !.at = "actor", !.who = q])
    BY <1>5 DEF BeginInvite
  <2>. DEFINE call == [Idle EXCEPT !.op = "invite", !.at = "actor", !.who = q]
  <2>2. call.op = "invite"
    BY DEF Idle
  <2>. HIDE DEF call
  <2>. QED BY <1>4, <2>1, <2>2 DEF call
<1>6. CASE BeginRevoke(r)
  <2>1. PICK i \in Invitations : Starts(r, [Idle EXCEPT !.op = "revoke", !.at = "actor", !.inv = i])
    BY <1>6 DEF BeginRevoke
  <2>. DEFINE call == [Idle EXCEPT !.op = "revoke", !.at = "actor", !.inv = i]
  <2>2. call.op = "revoke"
    BY DEF Idle
  <2>. HIDE DEF call
  <2>. QED BY <1>4, <2>1, <2>2 DEF call
<1>9. CASE FindInvitation(r)
  <2>1. PICK i \in Invitations :
          Starts(r, [Idle EXCEPT !.op = "accept", !.at = "actor", !.who = invitation[i].who, !.inv = i])
    BY <1>9 DEF FindInvitation
  <2>. DEFINE w == invitation[i].who
              call == [Idle EXCEPT !.op = "accept", !.at = "actor", !.who = w, !.inv = i]
  <2>. HIDE DEF w
  <2>2. call.op = "accept"
    BY DEF Idle
  <2>. HIDE DEF call
  <2>. QED BY <1>4, <2>1, <2>2 DEF call, w
<1>7. CASE BeginAdd(r)
  <2>1. PICK p \in People : Starts(r, [Idle EXCEPT !.op = "add", !.at = "actor", !.by = p, !.rank = role[p]])
    BY <1>7 DEF BeginAdd
  <2>. DEFINE call == [Idle EXCEPT !.op = "add", !.at = "actor", !.by = p, !.rank = role[p]]
  <2>2. call.op = "add" /\ call.at = "actor" /\ call.by = p
    BY DEF Idle
  <2>. HIDE DEF call
  <2>3. Knows(call, account', host')
    BY <2>2 DEF Knows
  <2>. QED BY <1>1, <2>1, <2>3 DEF call
<1>8. CASE BeginOnHost(r)
  <2>1. PICK p \in People, h \in Hosts, op \in {"delete", "open"} :
          Starts(r, [Idle EXCEPT !.op = op, !.at = "actor", !.by = p, !.rank = role[p], !.host = h])
    BY <1>8 DEF BeginOnHost
  <2>. DEFINE call == [Idle EXCEPT !.op = op, !.at = "actor", !.by = p, !.rank = role[p], !.host = h]
  <2>2. call.op = op /\ call.by = p /\ call.host = h
    BY DEF Idle
  <2>. HIDE DEF call
  <2>3. Knows(call, account', host')
    BY <2>2 DEF Knows
  <2>. QED BY <1>1, <2>1, <2>3 DEF call
<1>. QED BY <1>2, <1>3, <1>5, <1>6, <1>7, <1>8, <1>9 DEF BeginOnMember

LEMMA ReadKnows ==
  ASSUME Whole, Next, NEW r \in Requests,
         FindMember(r) \/ FindGoverned(r) \/ FindAccount(r) \/ FilterHosts(r) \/ AddHost(r)
  PROVE  KnowsAll'
<1>0. /\ req \in [Requests -> Proper] /\ Knows(req[r], account, host)
      /\ req[r] \in Request
  BY DEF Whole, Inv, Types, KnowsAll, Proper
<1>1. CASE FindMember(r)
  <2>. DEFINE w == req[r].who  op == req[r].op  m == role[w]
              x(to) == [Idle EXCEPT !.op = op, !.who = w, !.to = to, !.seen = m,
                                    !.at = IF m = "owner" /\ to # "owner" THEN "counting" ELSE "ready"]
  <2>1. op \in {"change", "remove"} /\ w \in People /\ account' = account
    BY <1>0, <1>1 DEF FindMember, rows, Proper, About
  <2>2. PICK to : IF Refused(m, req[r].rank, to) THEN Ends(r) ELSE req' = [req EXCEPT ![r] = x(to)]
    BY <1>1 DEF FindMember
  <2>3. x(to).op = op /\ x(to).who = w
    BY DEF Idle
  <2>. HIDE DEF op, m, x, w
  <2>4. CASE ~Refused(m, req[r].rank, to)
    <3>1. w \in account'
      BY <2>1, <2>4 DEF Refused, Whole, RolesOK, m
    <3>2. Knows(x(to), account', host')
      BY <2>1, <2>3, <3>1 DEF Knows
    <3>. QED BY <2>2, <2>4, <3>2, KnowsOthers
  <2>. QED BY <2>2, <2>4, EndKnows
<1>2. CASE FindGoverned(r)
  <2>. DEFINE w == req[r].who
              x(S) == [Idle EXCEPT !.op = "access", !.who = w, !.scope = S,
                                   !.at = IF S \cap Hosts # {} THEN "counting" ELSE "ready"]
  <2>1. PICK S : Ends(r) \/ req' = [req EXCEPT ![r] = x(S)]
    BY <1>2 DEF FindGoverned
  <2>2. x(S).op = "access"
    BY DEF Idle
  <2>. HIDE DEF w, x
  <2>3. Knows(x(S), account', host')
    BY <2>2 DEF Knows
  <2>. QED BY <2>1, <2>3, EndKnows, KnowsOthers
<1>3. CASE FindAccount(r)
  <2>. DEFINE a == req[r].who \in account  s == role[req[r].who]
              x == [[[req[r] EXCEPT !.at = "ready"] EXCEPT !.answer = a] EXCEPT !.seen = s]
  <2>1. req[r].op = "accept" /\ req' = [req EXCEPT ![r] = x]
    BY <1>0, <1>3 DEF FindAccount, At
  <2>2. x.op = "accept"
    BY <1>0, <2>1 DEF Request
  <2>. HIDE DEF x
  <2>3. Knows(x, account', host')
    BY <2>2 DEF Knows
  <2>. QED BY <2>1, <2>3, KnowsOthers
<1>4. CASE FilterHosts(r)
  <2>. DEFINE a == HasImplicitHostAccess(req[r].rank) \/ "*" \in grants[req[r].by]
              x == [[[req[r] EXCEPT !.at = "checked"] EXCEPT !.rank = "none"] EXCEPT !.answer = a]
  <2>1. req[r].op \in {"delete", "open"} /\ req' = [req EXCEPT ![r] = x]
    BY <1>0, <1>4 DEF FilterHosts
  <2>2. x.op = req[r].op /\ x.by = req[r].by /\ x.host = req[r].host
    BY <1>0 DEF Request
  <2>. HIDE DEF x
  <2>3. Knows(x, account', host')
    BY <1>0, <2>1, <2>2 DEF Knows
  <2>. QED BY <2>1, <2>3, KnowsOthers
<1>5. CASE AddHost(r) /\ ~Ends(r)
  <2>1. PICK h \in Hosts : /\ host' = [host EXCEPT ![h] = "there"] /\ req[r].op = "add"
                           /\ req' = [req EXCEPT ![r].at = "after", ![r].host = h, ![r].rank = "none"]
    BY <1>5 DEF AddHost, At
  <2>. DEFINE x == [[[req[r] EXCEPT !.at = "after"] EXCEPT !.host = h] EXCEPT !.rank = "none"]
  <2>2. req' = [req EXCEPT ![r] = x] /\ host'[h] # "none"
    BY <1>0, <2>1 DEF Whole, GrantsOK
  <2>3. x.op = "add" /\ x.by = req[r].by /\ x.host = h
    BY <1>0, <2>1 DEF Request
  <2>. HIDE DEF x
  <2>4. Knows(x, account', host')
    BY <1>0, <2>1, <2>2, <2>3 DEF Knows
  <2>. QED BY <2>2, <2>4, KnowsOthers
<1>. QED BY <1>1, <1>2, <1>3, <1>4, <1>5, EndKnows

LEMMA RemoveKnows ==
  ASSUME Whole, Next, NEW r \in Requests, RemoveMember(r), ~req[r].lost
  PROVE  KnowsAll'
<1>. DEFINE q == req[r].who
<1>1. req' = [Forget(q) EXCEPT ![r] = Idle] /\ account' = account /\ host' = host
  BY DEF RemoveMember
<1>. HIDE DEF q
<1>2. ASSUME NEW o \in Requests
      PROVE  Knows(req'[o], account', host')
  <2>1. CASE o = r
    <3>1. req'[o] = Idle
      BY <1>1, <2>1 DEF Forget
    <3>. QED BY <3>1 DEF Knows, Idle
  <2>2. CASE o # r
    <3>. DEFINE x == [req[o] EXCEPT !.lost = TRUE]
    <3>1. req'[o] = req[o] \/ req'[o] = x
      BY <1>1, <2>2 DEF Forget
    <3>2. Knows(req[o], account, host) /\ req[o] \in Request
      BY DEF Whole, KnowsAll, Inv, Types, Proper
    <3>3. x.op = req[o].op /\ x.at = req[o].at /\ x.who = req[o].who /\ x.by = req[o].by /\ x.host = req[o].host
      BY <3>2 DEF Request
    <3>. HIDE DEF x
    <3>. QED BY <1>1, <3>1, <3>2, <3>3 DEF Knows
  <2>. QED BY <2>1, <2>2
<1>. QED BY <1>2 DEF KnowsAll

LEMMA KnowsStays ==
  ASSUME Whole, Next
  PROVE  KnowsAll'
<1>1. ASSUME NEW r \in Requests, CountOwners(r) \/ CheckHosts(r) \/ WriteRole(r) \/ CheckMember(r)
                                   \/ CheckPending(r) \/ FindHost(r)
      PROVE  KnowsAll'
  <2>1. /\ req[r].op = "change" => req[r].at # "actor"
        /\ req[r].op # "add"
    BY <1>1 DEF CountOwners, Downs, CheckHosts, WriteRole, CheckMember, CheckPending, FindHost, At
  <2>2. Ends(r) \/ Moves(r, "ready") \/ Moves(r, "after") \/ Moves(r, "member")
    BY <1>1 DEF CountOwners, CheckHosts, WriteRole, CheckMember, CheckPending, FindHost
  <2>. QED BY <2>1, <2>2, EndKnows, MoveKnows DEF Stages
<1>2. ASSUME NEW r \in Requests,
             \/ DropGrants(r) \/ ReplaceAccess(r) \/ AdminWrites(r) \/ CreateInvitation(r) \/ RevokeInvitation(r)
             \/ Accept(r) \/ ShareHost(r) \/ DeleteHost(r) \/ OpenSession(r) \/ Fail(r)
             \/ (RemoveMember(r) /\ req[r].lost)
      PROVE  KnowsAll'
  <2>1. Ends(r)
    BY <1>2 DEF DropGrants, ReplaceAccess, AdminWrites, CreateInvitation, RevokeInvitation, Accept, ShareHost,
       DeleteHost, OpenSession, Fail, RemoveMember
  <2>. QED BY <2>1, EndKnows
<1>3. ASSUME NEW r \in Requests, MemberStep(r) \/ InvitationStep(r) \/ HostStep(r) \/ Fail(r)
      PROVE  KnowsAll'
  BY <1>1, <1>2, <1>3, BeginKnows, ReadKnows, RemoveKnows DEF MemberStep, InvitationStep, HostStep
<1>4. CASE (\E i \in Invitations : Expire(i)) \/ (\E s \in open : CloseSession(s))
  <2>1. req' = req /\ account' = account /\ host' = host
    BY <1>4 DEF Expire, CloseSession
  <2>. QED BY <2>1 DEF Whole, KnowsAll
<1>. QED BY <1>3, <1>4 DEF Next

-------------------------------------------------------------------------------
\* The theorem.

LEMMA InvInit == Init => Inv /\ Sent
<1>. SUFFICES ASSUME Init PROVE Inv /\ Sent
  OBVIOUS
<1>1. Types
  BY IdleIsRequest, GivenAssumption DEF Init, Types, Roles
<1>2. \A r \in Requests : ~Counted(r)
  BY IdleIsRequest DEF Init, Counted
<1>3. Sent
  BY DEF Init, Sent, NoInvitation
<1>. QED BY <1>1, <1>2, <1>3 DEF Init, Inv, Kept, AnotherOwner, OneAtATime

LEMMA NextKeepsInv ==
  ASSUME Inv, Sent, Next
  PROVE  Inv'
<1>1. ASSUME NEW r \in Requests, MemberStep(r)
      PROVE  Inv'
  BY <1>1, BeginOnMemberKeepsInv, FindMemberKeepsInv, FindGovernedKeepsInv, CountOwnersKeepsInv, AccessKeepsInv,
     WriteRoleKeepsInv, RemoveMemberKeepsInv, BeginAdminKeepsInv, AdminWritesKeepsInv DEF MemberStep
<1>2. ASSUME NEW r \in Requests, InvitationStep(r)
      PROVE  Inv'
  BY <1>2, BeginInviteKeepsInv, InviteKeepsInv, BeginRevokeKeepsInv, FindInvitationKeepsInv, FindAccountKeepsInv,
     AcceptKeepsInv DEF InvitationStep
<1>3. ASSUME NEW r \in Requests, HostStep(r) \/ Fail(r)
      PROVE  Inv'
  BY <1>3, BeginOnHostsKeepsInv, AddHostKeepsInv, FilterHostsKeepsInv, OnHostKeepsInv DEF HostStep
<1>4. ASSUME NEW i \in Invitations, Expire(i)
      PROVE  Inv'
  BY <1>4, NoRequest DEF Expire, Race
<1>5. ASSUME NEW s \in open, CloseSession(s)
      PROVE  Inv'
  BY <1>5, NoRequest DEF CloseSession
<1>. QED BY <1>1, <1>2, <1>3, <1>4, <1>5 DEF Next

LEMMA StutterKeepsInv ==
  ASSUME Inv, Sent, UNCHANGED vars
  PROVE  Inv' /\ Sent'
BY NoRequest DEF vars, Sent

LEMMA WholeInit == Init => Whole
<1>. SUFFICES ASSUME Init PROVE Whole
  OBVIOUS
<1>1. RolesOK
  BY DEF Init, RolesOK
<1>2. GrantsOK
  <2>1. host \in [Hosts -> {"none", "there", "gone"}]
    BY DEF Init
  <2>2. grants \in [People -> SUBSET (There \cup {"*"})] /\ given = grants /\ There \subseteq Hosts
    BY DEF Init, There
  <2>3. grants \in [People -> SUBSET Scopes]
    BY <2>2 DEF Scopes
  <2>. QED BY <2>1, <2>2, <2>3 DEF GrantsOK
<1>3. RestOK
  BY BoundsAssumption DEF Init, RestOK
<1>4. KnowsAll
  BY DEF Init, KnowsAll, Knows, Idle
<1>. QED BY <1>1, <1>2, <1>3, <1>4, InvInit DEF Whole

LEMMA WholeStays == Whole /\ [Next]_vars => Whole'
<1>1. ASSUME Whole, Next PROVE Whole'
  BY <1>1, NextKeepsInv, SentStays, RolesStay, GrantsStay, RestStays, KnowsStays DEF Whole
<1>2. ASSUME Whole, UNCHANGED vars PROVE Whole'
  <2>1. Inv' /\ Sent'
    BY <1>2, StutterKeepsInv DEF Whole
  <2>2. RolesOK' /\ GrantsOK' /\ RestOK' /\ KnowsAll'
    BY <1>2 DEF Whole, vars, RolesOK, GrantsOK, RestOK, KnowsAll, There
  <2>. QED BY <2>1, <2>2 DEF Whole
<1>. QED BY <1>1, <1>2

\* The workspace never loses its last owner (README.md:433), for any number of people and of
\* requests, as long as none of the three races happens: the count of the owners that a demotion or
\* a removal has made stays true until it is written, because nobody else takes one down meanwhile.
THEOREM AlwaysAnOwnerHolds == Spec => []AlwaysAnOwnerUnlessRaced
<1>1. Init => Inv /\ Sent
  BY InvInit
<1>2. Inv /\ Sent /\ [Next]_vars => (Inv /\ Sent)'
  BY NextKeepsInv, SentStays, StutterKeepsInv
<1>3. Inv => AlwaysAnOwnerUnlessRaced
  BY DEF Inv, Kept, AlwaysAnOwnerUnlessRaced, Unless, Taking
<1>. QED BY <1>1, <1>2, <1>3, PTL DEF Spec

\* Members have accounts, and grants are of hosts that are there, whatever requests cross: only
\* "host" and "by" of a request, and a role that is written by somebody who read it, depend on
\* more than types, and what was read of them cannot be undone.
THEOREM TypeCorrect == Spec => []TypeOK
<1>1. Init => Whole
  BY WholeInit
<1>2. Whole /\ [Next]_vars => Whole'
  BY WholeStays
<1>3. Whole => TypeOK
  <2>. SUFFICES ASSUME Whole PROVE TypeOK
    OBVIOUS
  <2>1. req \in [Requests -> Request]
    BY DEF Whole, Inv, Types, Proper
  <2>. QED BY <2>1 DEF Whole, Inv, Types, Sent, RolesOK, GrantsOK, RestOK, TypeOK, There
<1>. QED BY <1>1, <1>2, <1>3, PTL DEF Spec

-------------------------------------------------------------------------------
\* What a member is left with when their role changes.

Leaving == {"adminEdit", "overtaken", "cutShort", "lateGrant", "rejoined"}

\* The second write of a promotion, which is still to drop somebody's grants.
Drops(r, p) == At(r, "change", "after") /\ req[r].who = p

\* Grants that were not given in the role their holder has are about to go.
Accounted(p) ==
  /\ Governed(role[p]) => grants[p] \subseteq given[p]
  /\ HasImplicitHostAccess(role[p]) /\ grants[p] # {} => \E r \in Requests : Drops(r, p)
AllAccounted == raced \cap Leaving = {} => \A p \in People : Accounted(p)

\* A row that was read and is not lost is there, and a role that is written is a role.
HasRead(q) == q.op = "admin" \/ (q.op \in {"change", "remove"} /\ q.at \in {"counting", "ready"})
Stands(q, roles) == HasRead(q) => /\ q.lost \/ roles[q.who] # "none"
                                  /\ q.op # "remove" => q.to # "none"
AllStand == \A r \in Requests : Stands(req[r], role)

\* Nobody loses a membership but by a removal.
LEMMA MembersStay ==
  ASSUME Whole, AllStand, NEW r \in Requests, MemberStep(r) \/ InvitationStep(r) \/ HostStep(r) \/ Fail(r)
  PROVE  RemoveMember(r) \/ \A p \in People : role'[p] = "none" => role[p] = "none"
<1>1. CASE role' = role
  BY <1>1
<1>2. CASE WriteRole(r) \/ AdminWrites(r)
  <2>1. Stands(req[r], role)
    BY DEF AllStand
  <2>2. role' = role \/ role' = [role EXCEPT ![req[r].who] = req[r].to]
    BY <1>2 DEF WriteRole, AdminWrites, rows
  <2>3. req[r].to # "none"
    BY <1>2, <2>1 DEF Stands, HasRead, WriteRole, AdminWrites, At
  <2>. QED BY <2>2, <2>3 DEF Whole, Inv, Types
<1>3. CASE Accept(r)
  BY <1>3 DEF Accept, rows, Whole, Inv, Types
<1>4. CASE \/ DropGrants(r) \/ ReplaceAccess(r) \/ CreateInvitation(r) \/ RevokeInvitation(r)
           \/ AddHost(r) \/ ShareHost(r) \/ DeleteHost(r) \/ OpenSession(r)
  BY <1>1, <1>4 DEF DropGrants, ReplaceAccess, CreateInvitation, RevokeInvitation, AddHost, ShareHost, DeleteHost,
     OpenSession, rows
<1>. QED BY <1>1, <1>2, <1>3, <1>4, OthersLeaveRows DEF MemberStep, InvitationStep, HostStep

LEMMA OthersStand ==
  ASSUME Whole, AllStand, NEW r \in Requests, NEW x, req' = [req EXCEPT ![r] = x], Stands(x, role'),
         \A p \in People : role'[p] = "none" => role[p] = "none"
  PROVE  AllStand'
<1>1. ASSUME NEW o \in Requests, o # r
      PROVE  Stands(req'[o], role')
  <2>1. req'[o] = req[o] /\ Stands(req[o], role) /\ req[o] \in Proper
    BY <1>1 DEF Whole, Inv, Types, AllStand
  <2>2. HasRead(req[o]) => req[o].who \in People
    BY <2>1 DEF HasRead, Proper, About
  <2>. QED BY <2>1, <2>2 DEF Stands
<1>2. Stands(req'[r], role')
  BY DEF Whole, Inv, Types
<1>. QED BY <1>1, <1>2 DEF AllStand

LEMMA EndStands ==
  ASSUME Whole, AllStand, NEW r \in Requests, Ends(r),
         \A p \in People : role'[p] = "none" => role[p] = "none"
  PROVE  AllStand'
<1>1. Stands(Idle, role')
  BY DEF Stands, HasRead, Idle
<1>. QED BY <1>1, OthersStand DEF Ends

LEMMA MoveStands ==
  ASSUME Whole, AllStand, NEW r \in Requests, NEW st \in Stages, Moves(r, st),
         req[r].op \in {"change", "remove"} => req[r].at \in {"counting", "ready"},
         \A p \in People : role'[p] = "none" => role[p] = "none"
  PROVE  AllStand'
<1>. DEFINE x == [req[r] EXCEPT !.at = st]
<1>1. /\ req[r] \in Request /\ Stands(req[r], role) /\ req' = [req EXCEPT ![r] = x]
      /\ HasRead(req[r]) => req[r].who \in People
  BY MoveIs DEF Whole, Inv, Types, Proper, About, AllStand, HasRead, Moves
<1>2. x.op = req[r].op /\ x.who = req[r].who /\ x.to = req[r].to /\ x.lost = req[r].lost
  BY <1>1 DEF Request
<1>. HIDE DEF x
<1>3. Stands(x, role')
  BY <1>1, <1>2 DEF Stands, HasRead
<1>. QED BY <1>1, <1>3, OthersStand

LEMMA BeginStands ==
  ASSUME Whole, AllStand, NEW r \in Requests,
         BeginOnMember(r) \/ BeginAdmin(r) \/ BeginInvite(r) \/ BeginRevoke(r) \/ FindInvitation(r)
           \/ BeginAdd(r) \/ BeginOnHost(r)
  PROVE  AllStand'
<1>0. role' = role
  BY OthersLeaveRows
<1>1. ASSUME NEW call, Starts(r, call), Stands(call, role')
      PROVE  AllStand'
  BY <1>0, <1>1, OthersStand DEF Starts
<1>2. CASE BeginOnMember(r)
  <2>1. PICK p \in People, q \in People, op \in {"change", "remove", "access"} :
          Starts(r, [Idle EXCEPT !.op = op, !.at = "actor", !.rank = role[p], !.who = q])
    BY <1>2 DEF BeginOnMember
  <2>. DEFINE call == [Idle EXCEPT !.op = op, !.at = "actor", !.rank = role[p], !.who = q]
  <2>2. call.op = op /\ call.at = "actor"
    BY DEF Idle
  <2>. HIDE DEF call
  <2>3. Stands(call, role')
    BY <2>1, <2>2 DEF Stands, HasRead
  <2>. QED BY <1>1, <2>1, <2>3 DEF call
<1>3. CASE BeginAdmin(r)
  <2>1. PICK q \in People, to \in Given \cup {"owner"} :
          /\ role[q] # "none"
          /\ Starts(r, [Idle EXCEPT !.op = "admin", !.at = "ready", !.who = q, !.to = to])
    BY <1>3 DEF BeginAdmin
  <2>. DEFINE call == [Idle EXCEPT !.op = "admin", !.at = "ready", !.who = q, !.to = to]
  <2>2. call.op = "admin" /\ call.who = q /\ call.to = to /\ to # "none"
    BY <2>1, GivenAssumption DEF Idle, Roles
  <2>. HIDE DEF call
  <2>3. Stands(call, role')
    BY <1>0, <2>1, <2>2 DEF Stands
  <2>. QED BY <1>1, <2>1, <2>3 DEF call
<1>4. ASSUME NEW call, Starts(r, call), call.op \notin {"change", "remove", "admin"}
      PROVE  AllStand'
  BY <1>1, <1>4 DEF Stands, HasRead
<1>5. CASE BeginInvite(r)
  <2>1. PICK q \in People : Starts(r, [Idle EXCEPT !.op = "invite", !.at = "actor", !.who = q])
    BY <1>5 DEF BeginInvite
  <2>. DEFINE call == [Idle EXCEPT !.op = "invite", !.at = "actor", !.who = q]
  <2>2. call.op = "invite"
    BY DEF Idle
  <2>. HIDE DEF call
  <2>. QED BY <1>4, <2>1, <2>2 DEF call
<1>6. CASE BeginRevoke(r)
  <2>1. PICK i \in Invitations : Starts(r, [Idle EXCEPT !.op = "revoke", !.at = "actor", !.inv = i])
    BY <1>6 DEF BeginRevoke
  <2>. DEFINE call == [Idle EXCEPT !.op = "revoke", !.at = "actor", !.inv = i]
  <2>2. call.op = "revoke"
    BY DEF Idle
  <2>. HIDE DEF call
  <2>. QED BY <1>4, <2>1, <2>2 DEF call
<1>7. CASE FindInvitation(r)
  <2>1. PICK i \in Invitations :
          Starts(r, [Idle EXCEPT !.op = "accept", !.at = "actor", !.who = invitation[i].who, !.inv = i])
    BY <1>7 DEF FindInvitation
  <2>. DEFINE w == invitation[i].who
              call == [Idle EXCEPT !.op = "accept", !.at = "actor", !.who = w, !.inv = i]
  <2>. HIDE DEF w
  <2>2. call.op = "accept"
    BY DEF Idle
  <2>. HIDE DEF call
  <2>. QED BY <1>4, <2>1, <2>2 DEF call, w
<1>8. CASE BeginAdd(r)
  <2>1. PICK p \in People : Starts(r, [Idle EXCEPT !.op = "add", !.at = "actor", !.by = p, !.rank = role[p]])
    BY <1>8 DEF BeginAdd
  <2>. DEFINE call == [Idle EXCEPT !.op = "add", !.at = "actor", !.by = p, !.rank = role[p]]
  <2>2. call.op = "add"
    BY DEF Idle
  <2>. HIDE DEF call
  <2>. QED BY <1>4, <2>1, <2>2 DEF call
<1>9. CASE BeginOnHost(r)
  <2>1. PICK p \in People, h \in Hosts, op \in {"delete", "open"} :
          Starts(r, [Idle EXCEPT !.op = op, !.at = "actor", !.by = p, !.rank = role[p], !.host = h])
    BY <1>9 DEF BeginOnHost
  <2>. DEFINE call == [Idle EXCEPT !.op = op, !.at = "actor", !.by = p, !.rank = role[p], !.host = h]
  <2>2. call.op = op
    BY DEF Idle
  <2>. HIDE DEF call
  <2>. QED BY <1>4, <2>1, <2>2 DEF call
<1>. QED BY <1>2, <1>3, <1>5, <1>6, <1>7, <1>8, <1>9

LEMMA ReadStands ==
  ASSUME Whole, AllStand, NEW r \in Requests,
         FindMember(r) \/ FindGoverned(r) \/ FindAccount(r) \/ FilterHosts(r) \/ AddHost(r)
  PROVE  AllStand'
<1>0. req \in [Requests -> Proper] /\ req[r] \in Request
  BY DEF Whole, Inv, Types, Proper
<1>a. role' = role
  BY OthersLeaveRows DEF AddHost
<1>1. CASE FindMember(r)
  <2>. DEFINE w == req[r].who  op == req[r].op  m == role[w]
              x(to) == [Idle EXCEPT !.op = op, !.who = w, !.to = to, !.seen = m,
                                    !.at = IF m = "owner" /\ to # "owner" THEN "counting" ELSE "ready"]
  <2>1. op \in {"change", "remove"}
    BY <1>1 DEF FindMember
  <2>2. PICK to : /\ IF Refused(m, req[r].rank, to) THEN Ends(r) ELSE req' = [req EXCEPT ![r] = x(to)]
                  /\ to \in IF op = "remove" THEN {"none"} ELSE Given \cup {"owner"}
    BY <1>1 DEF FindMember
  <2>3. x(to).op = op /\ x(to).who = w /\ x(to).to = to
    BY DEF Idle
  <2>4. op = "change" => to # "none"
    BY <2>2, GivenAssumption DEF Roles
  <2>. HIDE DEF op, x, w
  <2>5. CASE ~Refused(m, req[r].rank, to)
    <3>1. m # "none"
      BY <2>5 DEF Refused
    <3>2. Stands(x(to), role')
      BY <1>a, <2>1, <2>3, <2>4, <3>1 DEF Stands
    <3>. QED BY <1>a, <2>2, <2>5, <3>2, OthersStand
  <2>. QED BY <1>a, <2>2, <2>5, EndStands
<1>2. CASE FindGoverned(r)
  <2>. DEFINE w == req[r].who
              x(S) == [Idle EXCEPT !.op = "access", !.who = w, !.scope = S,
                                   !.at = IF S \cap Hosts # {} THEN "counting" ELSE "ready"]
  <2>1. PICK S : Ends(r) \/ req' = [req EXCEPT ![r] = x(S)]
    BY <1>2 DEF FindGoverned
  <2>2. x(S).op = "access"
    BY DEF Idle
  <2>. HIDE DEF w, x
  <2>3. Stands(x(S), role')
    BY <2>2 DEF Stands, HasRead
  <2>. QED BY <1>a, <2>1, <2>3, EndStands, OthersStand
<1>3. CASE FindAccount(r)
  <2>. DEFINE a == req[r].who \in account  s == role[req[r].who]
              x == [[[req[r] EXCEPT !.at = "ready"] EXCEPT !.answer = a] EXCEPT !.seen = s]
  <2>1. req[r].op = "accept" /\ req' = [req EXCEPT ![r] = x]
    BY <1>0, <1>3 DEF FindAccount, At
  <2>2. x.op = "accept"
    BY <1>0, <2>1 DEF Request
  <2>. HIDE DEF x
  <2>3. Stands(x, role')
    BY <2>2 DEF Stands, HasRead
  <2>. QED BY <1>a, <2>1, <2>3, OthersStand
<1>4. CASE FilterHosts(r)
  <2>. DEFINE a == HasImplicitHostAccess(req[r].rank) \/ "*" \in grants[req[r].by]
              x == [[[req[r] EXCEPT !.at = "checked"] EXCEPT !.rank = "none"] EXCEPT !.answer = a]
  <2>1. req[r].op \in {"delete", "open"} /\ req' = [req EXCEPT ![r] = x]
    BY <1>0, <1>4 DEF FilterHosts
  <2>2. x.op = req[r].op
    BY <1>0 DEF Request
  <2>. HIDE DEF x
  <2>3. Stands(x, role')
    BY <2>1, <2>2 DEF Stands, HasRead
  <2>. QED BY <1>a, <2>1, <2>3, OthersStand
<1>5. CASE AddHost(r) /\ ~Ends(r)
  <2>1. PICK h \in Hosts : /\ req[r].op = "add"
                           /\ req' = [req EXCEPT ![r].at = "after", ![r].host = h, ![r].rank = "none"]
    BY <1>5 DEF AddHost, At
  <2>. DEFINE x == [[[req[r] EXCEPT !.at = "after"] EXCEPT !.host = h] EXCEPT !.rank = "none"]
  <2>2. req' = [req EXCEPT ![r] = x]
    BY <1>0, <2>1
  <2>3. x.op = "add"
    BY <1>0, <2>1 DEF Request
  <2>. HIDE DEF x
  <2>4. Stands(x, role')
    BY <2>3 DEF Stands, HasRead
  <2>. QED BY <1>a, <2>2, <2>4, OthersStand
<1>. QED BY <1>1, <1>2, <1>3, <1>4, <1>5, <1>a, EndStands

\* A removal is the one step after which a row that was read is not there: it says so to those who read it.
LEMMA RemoveStands ==
  ASSUME Whole, AllStand, NEW r \in Requests, RemoveMember(r), ~req[r].lost
  PROVE  AllStand'
<1>. DEFINE q == req[r].who
<1>1. req' = [Forget(q) EXCEPT ![r] = Idle] /\ role' = [role EXCEPT ![q] = "none"]
  BY DEF RemoveMember
<1>. HIDE DEF q
<1>2. ASSUME NEW o \in Requests
      PROVE  Stands(req'[o], role')
  <2>1. CASE o = r
    <3>1. req'[o] = Idle
      BY <1>1, <2>1 DEF Forget
    <3>. QED BY <3>1 DEF Stands, HasRead, Idle
  <2>2. CASE o # r
    <3>. DEFINE x == [req[o] EXCEPT !.lost = TRUE]
    <3>1. req'[o] = IF req[o].who = q THEN x ELSE req[o]
      BY <1>1, <2>2 DEF Forget
    <3>2. Stands(req[o], role) /\ req[o] \in Request /\ (HasRead(req[o]) => req[o].who \in People)
      BY DEF Whole, AllStand, Inv, Types, Proper, About, HasRead
    <3>3. x.op = req[o].op /\ x.at = req[o].at /\ x.who = req[o].who /\ x.to = req[o].to /\ x.lost = TRUE
      BY <3>2 DEF Request
    <3>. HIDE DEF x
    <3>4. CASE req[o].who = q
      BY <3>1, <3>2, <3>3, <3>4 DEF Stands, HasRead
    <3>5. CASE req[o].who # q
      <4>1. HasRead(req[o]) => role'[req[o].who] = role[req[o].who]
        BY <1>1, <3>2, <3>5 DEF Whole, Inv, Types
      <4>. QED BY <3>1, <3>2, <3>5, <4>1 DEF Stands
    <3>. QED BY <3>4, <3>5
  <2>. QED BY <2>1, <2>2
<1>. QED BY <1>2 DEF AllStand

LEMMA StandsStay ==
  ASSUME Whole, AllStand, Next
  PROVE  AllStand'
<1>1. ASSUME NEW r \in Requests, CountOwners(r) \/ CheckHosts(r) \/ WriteRole(r) \/ CheckMember(r)
                                   \/ CheckPending(r) \/ FindHost(r)
      PROVE  AllStand'
  <2>1. req[r].op \in {"change", "remove"} => req[r].at \in {"counting", "ready"}
    BY <1>1 DEF CountOwners, Downs, CheckHosts, WriteRole, CheckMember, CheckPending, FindHost, At
  <2>2. Ends(r) \/ Moves(r, "ready") \/ Moves(r, "after") \/ Moves(r, "member")
    BY <1>1 DEF CountOwners, CheckHosts, WriteRole, CheckMember, CheckPending, FindHost
  <2>3. \A p \in People : role'[p] = "none" => role[p] = "none"
    <3>1. ~RemoveMember(r)
      BY <1>1, <2>1 DEF RemoveMember, CountOwners, CheckHosts, WriteRole, CheckMember, CheckPending, FindHost, At
    <3>2. MemberStep(r) \/ InvitationStep(r) \/ HostStep(r)
      BY <1>1 DEF MemberStep, InvitationStep, HostStep
    <3>. QED BY <3>1, <3>2, MembersStay
  <2>. QED BY <2>1, <2>2, <2>3, EndStands, MoveStands DEF Stages
<1>2. ASSUME NEW r \in Requests,
             \/ DropGrants(r) \/ ReplaceAccess(r) \/ AdminWrites(r) \/ CreateInvitation(r) \/ RevokeInvitation(r)
             \/ Accept(r) \/ ShareHost(r) \/ DeleteHost(r) \/ OpenSession(r) \/ Fail(r)
      PROVE  AllStand'
  <2>1. Ends(r)
    BY <1>2 DEF DropGrants, ReplaceAccess, AdminWrites, CreateInvitation, RevokeInvitation, Accept, ShareHost,
       DeleteHost, OpenSession, Fail
  <2>2. CASE ~RemoveMember(r)
    <3>1. MemberStep(r) \/ InvitationStep(r) \/ HostStep(r) \/ Fail(r)
      BY <1>2 DEF MemberStep, InvitationStep, HostStep
    <3>. QED BY <2>1, <2>2, <3>1, MembersStay, EndStands
  <2>3. CASE RemoveMember(r) /\ req[r].lost
    BY <2>1, <2>3, EndStands DEF RemoveMember, rows
  <2>. QED BY <2>2, <2>3, RemoveStands
<1>3. ASSUME NEW r \in Requests, RemoveMember(r), req[r].lost
      PROVE  AllStand'
  BY <1>3, EndStands DEF RemoveMember, rows
<1>4. ASSUME NEW r \in Requests, MemberStep(r) \/ InvitationStep(r) \/ HostStep(r) \/ Fail(r)
      PROVE  AllStand'
  BY <1>1, <1>2, <1>3, <1>4, BeginStands, ReadStands, RemoveStands DEF MemberStep, InvitationStep, HostStep
<1>5. CASE (\E i \in Invitations : Expire(i)) \/ (\E s \in open : CloseSession(s))
  <2>1. req' = req /\ role' = role
    BY <1>5 DEF Expire, CloseSession
  <2>. QED BY <2>1 DEF AllStand
<1>. QED BY <1>4, <1>5 DEF Next

\* A drop that is pending stays pending until the grants are gone or it is cut short.
LEMMA DropsStay ==
  ASSUME Whole, Next, NEW o \in Requests, NEW p \in People, Drops(o, p)
  PROVE  Drops(o, p)' \/ grants'[p] = {} \/ "cutShort" \in raced'
<1>0. req \in [Requests -> Proper] /\ req[o] \in Request
  BY DEF Whole, Inv, Types, Proper
<1>1. ASSUME req'[o] = req[o]
      PROVE  Drops(o, p)'
  BY <1>1 DEF Drops, At
<1>2. ASSUME NEW r \in Requests, NEW x, req' = [req EXCEPT ![r] = x], ~At(r, "change", "after")
      PROVE  Drops(o, p)'
  BY <1>0, <1>1, <1>2 DEF Drops
<1>3. ASSUME NEW r \in Requests,
             BeginOnMember(r) \/ BeginAdmin(r) \/ BeginInvite(r) \/ BeginRevoke(r) \/ FindInvitation(r)
               \/ BeginAdd(r) \/ BeginOnHost(r)
      PROVE  Drops(o, p)'
  <2>1. \E x : Starts(r, x)
    BY <1>3 DEF BeginOnMember, BeginAdmin, BeginInvite, BeginRevoke, FindInvitation, BeginAdd, BeginOnHost
  <2>. QED BY <1>2, <2>1 DEF Starts, At
<1>4. ASSUME NEW r \in Requests,
             \/ FindMember(r) \/ FindGoverned(r) \/ FindAccount(r) \/ FilterHosts(r) \/ AddHost(r)
             \/ CountOwners(r) \/ CheckHosts(r) \/ CheckMember(r) \/ CheckPending(r) \/ FindHost(r)
             \/ WriteRole(r) \/ ReplaceAccess(r) \/ AdminWrites(r) \/ CreateInvitation(r) \/ RevokeInvitation(r)
             \/ Accept(r) \/ ShareHost(r) \/ DeleteHost(r) \/ OpenSession(r)
      PROVE  Drops(o, p)'
  <2>1. ~At(r, "change", "after")
    BY <1>4 DEF FindMember, FindGoverned, FindAccount, FilterHosts, AddHost, CountOwners, Downs, CheckHosts, CheckMember,
       CheckPending, FindHost, WriteRole, ReplaceAccess, AdminWrites, CreateInvitation, RevokeInvitation, Accept,
       ShareHost, DeleteHost, OpenSession, At
  <2>2. \E x : req' = [req EXCEPT ![r] = x]
    <3>1. CASE FindMember(r)
      BY <3>1 DEF FindMember, Ends
    <3>2. CASE FindGoverned(r)
      BY <3>2 DEF FindGoverned, Ends
    <3>3. CASE FindAccount(r) \/ FilterHosts(r)
      BY <3>3 DEF FindAccount, FilterHosts
    <3>4. CASE AddHost(r)
      BY <3>4 DEF AddHost, Ends
    <3>5. ASSUME NEW st, Ends(r) \/ Moves(r, st)
          PROVE  \E x : req' = [req EXCEPT ![r] = x]
      BY <3>5 DEF Ends, Moves
    <3>6. CASE CountOwners(r) \/ CheckHosts(r) \/ CheckMember(r) \/ CheckPending(r) \/ FindHost(r) \/ WriteRole(r)
      BY <3>5, <3>6 DEF CountOwners, CheckHosts, CheckMember, CheckPending, FindHost, WriteRole
    <3>7. CASE \/ ReplaceAccess(r) \/ AdminWrites(r) \/ CreateInvitation(r) \/ RevokeInvitation(r)
               \/ Accept(r) \/ ShareHost(r) \/ DeleteHost(r) \/ OpenSession(r)
      BY <3>5, <3>7 DEF ReplaceAccess, AdminWrites, CreateInvitation, RevokeInvitation, Accept, ShareHost, DeleteHost,
         OpenSession
    <3>. QED BY <1>4, <3>1, <3>2, <3>3, <3>4, <3>6, <3>7
  <2>. QED BY <1>2, <2>1, <2>2
<1>5. ASSUME NEW r \in Requests, RemoveMember(r)
      PROVE  Drops(o, p)'
  <2>1. o # r
    BY <1>5 DEF RemoveMember, Drops, At
  <2>2. CASE req[r].lost
    BY <1>0, <1>1, <1>5, <2>1, <2>2 DEF RemoveMember, Ends
  <2>3. CASE ~req[r].lost
    <3>. DEFINE x == [req[o] EXCEPT !.lost = TRUE]
    <3>1. req'[o] = req[o] \/ req'[o] = x
      BY <1>5, <2>1, <2>3 DEF RemoveMember, Forget
    <3>2. x.op = req[o].op /\ x.at = req[o].at /\ x.who = req[o].who
      BY <1>0 DEF Request
    <3>. HIDE DEF x
    <3>. QED BY <3>1, <3>2 DEF Drops, At
  <2>. QED BY <2>2, <2>3
<1>6. ASSUME NEW r \in Requests, DropGrants(r)
      PROVE  Drops(o, p)' \/ grants'[p] = {}
  <2>1. CASE o = r
    BY <1>6, <2>1 DEF DropGrants, Drops, Whole, GrantsOK
  <2>2. CASE o # r
    BY <1>0, <1>1, <1>6, <2>2 DEF DropGrants, Ends
  <2>. QED BY <2>1, <2>2
<1>7. ASSUME NEW r \in Requests, Fail(r)
      PROVE  Drops(o, p)' \/ grants'[p] = {} \/ "cutShort" \in raced'
  <2>1. CASE o = r
    BY <1>7, <2>1 DEF Fail, Drops, Race, When, rows
  <2>2. CASE o # r
    BY <1>0, <1>1, <1>7, <2>2 DEF Fail, Ends
  <2>. QED BY <2>1, <2>2
<1>8. ASSUME NEW r \in Requests, MemberStep(r) \/ InvitationStep(r) \/ HostStep(r) \/ Fail(r)
      PROVE  Drops(o, p)' \/ grants'[p] = {} \/ "cutShort" \in raced'
  BY <1>3, <1>4, <1>5, <1>6, <1>7, <1>8 DEF MemberStep, InvitationStep, HostStep
<1>9. CASE (\E i \in Invitations : Expire(i)) \/ (\E s \in open : CloseSession(s))
  BY <1>1, <1>9 DEF Expire, CloseSession
<1>. QED BY <1>8, <1>9 DEF Next

\* Somebody whose role stays, and whose grants and what they were given change alike, stays accounted for.
LEMMA AccountStays ==
  ASSUME Whole, Next, raced' \cap Leaving = {}, NEW p \in People, Accounted(p), role'[p] = role[p],
         \/ grants'[p] = {}
         \/ grants'[p] \subseteq grants[p] /\ grants'[p] \cap given[p] \subseteq given'[p]
         \/ Governed(role[p]) /\ grants'[p] \subseteq given'[p]
  PROVE  Accounted(p)'
<1>1. Governed(role[p]) => ~HasImplicitHostAccess(role[p])
  BY DEF Governed
<1>2. CASE Governed(role'[p])
  BY <1>1, <1>2 DEF Accounted
<1>3. CASE HasImplicitHostAccess(role'[p]) /\ grants'[p] # {}
  <2>1. grants[p] # {}
    BY <1>1, <1>3
  <2>2. PICK o \in Requests : Drops(o, p)
    BY <1>3, <2>1 DEF Accounted
  <2>3. Drops(o, p)'
    BY <1>3, <2>2, DropsStay DEF Leaving
  <2>. QED BY <1>1, <1>3, <2>3 DEF Accounted
<1>. QED BY <1>2, <1>3 DEF Accounted

\* The role of one person is written: what they held in the last one is excused or about to go.
LEMMA WriteRoleAccounts ==
  ASSUME Whole, Next, AllStand, NEW r \in Requests, WriteRole(r), ~req[r].lost, raced' \cap Leaving = {},
         \A p \in People : Accounted(p)
  PROVE  \A p \in People : Accounted(p)'
<1>. DEFINE q == req[r].who  to == req[r].to
<1>1. /\ role' = [role EXCEPT ![q] = to] /\ grants' = grants
      /\ given' = [given EXCEPT ![q] = IF Governed(role[q]) /\ Governed(to) THEN @ ELSE {}]
      /\ IF HasImplicitHostAccess(to) THEN Moves(r, "after") ELSE Ends(r)
      /\ At(r, "change", "ready")
      /\ Governed(to) /\ (\E o \in Requests \ {r} : At(o, "change", "after") /\ req[o].who = q /\ grants[q] # {}) =>
           "overtaken" \in raced'
  BY DEF WriteRole, Race, When
<1>2. role \in [People -> Roles \cup {"none"}] /\ given \in [People -> SUBSET Scopes] /\ req \in [Requests -> Proper]
  BY DEF Whole, Inv, Types, GrantsOK
<1>3. q \in People /\ role[q] # "none"
  <2>1. Stands(req[r], role)
    BY DEF AllStand
  <2>. QED BY <1>1, <1>2, <2>1 DEF Stands, HasRead, At, Proper, About
<1>4. ASSUME NEW p \in People, p # q
      PROVE  Accounted(p)'
  <2>1. role'[p] = role[p] /\ grants'[p] = grants[p] /\ given'[p] = given[p]
    BY <1>1, <1>2, <1>4
  <2>. HIDE DEF q, to
  <2>. QED BY <2>1, AccountStays
<1>5. role'[q] = to /\ grants'[q] = grants[q]
      /\ given'[q] = IF Governed(role[q]) /\ Governed(to) THEN given[q] ELSE {}
  BY <1>1, <1>2, <1>3
<1>6. ASSUME Governed(to)
      PROVE  grants'[q] \subseteq given'[q]
  <2>1. CASE Governed(role[q])
    BY <1>3, <1>5, <1>6, <2>1 DEF Accounted
  <2>2. CASE ~Governed(role[q])
    <3>1. HasImplicitHostAccess(role[q])
      BY <1>2, <1>3, <2>2 DEF Governed
    <3>2. grants[q] = {}
      <4>1. SUFFICES ASSUME grants[q] # {} PROVE FALSE
        OBVIOUS
      <4>2. PICK o \in Requests : Drops(o, q)
        BY <1>3, <3>1, <4>1 DEF Accounted
      <4>3. o # r
        BY <1>1, <4>2 DEF Drops, At
      <4>4. "overtaken" \in raced'
        BY <1>1, <1>6, <4>1, <4>2, <4>3 DEF Drops
      <4>. QED BY <4>4 DEF Leaving
    <3>. QED BY <1>5, <3>2
  <2>. QED BY <2>1, <2>2
<1>7. ASSUME HasImplicitHostAccess(to), NEW p \in People, p = q
      PROVE  Drops(r, p)'
  <2>. DEFINE x == [req[r] EXCEPT !.at = "after"]
  <2>1. req[r] \in Request /\ req[r].op = "change"
    BY <1>1, <1>2 DEF Proper, At
  <2>2. req'[r] = x
    BY <1>1, <1>2, <1>7 DEF Moves
  <2>3. x.op = "change" /\ x.at = "after" /\ x.who = req[r].who
    BY <2>1 DEF Request
  <2>. HIDE DEF x
  <2>. QED BY <1>7, <2>2, <2>3 DEF Drops, At
<1>8. ASSUME NEW p \in People, p = q
      PROVE  Accounted(p)'
  <2>1. HasImplicitHostAccess(to) => Drops(r, p)'
    BY <1>7, <1>8
  <2>2. role'[p] = to /\ (Governed(to) => grants'[p] \subseteq given'[p])
    BY <1>5, <1>6, <1>8
  <2>. HIDE DEF q, to
  <2>. QED BY <2>1, <2>2 DEF Accounted
<1>. QED BY <1>4, <1>8

LEMMA RacedGrows ==
  ASSUME Next
  PROVE  raced \subseteq raced'
<1>1. \A S : Race(S) => raced \subseteq raced'
  BY DEF Race
<1>2. ASSUME NEW r \in Requests, MemberStep(r)
      PROVE  raced \subseteq raced'
  BY <1>1, <1>2 DEF MemberStep, BeginOnMember, FindMember, FindGoverned, CountOwners, CheckHosts, WriteRole, DropGrants,
     ReplaceAccess, RemoveMember, BeginAdmin, AdminWrites, Starts
<1>3. ASSUME NEW r \in Requests, InvitationStep(r)
      PROVE  raced \subseteq raced'
  BY <1>1, <1>3 DEF InvitationStep, BeginInvite, CheckMember, CheckPending, CreateInvitation, BeginRevoke,
     RevokeInvitation, FindInvitation, FindAccount, Accept, Starts
<1>4. ASSUME NEW r \in Requests, HostStep(r) \/ Fail(r)
      PROVE  raced \subseteq raced'
  BY <1>1, <1>4 DEF HostStep, BeginAdd, AddHost, ShareHost, BeginOnHost, FilterHosts, FindHost, DeleteHost, OpenSession,
     Fail, Share, Starts
<1>. QED BY <1>1, <1>2, <1>3, <1>4 DEF Next, Expire, CloseSession

LEMMA AccountsStay ==
  ASSUME Whole, Next, AllStand, AllAccounted
  PROVE  AllAccounted'
<1>0. /\ role \in [People -> Roles \cup {"none"}] /\ req \in [Requests -> Proper]
      /\ grants \in [People -> SUBSET Scopes] /\ given \in [People -> SUBSET Scopes]
  BY DEF Whole, Inv, Types, GrantsOK
<1>a. raced \subseteq raced'
  BY RacedGrows
<1>. SUFFICES ASSUME raced' \cap Leaving = {} PROVE \A p \in People : Accounted(p)'
  BY DEF AllAccounted
<1>b. \A p \in People : Accounted(p)
  BY <1>a DEF AllAccounted
<1>1. CASE role' = role /\ grants' = grants /\ given' = given
  BY <1>1, <1>b, AccountStays
<1>2. ASSUME NEW r \in Requests, WriteRole(r)
      PROVE  \A p \in People : Accounted(p)'
  <2>1. CASE req[r].lost
    BY <1>1, <1>2, <2>1 DEF WriteRole, rows
  <2>. QED BY <1>2, <1>b, <2>1, WriteRoleAccounts
<1>3. ASSUME NEW r \in Requests, DropGrants(r)
      PROVE  \A p \in People : Accounted(p)'
  <2>1. role' = role /\ given' = given /\ \A p \in People : grants'[p] = grants[p] \/ grants'[p] = {}
    BY <1>0, <1>3 DEF DropGrants
  <2>. QED BY <1>b, <2>1, AccountStays
<1>4. ASSUME NEW r \in Requests, ReplaceAccess(r)
      PROVE  \A p \in People : Accounted(p)'
  <2>. DEFINE q == req[r].who  S == req[r].scope
  <2>1. CASE ~(S \ {"*"} \subseteq There)
    BY <1>1, <1>4, <2>1 DEF ReplaceAccess, rows
  <2>2. CASE S \ {"*"} \subseteq There
    <3>1. /\ role' = role /\ grants' = [grants EXCEPT ![q] = S]
          /\ given' = [given EXCEPT ![q] = IF Governed(role[q]) THEN S ELSE {}]
          /\ ~Governed(role[q]) /\ S # {} => "lateGrant" \in raced'
      BY <1>4, <2>2 DEF ReplaceAccess, Race, When
    <3>. HIDE DEF q, S
    <3>2. ASSUME NEW p \in People, p # q
          PROVE  Accounted(p)'
      BY <1>0, <1>b, <3>1, <3>2, AccountStays
    <3>3. ASSUME NEW p \in People, p = q
          PROVE  Accounted(p)'
      <4>1. grants'[p] = S /\ (Governed(role[p]) => given'[p] = S)
        BY <1>0, <3>1, <3>3
      <4>2. Governed(role[p]) \/ S = {}
        BY <3>1, <3>3 DEF Leaving
      <4>. QED BY <1>b, <3>1, <4>1, <4>2, AccountStays
    <3>. QED BY <3>2, <3>3
  <2>. QED BY <2>1, <2>2
<1>5. ASSUME NEW r \in Requests, RemoveMember(r)
      PROVE  \A p \in People : Accounted(p)'
  <2>. DEFINE q == req[r].who
  <2>1. CASE req[r].lost
    BY <1>1, <1>5, <2>1 DEF RemoveMember, rows
  <2>2. CASE ~req[r].lost
    <3>1. role' = [role EXCEPT ![q] = "none"] /\ given' = [given EXCEPT ![q] = {}] /\ grants' = grants
      BY <1>5, <2>2 DEF RemoveMember
    <3>. HIDE DEF q
    <3>2. ASSUME NEW p \in People, p # q
          PROVE  Accounted(p)'
      BY <1>0, <1>b, <3>1, <3>2, AccountStays
    <3>3. ASSUME NEW p \in People, p = q
          PROVE  Accounted(p)'
      <4>1. role'[p] = "none"
        BY <1>0, <3>1, <3>3
      <4>. QED BY <4>1 DEF Accounted, Governed, HasImplicitHostAccess, Roles
    <3>. QED BY <3>2, <3>3
  <2>. QED BY <2>1, <2>2
<1>6. ASSUME NEW r \in Requests, AdminWrites(r)
      PROVE  \A p \in People : Accounted(p)'
  BY <1>1, <1>6 DEF AdminWrites, Race, Leaving, rows
<1>7. ASSUME NEW r \in Requests, Accept(r)
      PROVE  \A p \in People : Accounted(p)'
  <2>. DEFINE q == req[r].who
  <2>1. /\ grants' = grants /\ given' = given
        /\ \/ role' = role
           \/ /\ \E to : role' = [role EXCEPT ![q] = to]
              /\ grants[q] # {} => "rejoined" \in raced'
    BY <1>7 DEF Accept, Race, When, rows
  <2>. HIDE DEF q
  <2>2. CASE role' = role
    BY <1>1, <2>1, <2>2
  <2>3. ASSUME NEW to, role' = [role EXCEPT ![q] = to], grants[q] # {} => "rejoined" \in raced'
        PROVE  \A p \in People : Accounted(p)'
    <3>1. ASSUME NEW p \in People, p # q
          PROVE  Accounted(p)'
      BY <1>0, <1>b, <2>1, <2>3, <3>1, AccountStays
    <3>2. grants'[q] = {}
      BY <2>1, <2>3 DEF Leaving
    <3>3. ASSUME NEW p \in People, p = q
          PROVE  Accounted(p)'
      BY <3>2, <3>3 DEF Accounted
    <3>. QED BY <3>1, <3>3
  <2>. QED BY <2>1, <2>2, <2>3
<1>8. ASSUME NEW o, NEW h, Share(o, h), role' = role
      PROVE  \A p \in People : Accounted(p)'
  <2>1. /\ grants' = [grants EXCEPT ![o] = @ \cup {h}]
        /\ Governed(role[o]) /\ given' = [given EXCEPT ![o] = @ \cup {h}]
    BY <1>8 DEF Share, Race, When, Leaving
  <2>2. ASSUME NEW p \in People, p # o
        PROVE  Accounted(p)'
    BY <1>0, <1>b, <1>8, <2>1, <2>2, AccountStays
  <2>3. ASSUME o \in People
        PROVE  Accounted(o)'
    <3>1. grants[o] \subseteq given[o]
      BY <1>b, <2>1, <2>3 DEF Accounted
    <3>2. grants'[o] \subseteq given'[o]
      BY <1>0, <2>1, <2>3, <3>1
    <3>. QED BY <1>b, <1>8, <2>1, <2>3, <3>2, AccountStays
  <2>. QED BY <2>2, <2>3
<1>9. ASSUME NEW r \in Requests, AddHost(r) \/ ShareHost(r)
      PROVE  \A p \in People : Accounted(p)'
  <2>1. role' = role /\ ((grants' = grants /\ given' = given) \/ \E o, h : Share(o, h))
    BY <1>9 DEF AddHost, ShareHost
  <2>. QED BY <1>1, <1>8, <2>1
<1>10. ASSUME NEW r \in Requests, DeleteHost(r)
       PROVE  \A p \in People : Accounted(p)'
  <2>1. role' = role /\ \A p \in People : grants'[p] = grants[p] \ {req[r].host} /\ given'[p] = given[p] \ {req[r].host}
    BY <1>10 DEF DeleteHost
  <2>. QED BY <1>b, <2>1, AccountStays
<1>11. ASSUME NEW r \in Requests, CreateInvitation(r) \/ RevokeInvitation(r) \/ OpenSession(r)
       PROVE  role' = role /\ grants' = grants /\ given' = given
  BY <1>11 DEF CreateInvitation, RevokeInvitation, OpenSession
<1>12. ASSUME NEW r \in Requests, MemberStep(r) \/ InvitationStep(r) \/ HostStep(r) \/ Fail(r)
       PROVE  \A p \in People : Accounted(p)'
  BY <1>1, <1>2, <1>3, <1>4, <1>5, <1>6, <1>7, <1>9, <1>10, <1>11, <1>12, OthersLeaveRows
     DEF MemberStep, InvitationStep, HostStep
<1>13. CASE (\E i \in Invitations : Expire(i)) \/ (\E s \in open : CloseSession(s))
  BY <1>1, <1>13 DEF Expire, CloseSession
<1>. QED BY <1>12, <1>13 DEF Next

\* A member whose access goes by grants never has one but those they were given in the role they
\* have: "a later demotion starts from 'no access'" (organizations.ts:573), for any number of people
\* and of requests.  Whoever is promoted keeps the grants only while the second write is on its way.
THEOREM StartsFromNoAccessHolds == Spec => []StartsFromNoAccessUnlessRaced
<1>. DEFINE I == Whole /\ AllStand /\ AllAccounted
<1>1. Init => I
  <2>. SUFFICES ASSUME Init PROVE AllStand /\ AllAccounted
    BY WholeInit
  <2>1. AllStand
    BY DEF Init, AllStand, Stands, HasRead, Idle
  <2>2. \A p \in People : Accounted(p)
    BY DEF Init, Accounted, Governed
  <2>. QED BY <2>1, <2>2 DEF AllAccounted
<1>2. I /\ [Next]_vars => I'
  <2>1. ASSUME I, Next PROVE AllStand' /\ AllAccounted'
    BY <2>1, StandsStay, AccountsStay
  <2>2. ASSUME I, UNCHANGED vars PROVE AllStand' /\ AllAccounted'
    <3>1. AllStand'
      BY <2>2 DEF vars, AllStand
    <3>2. AllAccounted'
      BY <2>2 DEF vars, AllAccounted, Accounted, Drops, At
    <3>. QED BY <3>1, <3>2
  <2>. QED BY <2>1, <2>2, WholeStays
<1>3. I => StartsFromNoAccessUnlessRaced
  BY DEF AllAccounted, Accounted, StartsFromNoAccessUnlessRaced, Unless, Leaving
<1>. HIDE DEF I
<1>. QED BY <1>1, <1>2, <1>3, PTL DEF Spec

-------------------------------------------------------------------------------
\* A session opens under access.

\* A request is moved by its own steps alone; a removal only says that a row is lost.
LEMMA OwnStepsOnly ==
  ASSUME Whole, NEW r \in Requests, MemberStep(r) \/ InvitationStep(r) \/ HostStep(r) \/ Fail(r),
         NEW o \in Requests, o # r
  PROVE  req'[o] = req[o] \/ req'[o] = [req[o] EXCEPT !.lost = TRUE]
<1>0. req \in [Requests -> Proper]
  BY DEF Whole, Inv, Types
<1>1. ASSUME NEW x, req' = [req EXCEPT ![r] = x]
      PROVE  req'[o] = req[o]
  BY <1>0, <1>1
<1>2. ASSUME NEW st, Ends(r) \/ Moves(r, st)
      PROVE  req'[o] = req[o]
  BY <1>0, <1>2 DEF Ends, Moves
<1>3. ASSUME NEW x, Starts(r, x)
      PROVE  req'[o] = req[o]
  BY <1>1, <1>3 DEF Starts
<1>4. CASE BeginOnMember(r) \/ BeginAdmin(r) \/ BeginInvite(r) \/ BeginRevoke(r) \/ FindInvitation(r)
             \/ BeginAdd(r) \/ BeginOnHost(r)
  BY <1>3, <1>4 DEF BeginOnMember, BeginAdmin, BeginInvite, BeginRevoke, FindInvitation, BeginAdd, BeginOnHost
<1>5. CASE FindMember(r) \/ FindGoverned(r)
  BY <1>1, <1>2, <1>5 DEF FindMember, FindGoverned
<1>6. CASE FindAccount(r) \/ FilterHosts(r)
  BY <1>0, <1>6 DEF FindAccount, FilterHosts
<1>7. CASE AddHost(r)
  BY <1>0, <1>2, <1>7 DEF AddHost
<1>8. CASE CountOwners(r) \/ CheckHosts(r) \/ CheckMember(r) \/ CheckPending(r) \/ FindHost(r) \/ WriteRole(r)
  BY <1>2, <1>8 DEF CountOwners, CheckHosts, CheckMember, CheckPending, FindHost, WriteRole
<1>9. CASE \/ DropGrants(r) \/ ReplaceAccess(r) \/ AdminWrites(r) \/ CreateInvitation(r) \/ RevokeInvitation(r)
           \/ Accept(r) \/ ShareHost(r) \/ DeleteHost(r) \/ OpenSession(r) \/ Fail(r)
  BY <1>2, <1>9 DEF DropGrants, ReplaceAccess, AdminWrites, CreateInvitation, RevokeInvitation, Accept, ShareHost,
     DeleteHost, OpenSession, Fail
<1>10. CASE RemoveMember(r)
  <2>1. CASE req[r].lost
    BY <1>2, <1>10, <2>1 DEF RemoveMember
  <2>2. CASE ~req[r].lost
    BY <1>10, <2>2 DEF RemoveMember, Forget
  <2>. QED BY <2>1, <2>2
<1>. QED BY <1>4, <1>5, <1>6, <1>7, <1>8, <1>9, <1>10 DEF MemberStep, InvitationStep, HostStep

\* The steps of its own after which a request is one that opens a session or accepts an invitation.
LEMMA OpensOrAccepts ==
  ASSUME Whole, NEW r \in Requests, MemberStep(r) \/ InvitationStep(r) \/ HostStep(r) \/ Fail(r),
         req'[r].op \in {"open", "accept"}
  PROVE  BeginOnHost(r) \/ FilterHosts(r) \/ FindHost(r) \/ FindInvitation(r) \/ FindAccount(r)
<1>0. req \in [Requests -> Proper] /\ req[r] \in Request
  BY DEF Whole, Inv, Types, Proper
<1>1. ~Ends(r)
  BY <1>0 DEF Ends, Idle
<1>2. ASSUME NEW st, Moves(r, st)
      PROVE  req[r].op \in {"open", "accept"}
  BY <1>0, <1>2 DEF Moves, Request
<1>3. ASSUME NEW x, req' = [req EXCEPT ![r] = x]
      PROVE  x.op \in {"open", "accept"}
  BY <1>0, <1>3
<1>4. ~BeginOnMember(r)
  <2>. SUFFICES ASSUME BeginOnMember(r) PROVE FALSE
    OBVIOUS
  <2>1. PICK p \in People, q \in People, op \in {"change", "remove", "access"} :
          Starts(r, [Idle EXCEPT !.op = op, !.at = "actor", !.rank = role[p], !.who = q])
    BY DEF BeginOnMember
  <2>. DEFINE call == [Idle EXCEPT !.op = op, !.at = "actor", !.rank = role[p], !.who = q]
  <2>2. call.op = op
    BY DEF Idle
  <2>. HIDE DEF call
  <2>. QED BY <1>3, <2>1, <2>2 DEF Starts, call
<1>5. /\ ~BeginAdmin(r) /\ ~BeginInvite(r)
      /\ ~BeginRevoke(r) /\ ~BeginAdd(r)
  <2>1. ASSUME NEW q, NEW to
        PROVE  [Idle EXCEPT !.op = "admin", !.at = "ready", !.who = q, !.to = to].op = "admin"
    BY DEF Idle
  <2>2. ASSUME NEW q
        PROVE  [Idle EXCEPT !.op = "invite", !.at = "actor", !.who = q].op = "invite"
    BY DEF Idle
  <2>3. ASSUME NEW i
        PROVE  [Idle EXCEPT !.op = "revoke", !.at = "actor", !.inv = i].op = "revoke"
    BY DEF Idle
  <2>4. ASSUME NEW p
        PROVE  [Idle EXCEPT !.op = "add", !.at = "actor", !.by = p, !.rank = role[p]].op = "add"
    BY DEF Idle
  <2>5. ASSUME NEW x, Starts(r, x), x.op \in {"admin", "invite", "revoke", "add"}
        PROVE  FALSE
    BY <1>3, <2>5 DEF Starts
  <2>6. ~BeginAdmin(r)
    BY <2>1, <2>5 DEF BeginAdmin
  <2>7. ~BeginInvite(r)
    BY <2>2, <2>5 DEF BeginInvite
  <2>8. ~BeginRevoke(r)
    BY <2>3, <2>5 DEF BeginRevoke
  <2>9. ~BeginAdd(r)
    BY <2>4, <2>5 DEF BeginAdd
  <2>. QED BY <2>6, <2>7, <2>8, <2>9
<1>6. ~FindMember(r)
  <2>. SUFFICES ASSUME FindMember(r) PROVE FALSE
    OBVIOUS
  <2>. DEFINE w == req[r].who  op == req[r].op  m == role[w]
              x(to) == [Idle EXCEPT !.op = op, !.who = w, !.to = to, !.seen = m,
                                    !.at = IF m = "owner" /\ to # "owner" THEN "counting" ELSE "ready"]
  <2>1. op \in {"change", "remove"}
    BY DEF FindMember
  <2>2. PICK to : req' = [req EXCEPT ![r] = x(to)]
    BY <1>1 DEF FindMember
  <2>3. x(to).op = op
    BY DEF Idle
  <2>. HIDE DEF w, op, m, x
  <2>. QED BY <1>3, <2>1, <2>2, <2>3
<1>7. ~FindGoverned(r)
  <2>. SUFFICES ASSUME FindGoverned(r) PROVE FALSE
    OBVIOUS
  <2>. DEFINE w == req[r].who
              x(S) == [Idle EXCEPT !.op = "access", !.who = w, !.scope = S,
                                   !.at = IF S \cap Hosts # {} THEN "counting" ELSE "ready"]
  <2>1. PICK S : req' = [req EXCEPT ![r] = x(S)]
    BY <1>1 DEF FindGoverned
  <2>2. x(S).op = "access"
    BY DEF Idle
  <2>. HIDE DEF w, x
  <2>. QED BY <1>3, <2>1, <2>2
<1>8. ~AddHost(r)
  <2>. SUFFICES ASSUME AddHost(r) PROVE FALSE
    OBVIOUS
  <2>1. PICK h \in Hosts : /\ req[r].op = "add"
                           /\ req' = [req EXCEPT ![r].at = "after", ![r].host = h, ![r].rank = "none"]
    BY <1>1 DEF AddHost, At
  <2>2. req'[r] = [[[req[r] EXCEPT !.at = "after"] EXCEPT !.host = h] EXCEPT !.rank = "none"]
    BY <1>0, <2>1
  <2>. QED BY <1>0, <2>1, <2>2 DEF Request
<1>9. ~CountOwners(r) /\ ~CheckHosts(r) /\ ~CheckMember(r) /\ ~CheckPending(r) /\ ~WriteRole(r)
  BY <1>1, <1>2 DEF CountOwners, Downs, CheckHosts, CheckMember, CheckPending, WriteRole, At
<1>10. ~RemoveMember(r)
  <2>1. Forget(req[r].who) \in [Requests -> {Forget(req[r].who)[o] : o \in Requests}]
    BY DEF Forget
  <2>. QED BY <1>0, <1>1, <2>1 DEF RemoveMember, Idle, Forget
<1>11. ~(\/ DropGrants(r) \/ ReplaceAccess(r) \/ AdminWrites(r) \/ CreateInvitation(r) \/ RevokeInvitation(r)
         \/ Accept(r) \/ ShareHost(r) \/ DeleteHost(r) \/ OpenSession(r) \/ Fail(r))
  BY <1>1 DEF DropGrants, ReplaceAccess, AdminWrites, CreateInvitation, RevokeInvitation, Accept, ShareHost,
     DeleteHost, OpenSession, Fail
<1>. QED BY <1>4, <1>5, <1>6, <1>7, <1>8, <1>9, <1>10, <1>11 DEF MemberStep, InvitationStep, HostStep

\* What a request that opens a session has found holds as long as nothing is withdrawn from it: a role
\* that may open sessions, and a way to the host once it was found or was there from the start.
MayOpen(q) ==
  /\ q.at # "idle" /\ CanOpenSession(role[q.by]) /\ host[q.host] # "none"
  /\ \/ host[q.host] = "gone" \/ Reaches(q.by, q.host)
     \/ q.at = "actor" /\ ~HasImplicitHostAccess(q.rank)
     \/ q.at = "checked" /\ ~q.answer
Opening == "withdrawnWhileOpening" \notin raced => \A r \in Requests : req[r].op = "open" => MayOpen(req[r])

\* Nothing is taken from a request that opens a session unless it is noted, or goes with the host.
LEMMA NothingWithdrawn ==
  ASSUME Whole, Next, "withdrawnWhileOpening" \notin raced', NEW o \in Requests, req[o].op = "open", req[o].at # "idle",
         NEW p \in People, NEW h \in Hosts, p = req[o].by, h = req[o].host
  PROVE  /\ CanOpenSession(role[p]) => CanOpenSession(role'[p])
         /\ Reaches(p, h) => Reaches(p, h)' \/ host'[h] = "gone"
<1>. DEFINE Kept_ == /\ CanOpenSession(role[p]) => CanOpenSession(role'[p])
                     /\ Reaches(p, h) => Reaches(p, h)' \/ host'[h] = "gone"
<1>0. req \in [Requests -> Proper] /\ role \in [People -> Roles \cup {"none"}] /\ grants \in [People -> SUBSET Scopes]
      /\ host \in [Hosts -> {"none", "there", "gone"}]
  BY DEF Whole, Inv, Types, GrantsOK
<1>1. ASSUME role'[p] = role[p], grants[p] \subseteq grants'[p]
      PROVE  Kept_
  BY <1>1 DEF Reaches
<1>2. ASSUME NEW S, Race(S \cup Withdrawn), req'[o].by = req[o].by, req'[o].host = req[o].host
      PROVE  Kept_
  <2>1. Withdrawn = {}
    BY <1>2 DEF Race, Withdrawn, When
  <2>2. ~ \/ CanOpenSession(role[req[o].by]) /\ ~CanOpenSession(role[req[o].by])'
          \/ Reaches(req[o].by, req[o].host) /\ ~Reaches(req[o].by, req[o].host)'
    BY <2>1 DEF Withdrawn, When
  <2>. QED BY <1>2, <2>2 DEF Reaches, CanOpenSession
<1>3. ASSUME NEW r \in Requests,
             \/ WriteRole(r) \/ DropGrants(r) \/ ReplaceAccess(r) \/ RemoveMember(r) \/ AdminWrites(r)
      PROVE  Kept_
  <2>1. o # r
    BY <1>3 DEF WriteRole, DropGrants, ReplaceAccess, RemoveMember, AdminWrites, At
  <2>2. req'[o].by = req[o].by /\ req'[o].host = req[o].host
    <3>1. req'[o] = req[o] \/ req'[o] = [req[o] EXCEPT !.lost = TRUE]
      BY <1>3, <2>1, OwnStepsOnly DEF MemberStep
    <3>2. req[o] \in Request
      BY <1>0 DEF Proper
    <3>. QED BY <3>1, <3>2 DEF Request
  <2>3. (role' = role /\ grants' = grants) \/ \E S : Race(S \cup Withdrawn)
    <3>1. ASSUME Race(Withdrawn)
          PROVE  \E S : Race(S \cup Withdrawn)
      <4>1. Withdrawn = {} \cup Withdrawn
        OBVIOUS
      <4>. QED BY <3>1, <4>1
    <3>. QED BY <1>3, <3>1 DEF WriteRole, DropGrants, ReplaceAccess, RemoveMember, AdminWrites, rows
  <2>. QED BY <1>1, <1>2, <2>2, <2>3
<1>4. ASSUME NEW r \in Requests, Accept(r)
      PROVE  Kept_
  <2>. DEFINE q == req[r].who
  <2>1. grants' = grants /\ (role' = role \/ (role[q] = "none" /\ \E to : role' = [role EXCEPT ![q] = to]))
    BY <1>4 DEF Accept, rows
  <2>. HIDE DEF q
  <2>2. CASE role'[p] = role[p]
    BY <1>1, <2>1, <2>2
  <2>3. CASE role'[p] # role[p]
    <3>1. role[p] = "none"
      BY <1>0, <2>1, <2>3
    <3>. QED BY <3>1 DEF Reaches, CanOpenSession, Roles
  <2>. QED BY <2>2, <2>3
<1>5. ASSUME NEW r \in Requests, AddHost(r) \/ ShareHost(r)
      PROVE  Kept_
  <2>1. role' = role
    BY <1>5 DEF AddHost, ShareHost
  <2>2. ASSUME NEW w, NEW k, Share(w, k)
        PROVE  grants[p] \subseteq grants'[p]
    BY <1>0, <2>2 DEF Share
  <2>3. grants[p] \subseteq grants'[p]
    BY <1>5, <2>2 DEF AddHost, ShareHost
  <2>. QED BY <1>1, <2>1, <2>3
<1>6. ASSUME NEW r \in Requests, DeleteHost(r)
      PROVE  Kept_
  <2>. DEFINE k == req[r].host
  <2>1. role' = role /\ grants'[p] = grants[p] \ {k} /\ host' = [host EXCEPT ![k] = "gone"] /\ k \in Hosts
    BY <1>6 DEF DeleteHost, Whole, KnowsAll, Knows, At
  <2>. HIDE DEF k
  <2>2. CASE k = h
    BY <1>0, <2>1, <2>2
  <2>3. CASE k # h
    BY <2>1, <2>3, HostsAssumption DEF Reaches
  <2>. QED BY <2>1, <2>2, <2>3
<1>7. ASSUME NEW r \in Requests, CreateInvitation(r) \/ RevokeInvitation(r) \/ OpenSession(r)
      PROVE  Kept_
  BY <1>1, <1>7 DEF CreateInvitation, RevokeInvitation, OpenSession
<1>8. ASSUME NEW r \in Requests, MemberStep(r) \/ InvitationStep(r) \/ HostStep(r) \/ Fail(r)
      PROVE  Kept_
  <2>1. role' = role /\ grants' = grants => Kept_
    BY <1>1
  <2>. HIDE DEF Kept_
  <2>. QED BY <1>3, <1>4, <1>5, <1>6, <1>7, <1>8, <2>1, OthersLeaveRows DEF MemberStep, InvitationStep, HostStep
<1>9. CASE (\E i \in Invitations : Expire(i)) \/ (\E s \in open : CloseSession(s))
  BY <1>1, <1>9 DEF Expire, CloseSession
<1>. QED BY <1>8, <1>9 DEF Next

\* A host that was deleted does not come back, and one that was added is not one that was not.
LEMMA HostsGoOnce ==
  ASSUME Whole, Next, NEW h \in Hosts
  PROVE  /\ host[h] # "none" => host'[h] # "none"
         /\ host[h] = "gone" => host'[h] = "gone"
<1>1. host[h] # "none" => host'[h] # "none"
  BY GrantsStay
<1>2. host \in [Hosts -> {"none", "there", "gone"}]
  BY DEF Whole, GrantsOK
<1>3. ASSUME NEW r \in Requests, AddHost(r) \/ DeleteHost(r)
      PROVE  host[h] = "gone" => host'[h] = "gone"
  BY <1>2, <1>3 DEF AddHost, DeleteHost
<1>4. ASSUME NEW r \in Requests,
             \/ WriteRole(r) \/ DropGrants(r) \/ ReplaceAccess(r) \/ RemoveMember(r) \/ AdminWrites(r)
             \/ CreateInvitation(r) \/ RevokeInvitation(r) \/ Accept(r) \/ ShareHost(r) \/ OpenSession(r)
      PROVE  host' = host
  BY <1>4 DEF WriteRole, DropGrants, ReplaceAccess, RemoveMember, AdminWrites, CreateInvitation, RevokeInvitation,
     Accept, ShareHost, OpenSession, rows
<1>5. ASSUME NEW r \in Requests, MemberStep(r) \/ InvitationStep(r) \/ HostStep(r) \/ Fail(r)
      PROVE  host[h] = "gone" => host'[h] = "gone"
  BY <1>3, <1>4, <1>5, OthersLeaveRows DEF MemberStep, InvitationStep, HostStep
<1>6. CASE (\E i \in Invitations : Expire(i)) \/ (\E s \in open : CloseSession(s))
  BY <1>6 DEF Expire, CloseSession
<1>. QED BY <1>1, <1>5, <1>6 DEF Next

LEMMA OpeningStays ==
  ASSUME Whole, Next, Opening
  PROVE  Opening'
<1>. SUFFICES ASSUME "withdrawnWhileOpening" \notin raced', NEW o \in Requests, req'[o].op = "open"
              PROVE  MayOpen(req[o])'
  BY DEF Opening
<1>0. /\ req \in [Requests -> Proper] /\ req[o] \in Request
      /\ role \in [People -> Roles \cup {"none"}] /\ host \in [Hosts -> {"none", "there", "gone"}]
  BY DEF Whole, Inv, Types, Proper, GrantsOK
<1>1. req[o].op = "open" => MayOpen(req[o])
  BY RacedGrows DEF Opening
<1>2. req[o].op = "open" => req[o].by \in People /\ req[o].host \in Hosts
  BY DEF Whole, KnowsAll, Knows
\* What a request was entitled to it is entitled to still, whether or not it has moved on.
<1>3. ASSUME req[o].op = "open"
      PROVE  /\ CanOpenSession(role'[req[o].by]) /\ host'[req[o].host] # "none"
             /\ host[req[o].host] = "gone" => host'[req[o].host] = "gone"
             /\ \A p \in People, h \in Hosts :
                  p = req[o].by /\ h = req[o].host /\ Reaches(p, h) => Reaches(p, h)' \/ host'[h] = "gone"
  <2>1. req[o].at # "idle" /\ CanOpenSession(role[req[o].by]) /\ host[req[o].host] # "none"
    BY <1>1, <1>3 DEF MayOpen
  <2>2. ASSUME NEW p \in People, NEW h \in Hosts, p = req[o].by, h = req[o].host
        PROVE  /\ CanOpenSession(role[p]) => CanOpenSession(role'[p])
               /\ Reaches(p, h) => Reaches(p, h)' \/ host'[h] = "gone"
    BY <1>3, <2>1, <2>2, NothingWithdrawn
  <2>3. ASSUME NEW h \in Hosts
        PROVE  /\ host[h] # "none" => host'[h] # "none"
               /\ host[h] = "gone" => host'[h] = "gone"
    BY HostsGoOnce
  <2>. QED BY <1>2, <1>3, <2>1, <2>2, <2>3
<1>4. ASSUME req[o].op = "open", req'[o].by = req[o].by, req'[o].host = req[o].host, req'[o].at # "idle",
             \/ req'[o].at = req[o].at /\ req'[o].answer = req[o].answer /\ req'[o].rank = req[o].rank
             \/ Reaches(req[o].by, req[o].host)
             \/ host[req[o].host] = "gone"
             \/ req'[o].at = "checked" /\ ~req'[o].answer
      PROVE  MayOpen(req[o])'
  <2>1. /\ req'[o].at # "idle" /\ CanOpenSession(role'[req'[o].by]) /\ host'[req'[o].host] # "none"
    BY <1>3, <1>4
  <2>2. host[req[o].host] = "gone" => host'[req'[o].host] = "gone"
    BY <1>3, <1>4
  <2>3. Reaches(req[o].by, req[o].host) => host'[req'[o].host] = "gone" \/ Reaches(req[o].by, req[o].host)'
    <3>1. PICK p \in People, h \in Hosts : p = req[o].by /\ h = req[o].host
      BY <1>2, <1>4
    <3>2. Reaches(p, h) => Reaches(p, h)' \/ host'[h] = "gone"
      BY <1>3, <1>4, <3>1
    <3>3. Reaches(p, h)' => Reaches(req[o].by, req[o].host)'
      BY <1>4, <3>1 DEF Reaches
    <3>. QED BY <1>4, <3>1, <3>2, <3>3
  <2>4. MayOpen(req[o])
    BY <1>1, <1>4
  <2>. QED BY <1>4, <2>1, <2>2, <2>3, <2>4 DEF MayOpen
<1>5. CASE req'[o] = req[o] \/ req'[o] = [req[o] EXCEPT !.lost = TRUE]
  <2>1. /\ req'[o].op = req[o].op /\ req'[o].by = req[o].by /\ req'[o].host = req[o].host /\ req'[o].at = req[o].at
        /\ req'[o].answer = req[o].answer /\ req'[o].rank = req[o].rank
    BY <1>0, <1>5 DEF Request
  <2>2. req[o].at # "idle"
    BY <1>1, <2>1 DEF MayOpen
  <2>. QED BY <1>4, <2>1, <2>2
<1>6. CASE BeginOnHost(o)
  <2>1. PICK p \in People, h \in Hosts, op \in {"delete", "open"} :
          /\ host[h] # "none"
          /\ IF op = "delete" THEN CanManageHosts(role[p]) ELSE CanOpenSession(role[p])
          /\ Starts(o, [Idle EXCEPT !.op = op, !.at = "actor", !.by = p, !.rank = role[p], !.host = h])
    BY <1>6 DEF BeginOnHost
  <2>. DEFINE call == [Idle EXCEPT !.op = op, !.at = "actor", !.by = p, !.rank = role[p], !.host = h]
  <2>2. call.op = op /\ call.at = "actor" /\ call.by = p /\ call.rank = role[p] /\ call.host = h
    BY DEF Idle
  <2>. HIDE DEF call
  <2>3. req'[o] = call /\ role' = role /\ host' = host /\ grants' = grants
    BY <1>0, <2>1 DEF Starts, rows, call
  <2>4. CanOpenSession(role[p])
    BY <2>1, <2>2, <2>3
  <2>5. HasImplicitHostAccess(role[p]) => Reaches(p, h)
    BY <2>4 DEF Reaches
  <2>6. Reaches(p, h) => Reaches(req[o].by, req[o].host)'
    BY <2>2, <2>3 DEF Reaches
  <2>. QED BY <2>1, <2>2, <2>3, <2>4, <2>5, <2>6 DEF MayOpen
<1>7. CASE FilterHosts(o)
  <2>. DEFINE a == HasImplicitHostAccess(req[o].rank) \/ "*" \in grants[req[o].by]
              x == [[[req[o] EXCEPT !.at = "checked"] EXCEPT !.rank = "none"] EXCEPT !.answer = a]
  <2>1. req[o].at = "actor" /\ req'[o] = x
    BY <1>0, <1>7 DEF FilterHosts
  <2>2. x.op = req[o].op /\ x.at = "checked" /\ x.by = req[o].by /\ x.host = req[o].host /\ x.answer = a
    BY <1>0 DEF Request
  <2>. HIDE DEF x
  <2>3. req[o].op = "open"
    BY <2>1, <2>2
  <2>4. a => Reaches(req[o].by, req[o].host) \/ host[req[o].host] = "gone"
    BY <1>1, <2>1, <2>3 DEF MayOpen, Reaches
  <2>. HIDE DEF a
  <2>. QED BY <1>4, <2>1, <2>2, <2>3, <2>4
<1>8. CASE FindHost(o)
  <2>1. ~Ends(o)
    BY <1>0 DEF Ends, Idle
  <2>2. /\ req[o].at = "checked" /\ Moves(o, "ready")
        /\ req[o].answer \/ grants[req[o].by] \cap {"*", req[o].host} # {}
    BY <1>8, <2>1 DEF FindHost
  <2>. DEFINE x == [req[o] EXCEPT !.at = "ready"]
  <2>3. req'[o] = x
    BY <1>0, <2>2 DEF Moves
  <2>4. x.op = req[o].op /\ x.at = "ready" /\ x.by = req[o].by /\ x.host = req[o].host
    BY <1>0 DEF Request
  <2>. HIDE DEF x
  <2>5. req[o].op = "open"
    BY <2>3, <2>4
  <2>6. Reaches(req[o].by, req[o].host) \/ host[req[o].host] = "gone"
    BY <1>1, <2>2, <2>5 DEF MayOpen, Reaches
  <2>. QED BY <1>4, <2>3, <2>4, <2>5, <2>6
<1>9. ASSUME NEW r \in Requests, MemberStep(r) \/ InvitationStep(r) \/ HostStep(r) \/ Fail(r)
      PROVE  MayOpen(req[o])'
  <2>1. CASE r # o
    BY <1>5, <1>9, <2>1, OwnStepsOnly
  <2>2. CASE r = o /\ ~FindInvitation(o) /\ ~FindAccount(o)
    BY <1>6, <1>7, <1>8, <1>9, <2>2, OpensOrAccepts
  <2>3. CASE FindInvitation(o) \/ FindAccount(o)
    <3>1. ~FindInvitation(o)
      <4>. SUFFICES ASSUME FindInvitation(o) PROVE FALSE
        OBVIOUS
      <4>1. PICK i \in Invitations :
              Starts(o, [Idle EXCEPT !.op = "accept", !.at = "actor", !.who = invitation[i].who, !.inv = i])
        BY DEF FindInvitation
      <4>. DEFINE w == invitation[i].who
                  call == [Idle EXCEPT !.op = "accept", !.at = "actor", !.who = w, !.inv = i]
      <4>2. call.op = "accept"
        BY DEF Idle
      <4>. HIDE DEF call
      <4>3. req'[o] = call
        BY <1>0, <4>1 DEF Starts, call
      <4>. QED BY <4>2, <4>3
    <3>2. ~FindAccount(o)
      <4>. SUFFICES ASSUME FindAccount(o) PROVE FALSE
        OBVIOUS
      <4>. DEFINE a == req[o].who \in account  s == role[req[o].who]
      <4>1. req'[o] = [[[req[o] EXCEPT !.at = "ready"] EXCEPT !.answer = a] EXCEPT !.seen = s] /\ req[o].op = "accept"
        BY <1>0 DEF FindAccount, At
      <4>. QED BY <1>0, <4>1 DEF Request
    <3>. QED BY <2>3, <3>1, <3>2
  <2>. QED BY <2>1, <2>2, <2>3
<1>10. CASE (\E i \in Invitations : Expire(i)) \/ (\E s \in open : CloseSession(s))
  <2>1. req' = req
    BY <1>10 DEF Expire, CloseSession
  <2>. QED BY <1>5, <2>1
<1>. QED BY <1>9, <1>10 DEF Next

\* Whoever is given a session may reach its host at that moment (docs/architecture.md:115,
\* "Re-checked at session open"), for any number of people, hosts and requests: what the three reads
\* of the opening found holds until it is written unless a role or a grant is withdrawn meanwhile.
THEOREM OpensWithAccessHolds == Spec => OpensWithAccessUnlessRaced
<1>. DEFINE I == Whole /\ Opening
            A == raced' \cap {"withdrawnWhileOpening"} = {} =>
                   \A s \in open' \ open : Reaches(s[1], s[2]) /\ host[s[2]] = "there"
<1>1. Init => I
  <2>. SUFFICES ASSUME Init PROVE Opening
    BY WholeInit
  <2>. QED BY DEF Init, Opening, Idle
<1>2. I /\ [Next]_vars => I'
  <2>1. ASSUME I, Next PROVE Opening'
    BY <2>1, OpeningStays
  <2>2. ASSUME I, UNCHANGED vars PROVE Opening'
    BY <2>2 DEF vars, Opening, MayOpen, Reaches
  <2>. QED BY <2>1, <2>2, WholeStays
<1>3. I /\ [Next]_vars => [A]_vars
  <2>. SUFFICES ASSUME I, Next, raced' \cap {"withdrawnWhileOpening"} = {}, NEW s \in open', s \notin open
                PROVE  Reaches(s[1], s[2]) /\ host[s[2]] = "there"
    BY DEF A
  <2>1. PICK r \in Requests : OpenSession(r)
    <3>1. ASSUME NEW r \in Requests, DeleteHost(r) PROVE open' \subseteq open
      BY <3>1 DEF DeleteHost
    <3>2. ASSUME NEW r \in Requests,
                 \/ WriteRole(r) \/ DropGrants(r) \/ ReplaceAccess(r) \/ RemoveMember(r) \/ AdminWrites(r)
                 \/ CreateInvitation(r) \/ RevokeInvitation(r) \/ Accept(r) \/ AddHost(r) \/ ShareHost(r)
          PROVE  open' = open
      BY <3>2 DEF WriteRole, DropGrants, ReplaceAccess, RemoveMember, AdminWrites, CreateInvitation, RevokeInvitation,
         Accept, AddHost, ShareHost, rows
    <3>3. ASSUME NEW r \in Requests, MemberStep(r) \/ InvitationStep(r) \/ HostStep(r) \/ Fail(r)
          PROVE  OpenSession(r)
      BY <3>1, <3>2, <3>3, OthersLeaveRows DEF MemberStep, InvitationStep, HostStep
    <3>4. ~((\E i \in Invitations : Expire(i)) \/ (\E t \in open : CloseSession(t)))
      BY DEF Expire, CloseSession
    <3>. QED BY <3>3, <3>4 DEF Next
  <2>2. /\ req[r].op = "open" /\ req[r].at = "ready" /\ req[r].host \in There
        /\ s = <<req[r].by, req[r].host>>
    BY <2>1 DEF OpenSession, At
  <2>3. MayOpen(req[r])
    BY <2>2, RacedGrows DEF Opening
  <2>. QED BY <2>2, <2>3 DEF MayOpen, There
<1>4. ([][A]_vars) => OpensWithAccessUnlessRaced
  BY DEF OpensWithAccessUnlessRaced
<1>. HIDE DEF I, A
<1>. QED BY <1>1, <1>2, <1>3, <1>4, PTL DEF Spec

-------------------------------------------------------------------------------
\* Nobody gets in but by an invitation.

Reentry == {"invitedTwice", "invitedMember", "removedWhileAccepting", "expiredWhileAccepting"}
Pending(i) == invitation[i].state = "pending"

\* An invitation that is pending, or being accepted, offers a role; one that is being accepted is still
\* that of the person who accepts it.
Offers == /\ \A i \in Invitations : Pending(i) => invitation[i].role # "none"
          /\ \A r \in Requests : req[r].op = "accept" =>
               /\ invitation[req[r].inv].who = req[r].who
               /\ invitation[req[r].inv].role # "none"

\* Nobody who is a member is invited, nobody is invited twice, and an invitation that is being accepted
\* is pending unless it was withdrawn or has made its addressee a member.
Invited == raced \cap Reentry = {} =>
  /\ \A i \in Invitations : Pending(i) => role[invitation[i].who] = "none" /\ ~invitation[i].stale
  /\ \A i, j \in Invitations : Pending(i) /\ Pending(j) /\ invitation[i].who = invitation[j].who => i = j
  /\ \A r \in Requests : req[r].op = "accept" =>
       /\ invitation[req[r].inv].state \in {"pending", "accepted", "deleted"}
       /\ invitation[req[r].inv].state = "accepted" => role[req[r].who] # "none"
       /\ req[r].at = "ready" /\ req[r].seen # "none" => role[req[r].who] # "none"

\* A membership goes by a removal and comes by an acceptance.
LEMMA RemovalTakes ==
  ASSUME Whole, AllStand, Next, NEW p \in People, role[p] # "none", role'[p] = "none"
  PROVE  \E r \in Requests : RemoveMember(r) /\ ~req[r].lost /\ req[r].who = p
<1>1. PICK r \in Requests : MemberStep(r) \/ InvitationStep(r) \/ HostStep(r) \/ Fail(r)
  BY DEF Next, Expire, CloseSession
<1>2. RemoveMember(r)
  BY <1>1, MembersStay
<1>3. ~req[r].lost
  BY <1>2 DEF RemoveMember, rows
<1>4. role' = [role EXCEPT ![req[r].who] = "none"]
  BY <1>2, <1>3 DEF RemoveMember
<1>5. req[r].who = p
  BY <1>4 DEF Whole, Inv, Types
<1>. QED BY <1>2, <1>3, <1>5

Joins(r, p) ==
  /\ Accept(r) /\ req[r].who = p /\ req[r].seen = "none" /\ invitation[req[r].inv].state # "deleted"
  /\ invitation' = [invitation EXCEPT ![req[r].inv].state = "accepted"]

LEMMA AcceptanceGives ==
  ASSUME Whole, AllStand, Next, NEW p \in People, role[p] = "none", role'[p] # "none"
  PROVE  \E r \in Requests : Joins(r, p)
<1>0. role \in [People -> Roles \cup {"none"}] /\ req \in [Requests -> Proper]
  BY DEF Whole, Inv, Types
<1>1. PICK r \in Requests : MemberStep(r) \/ InvitationStep(r) \/ HostStep(r) \/ Fail(r)
  BY DEF Next, Expire, CloseSession
<1>2. ~WriteRole(r) /\ ~AdminWrites(r)
  <2>. SUFFICES ASSUME WriteRole(r) \/ AdminWrites(r) PROVE FALSE
    OBVIOUS
  <2>1. Stands(req[r], role) /\ HasRead(req[r])
    BY DEF AllStand, HasRead, WriteRole, AdminWrites, At
  <2>2. ~req[r].lost
    BY DEF WriteRole, AdminWrites, rows
  <2>3. role' = [role EXCEPT ![req[r].who] = req[r].to] /\ role[req[r].who] # "none"
    BY <2>1, <2>2 DEF WriteRole, AdminWrites, Stands
  <2>. QED BY <1>0, <2>3
<1>3. ~RemoveMember(r)
  BY <1>0 DEF RemoveMember, rows
<1>4. ~(\/ DropGrants(r) \/ ReplaceAccess(r) \/ CreateInvitation(r) \/ RevokeInvitation(r)
        \/ AddHost(r) \/ ShareHost(r) \/ DeleteHost(r) \/ OpenSession(r))
  BY DEF DropGrants, ReplaceAccess, CreateInvitation, RevokeInvitation, AddHost, ShareHost, DeleteHost,
     OpenSession, rows
<1>5. Accept(r)
  BY <1>1, <1>2, <1>3, <1>4, OthersLeaveRows DEF MemberStep, InvitationStep, HostStep
<1>6. /\ invitation[req[r].inv].state # "deleted"
      /\ invitation' = [invitation EXCEPT ![req[r].inv].state = "accepted"]
      /\ role' = IF req[r].seen = "none" THEN [role EXCEPT ![req[r].who] = invitation[req[r].inv].role] ELSE role
  BY <1>5 DEF Accept, rows
<1>7. req[r].seen = "none" /\ req[r].who = p
  BY <1>0, <1>6
<1>. QED BY <1>5, <1>6, <1>7 DEF Joins

\* What may become of an invitation that is there.
KeptRow(i) ==
  /\ invitation'[i].who = invitation[i].who /\ invitation'[i].role = invitation[i].role
  /\ \/ invitation'[i].state = invitation[i].state
     \/ invitation'[i].state = "deleted"
     \/ Expire(i)
     \/ \E r \in Requests : /\ Accept(r) /\ req[r].inv = i /\ invitation[i].state # "deleted"
                            /\ invitation'[i].state = "accepted"
  /\ \/ invitation'[i].stale = invitation[i].stale
     \/ \E r \in Requests : RemoveMember(r) /\ ~req[r].lost /\ req[r].who = invitation[i].who

LEMMA RowsKept ==
  ASSUME Whole, Next, NEW i \in Invitations, \A r \in Requests : CreateInvitation(r) => invitation'[i] = invitation[i]
  PROVE  KeptRow(i)
<1>. DEFINE Row == [state : {"none", "pending", "accepted", "expired", "deleted"},
                    who : People \cup {"none"}, role : Roles \cup {"none"}, stale : BOOLEAN]
<1>0. invitation \in [Invitations -> Row] /\ invitation[i] \in Row
  BY DEF Whole, Sent
<1>1. CASE invitation'[i] = invitation[i]
  BY <1>1 DEF KeptRow
<1>2. ASSUME NEW j, NEW st, invitation' = [invitation EXCEPT ![j].state = st]
      PROVE  /\ invitation'[i].who = invitation[i].who /\ invitation'[i].role = invitation[i].role
             /\ invitation'[i].stale = invitation[i].stale
             /\ IF j = i THEN invitation'[i].state = st ELSE invitation'[i] = invitation[i]
  BY <1>0, <1>2
<1>3. ASSUME NEW r \in Requests, RemoveMember(r)
      PROVE  KeptRow(i)
  <2>. DEFINE q == req[r].who
              x == [invitation[i] EXCEPT !.stale = @ \/ invitation[i].who = q]
  <2>1. CASE req[r].lost
    BY <1>1, <1>3, <2>1 DEF RemoveMember, rows
  <2>2. CASE ~req[r].lost
    <3>1. invitation'[i] = x
      BY <1>3, <2>2 DEF RemoveMember
    <3>2. /\ x.who = invitation[i].who /\ x.role = invitation[i].role /\ x.state = invitation[i].state
          /\ x.stale = (invitation[i].stale \/ invitation[i].who = q)
      BY <1>0
    <3>. HIDE DEF x
    <3>3. CASE invitation[i].who = q
      BY <1>3, <2>2, <3>1, <3>2, <3>3 DEF KeptRow
    <3>4. CASE invitation[i].who # q
      <4>1. x.stale = invitation[i].stale
        BY <1>0, <3>2, <3>4
      <4>. QED BY <3>1, <3>2, <4>1 DEF KeptRow
    <3>. QED BY <3>3, <3>4
  <2>. QED BY <2>1, <2>2
<1>4. ASSUME NEW r \in Requests, RevokeInvitation(r)
      PROVE  KeptRow(i)
  BY <1>1, <1>2, <1>4 DEF RevokeInvitation, KeptRow
<1>5. ASSUME NEW r \in Requests, Accept(r)
      PROVE  KeptRow(i)
  <2>. DEFINE j == req[r].inv
  <2>1. CASE invitation' = invitation
    BY <1>1, <2>1
  <2>2. CASE invitation' # invitation
    <3>1. invitation[j].state # "deleted" /\ invitation' = [invitation EXCEPT ![j].state = "accepted"]
      BY <1>5, <2>2 DEF Accept, rows
    <3>. HIDE DEF j
    <3>2. CASE j = i
      BY <1>2, <1>5, <3>1, <3>2 DEF KeptRow, j
    <3>. QED BY <1>1, <1>2, <3>1, <3>2
  <2>. QED BY <2>1, <2>2
<1>6. ASSUME NEW j \in Invitations, Expire(j)
      PROVE  KeptRow(i)
  <2>1. invitation' = [invitation EXCEPT ![j].state = "expired"]
    BY <1>6 DEF Expire
  <2>2. CASE j = i
    BY <1>2, <1>6, <2>1, <2>2 DEF KeptRow
  <2>. QED BY <1>1, <1>2, <2>1, <2>2
<1>7. ASSUME NEW r \in Requests,
             \/ BeginOnMember(r) \/ FindMember(r) \/ FindGoverned(r) \/ CountOwners(r) \/ CheckHosts(r) \/ BeginAdmin(r)
             \/ BeginInvite(r) \/ CheckMember(r) \/ CheckPending(r) \/ BeginRevoke(r) \/ FindInvitation(r) \/ FindAccount(r)
             \/ BeginAdd(r) \/ BeginOnHost(r) \/ FilterHosts(r) \/ FindHost(r) \/ Fail(r)
      PROVE  invitation' = invitation
  BY <1>7 DEF BeginOnMember, FindMember, FindGoverned, CountOwners, CheckHosts, BeginAdmin, BeginInvite, CheckMember,
     CheckPending, BeginRevoke, FindInvitation, FindAccount, BeginAdd, BeginOnHost, FilterHosts, FindHost, Fail, Starts, rows
<1>8. ASSUME NEW r \in Requests,
             \/ WriteRole(r) \/ DropGrants(r) \/ ReplaceAccess(r) \/ AdminWrites(r) \/ AddHost(r) \/ ShareHost(r)
             \/ DeleteHost(r) \/ OpenSession(r)
      PROVE  invitation' = invitation
  BY <1>8 DEF WriteRole, DropGrants, ReplaceAccess, AdminWrites, AddHost, ShareHost, DeleteHost, OpenSession, rows
<1>9. ASSUME NEW r \in Requests, MemberStep(r) \/ InvitationStep(r) \/ HostStep(r) \/ Fail(r)
      PROVE  KeptRow(i)
  BY <1>1, <1>3, <1>4, <1>5, <1>7, <1>8, <1>9 DEF MemberStep, InvitationStep, HostStep
<1>10. ASSUME NEW s \in open, CloseSession(s)
       PROVE  KeptRow(i)
  BY <1>1, <1>10 DEF CloseSession
<1>. QED BY <1>6, <1>9, <1>10 DEF Next

\* An invitation takes the place of one that nobody uses.
LEMMA CreatesOne ==
  ASSUME Whole, NEW r \in Requests, CreateInvitation(r)
  PROVE  \E i \in Invitations :
           /\ \A o \in Requests : req[o].inv # i
           /\ \A j \in Invitations \ {i} : invitation'[j] = invitation[j]
           /\ invitation'[i].state = "pending" /\ invitation'[i].who = req[r].who
           /\ invitation'[i].role # "none" /\ ~invitation'[i].stale
<1>1. PICK i \in Invitations, to \in Given \ {"owner"} :
        /\ Unused(i)
        /\ invitation' = [invitation EXCEPT ![i] =
                            [state |-> "pending", who |-> req[r].who, role |-> to, stale |-> FALSE]]
  BY DEF CreateInvitation
<1>2. to # "none"
  BY GivenAssumption DEF Roles
<1>3. DOMAIN invitation = Invitations
  BY DEF Whole, Sent
<1>. QED BY <1>1, <1>2, <1>3 DEF Unused

SameCall(r) == /\ req[r].op = "accept" /\ req'[r].who = req[r].who /\ req'[r].inv = req[r].inv
               /\ req'[r].at = req[r].at /\ req'[r].seen = req[r].seen
Finds(r) == \E i \in Invitations : /\ Pending(i) /\ invitation' = invitation /\ role' = role
                                   /\ req'[r].who = invitation[i].who /\ req'[r].inv = i /\ req'[r].at = "actor"
Looks(r) == /\ req[r].op = "accept" /\ req'[r].who = req[r].who /\ req'[r].inv = req[r].inv
            /\ req'[r].seen = role[req[r].who] /\ invitation' = invitation /\ role' = role

LEMMA AcceptsFrom ==
  ASSUME Whole, Next, NEW r \in Requests, req'[r].op = "accept"
  PROVE  SameCall(r) \/ Finds(r) \/ Looks(r)
<1>0. req \in [Requests -> Proper] /\ req[r] \in Request
  BY DEF Whole, Inv, Types, Proper
<1>1. CASE req'[r] = req[r] \/ req'[r] = [req[r] EXCEPT !.lost = TRUE]
  BY <1>0, <1>1 DEF SameCall, Request
<1>2. CASE FindInvitation(r)
  <2>1. PICK i \in Invitations :
          /\ Pending(i)
          /\ Starts(r, [Idle EXCEPT !.op = "accept", !.at = "actor", !.who = invitation[i].who, !.inv = i])
    BY <1>2 DEF FindInvitation, Pending
  <2>. DEFINE w == invitation[i].who
              call == [Idle EXCEPT !.op = "accept", !.at = "actor", !.who = w, !.inv = i]
  <2>2. call.who = w /\ call.inv = i /\ call.at = "actor"
    BY DEF Idle
  <2>. HIDE DEF call
  <2>3. req'[r] = call /\ invitation' = invitation /\ role' = role
    BY <1>0, <2>1 DEF Starts, rows, call
  <2>. QED BY <2>1, <2>2, <2>3 DEF Finds
<1>3. CASE FindAccount(r)
  <2>. DEFINE a == req[r].who \in account  s == role[req[r].who]
              x == [[[req[r] EXCEPT !.at = "ready"] EXCEPT !.answer = a] EXCEPT !.seen = s]
  <2>1. req[r].op = "accept" /\ req'[r] = x /\ invitation' = invitation /\ role' = role
    BY <1>0, <1>3 DEF FindAccount, At, rows
  <2>2. x.who = req[r].who /\ x.inv = req[r].inv /\ x.seen = s
    BY <1>0 DEF Request
  <2>. HIDE DEF x
  <2>. QED BY <2>1, <2>2 DEF Looks
<1>4. ~BeginOnHost(r) \/ req'[r].op # "accept"
  <2>. SUFFICES ASSUME BeginOnHost(r) PROVE req'[r].op # "accept"
    OBVIOUS
  <2>1. PICK p \in People, h \in Hosts, op \in {"delete", "open"} :
          Starts(r, [Idle EXCEPT !.op = op, !.at = "actor", !.by = p, !.rank = role[p], !.host = h])
    BY DEF BeginOnHost
  <2>. DEFINE call == [Idle EXCEPT !.op = op, !.at = "actor", !.by = p, !.rank = role[p], !.host = h]
  <2>2. call.op = op
    BY DEF Idle
  <2>. HIDE DEF call
  <2>3. req'[r] = call
    BY <1>0, <2>1 DEF Starts, call
  <2>. QED BY <2>2, <2>3
<1>5. ~FilterHosts(r)
  <2>. SUFFICES ASSUME FilterHosts(r) PROVE FALSE
    OBVIOUS
  <2>. DEFINE a == HasImplicitHostAccess(req[r].rank) \/ "*" \in grants[req[r].by]
              x == [[[req[r] EXCEPT !.at = "checked"] EXCEPT !.rank = "none"] EXCEPT !.answer = a]
  <2>1. req[r].op \in {"delete", "open"} /\ req'[r] = x
    BY <1>0 DEF FilterHosts
  <2>2. x.op = req[r].op
    BY <1>0 DEF Request
  <2>. HIDE DEF x
  <2>. QED BY <2>1, <2>2
<1>6. ~FindHost(r)
  <2>. SUFFICES ASSUME FindHost(r) PROVE FALSE
    OBVIOUS
  <2>. DEFINE x == [req[r] EXCEPT !.at = "ready"]
  <2>1. req[r].op \in {"delete", "open"} /\ (req'[r] = Idle \/ req'[r] = x)
    BY <1>0 DEF FindHost, Ends, Moves
  <2>2. x.op = req[r].op
    BY <1>0 DEF Request
  <2>. HIDE DEF x
  <2>. QED BY <2>1, <2>2 DEF Idle
<1>7. ASSUME NEW o \in Requests, MemberStep(o) \/ InvitationStep(o) \/ HostStep(o) \/ Fail(o)
      PROVE  SameCall(r) \/ Finds(r) \/ Looks(r)
  <2>1. CASE r # o
    BY <1>1, <1>7, <2>1, OwnStepsOnly
  <2>2. CASE r = o
    BY <1>2, <1>3, <1>4, <1>5, <1>6, <1>7, <2>2, OpensOrAccepts
  <2>. QED BY <2>1, <2>2
<1>8. CASE (\E i \in Invitations : Expire(i)) \/ (\E s \in open : CloseSession(s))
  <2>1. req' = req
    BY <1>8 DEF Expire, CloseSession
  <2>. QED BY <1>1, <2>1
<1>. QED BY <1>7, <1>8 DEF Next

\* A request that accepts an invitation finds it where it was.
LEMMA UsedRowsKept ==
  ASSUME Whole, Next, NEW r \in Requests, req[r].op = "accept"
  PROVE  KeptRow(req[r].inv) /\ req[r].inv \in Invitations /\ req[r].who \in People
<1>1. req[r].inv \in Invitations /\ req[r].who \in People
  BY DEF Whole, Inv, Types, Proper, About
<1>2. ASSUME NEW o \in Requests, CreateInvitation(o)
      PROVE  invitation'[req[r].inv] = invitation[req[r].inv]
  BY <1>1, <1>2, CreatesOne
<1>. QED BY <1>1, <1>2, RowsKept

LEMMA OffersStay ==
  ASSUME Whole, Next, Offers
  PROVE  Offers'
<1>1. ASSUME NEW i \in Invitations, Pending(i)'
      PROVE  invitation'[i].role # "none"
  <2>1. CASE \A o \in Requests : CreateInvitation(o) => invitation'[i] = invitation[i]
    <3>1. KeptRow(i)
      BY <2>1, RowsKept
    <3>2. Pending(i)
      <4>1. ~Expire(i)
        BY <1>1 DEF Expire, Pending, Whole, Sent
      <4>. QED BY <1>1, <3>1, <4>1 DEF KeptRow, Pending
    <3>. QED BY <3>1, <3>2 DEF KeptRow, Offers
  <2>2. ASSUME NEW o \in Requests, CreateInvitation(o), invitation'[i] # invitation[i]
        PROVE  invitation'[i].role # "none"
    BY <2>2, CreatesOne
  <2>. QED BY <2>1, <2>2
<1>2. ASSUME NEW r \in Requests, req'[r].op = "accept"
      PROVE  invitation'[req'[r].inv].who = req'[r].who /\ invitation'[req'[r].inv].role # "none"
  <2>1. CASE req[r].op = "accept" /\ req'[r].who = req[r].who /\ req'[r].inv = req[r].inv
    BY <2>1, UsedRowsKept DEF KeptRow, Offers
  <2>2. CASE Finds(r)
    BY <2>2 DEF Finds, Offers
  <2>. QED BY <1>2, <2>1, <2>2, AcceptsFrom DEF SameCall, Looks
<1>. QED BY <1>1, <1>2 DEF Offers

\* Whoever joins does so by an invitation of theirs that is pending and not older than their removal.
LEMMA JoinsByPending ==
  ASSUME Whole, Offers, Invited, raced \cap Reentry = {}, NEW r \in Requests, NEW p \in People, Joins(r, p), role[p] = "none"
  PROVE  LET i == req[r].inv
         IN  /\ i \in Invitations /\ invitation[i].who = p /\ Pending(i) /\ ~invitation[i].stale
             /\ invitation'[i].state = "accepted"
<1>. DEFINE i == req[r].inv
<1>1. req[r].op = "accept" /\ req[r].who = p /\ invitation[i].state # "deleted"
      /\ invitation' = [invitation EXCEPT ![i].state = "accepted"]
  BY DEF Joins, Accept, At
<1>2. i \in Invitations
  BY <1>1 DEF Whole, Inv, Types, Proper
<1>3. invitation[i].who = p /\ Pending(i)
  BY <1>1 DEF Offers, Invited, Pending
<1>4. ~invitation[i].stale
  BY <1>2, <1>3 DEF Invited
<1>5. invitation'[i].state = "accepted"
  BY <1>1, <1>2 DEF Whole, Sent
<1>. QED BY <1>2, <1>3, <1>4, <1>5

\* An invitation that stays pending stays that of somebody who is not a member.
LEMMA PendingStays ==
  ASSUME Whole, AllStand, Next, Offers, Invited, raced \cap Reentry = {},
         NEW i \in Invitations, KeptRow(i), Pending(i)'
  PROVE  Pending(i) /\ invitation'[i].who = invitation[i].who /\ role'[invitation[i].who] = "none" /\ ~invitation'[i].stale
<1>1. Pending(i) /\ invitation'[i].who = invitation[i].who
  <2>1. ~Expire(i)
    BY DEF Expire, Pending, Whole, Sent
  <2>. QED BY <2>1 DEF KeptRow, Pending
<1>. DEFINE p == invitation[i].who
<1>2. p \in People /\ role[p] = "none" /\ ~invitation[i].stale
  BY <1>1 DEF Whole, Sent, Invited, Pending
<1>3. role'[p] = "none"
  <2>. SUFFICES ASSUME role'[p] # "none" PROVE FALSE
    OBVIOUS
  <2>1. PICK r \in Requests : Joins(r, p)
    BY <1>2, AcceptanceGives
  <2>. DEFINE j == req[r].inv
  <2>2. j \in Invitations /\ invitation[j].who = p /\ Pending(j) /\ invitation'[j].state = "accepted"
    BY <1>2, <2>1, JoinsByPending
  <2>3. j = i
    BY <1>1, <2>2 DEF Invited
  <2>. QED BY <2>2, <2>3 DEF Pending
<1>4. ~invitation'[i].stale
  <2>. SUFFICES ASSUME invitation'[i].stale # invitation[i].stale PROVE FALSE
    BY <1>2
  <2>1. PICK r \in Requests : RemoveMember(r) /\ ~req[r].lost /\ req[r].who = p
    BY DEF KeptRow
  <2>2. Stands(req[r], role) /\ HasRead(req[r])
    BY <2>1 DEF AllStand, HasRead, RemoveMember, At
  <2>. QED BY <1>2, <2>1, <2>2 DEF Stands
<1>. QED BY <1>1, <1>2, <1>3, <1>4

\* A membership that an acceptance in progress relies on stays.
LEMMA AcceptedStays ==
  ASSUME Whole, AllStand, Next, raced' \cap Reentry = {}, NEW r \in Requests, req[r].op = "accept",
         role[req[r].who] # "none"
  PROVE  role'[req[r].who] # "none"
<1>. SUFFICES ASSUME role'[req[r].who] = "none" PROVE FALSE
  OBVIOUS
<1>1. PICK p \in People : p = req[r].who
  BY DEF Whole, Inv, Types, Proper, About
<1>2. PICK o \in Requests : RemoveMember(o) /\ ~req[o].lost /\ req[o].who = p
  BY <1>1, RemovalTakes
<1>3. Accepting(p)
  BY <1>1 DEF Accepting
<1>4. "removedWhileAccepting" \in raced'
  BY <1>2, <1>3 DEF RemoveMember, Race, When
<1>. QED BY <1>4 DEF Reentry

LEMMA InvitedStays ==
  ASSUME Whole, AllStand, Next, Offers, Invited
  PROVE  Invited'
<1>a. raced \subseteq raced'
  BY RacedGrows
<1>. SUFFICES ASSUME raced' \cap Reentry = {} PROVE Invited'
  BY DEF Invited
<1>0. raced \cap Reentry = {}
  BY <1>a
<1>1. ASSUME NEW r \in Requests, CreateInvitation(r)
      PROVE  role' = role /\ role[req[r].who] = "none" /\ ~Waiting(req[r].who)
  BY <1>1 DEF CreateInvitation, Race, When, Reentry
<1>2. ASSUME NEW i \in Invitations, Pending(i)'
      PROVE  role'[invitation'[i].who] = "none" /\ ~invitation'[i].stale
  <2>1. CASE \A r \in Requests : CreateInvitation(r) => invitation'[i] = invitation[i]
    BY <1>0, <1>2, <2>1, RowsKept, PendingStays
  <2>2. ASSUME NEW r \in Requests, CreateInvitation(r), invitation'[i] # invitation[i]
        PROVE  role'[invitation'[i].who] = "none" /\ ~invitation'[i].stale
    BY <1>1, <2>2, CreatesOne
  <2>. QED BY <2>1, <2>2
<1>3. ASSUME NEW i \in Invitations, NEW j \in Invitations, Pending(i)', Pending(j)',
             invitation'[i].who = invitation'[j].who
      PROVE  i = j
  <2>1. CASE \A r \in Requests : ~CreateInvitation(r)
    <3>1. /\ Pending(i) /\ invitation'[i].who = invitation[i].who
          /\ Pending(j) /\ invitation'[j].who = invitation[j].who
      BY <1>0, <1>3, <2>1, RowsKept, PendingStays
    <3>. QED BY <1>0, <1>3, <3>1 DEF Invited
  <2>2. ASSUME NEW r \in Requests, CreateInvitation(r)
        PROVE  i = j
    <3>1. PICK k \in Invitations : /\ \A l \in Invitations \ {k} : invitation'[l] = invitation[l]
                                   /\ invitation'[k].who = req[r].who
      BY <2>2, CreatesOne
    <3>2. ASSUME NEW l \in Invitations, l # k, Pending(l)'
          PROVE  Pending(l) /\ invitation'[l].who = invitation[l].who /\ invitation'[l].who # req[r].who
      <4>1. Pending(l) /\ invitation'[l] = invitation[l]
        BY <3>1, <3>2 DEF Pending
      <4>. QED BY <1>1, <2>2, <4>1 DEF Pending, Waiting
    <3>. QED BY <1>0, <1>3, <3>1, <3>2 DEF Invited
  <2>. QED BY <2>1, <2>2
<1>4. ASSUME NEW r \in Requests, req'[r].op = "accept"
      PROVE  /\ invitation'[req'[r].inv].state \in {"pending", "accepted", "deleted"}
             /\ invitation'[req'[r].inv].state = "accepted" => role'[req'[r].who] # "none"
             /\ req'[r].at = "ready" /\ req'[r].seen # "none" => role'[req'[r].who] # "none"
  <2>1. CASE Finds(r)
    BY <2>1 DEF Finds, Pending
  <2>2. CASE Looks(r)
    BY <1>0, <2>2 DEF Looks, Invited
  <2>3. CASE SameCall(r)
    <3>. DEFINE i == req[r].inv  p == req[r].who
    <3>1. /\ invitation[i].state \in {"pending", "accepted", "deleted"}
          /\ invitation[i].state = "accepted" => role[p] # "none"
          /\ req[r].at = "ready" /\ req[r].seen # "none" => role[p] # "none"
          /\ invitation[i].who = p
      BY <1>0, <2>3 DEF SameCall, Invited, Offers
    <3>2. KeptRow(i) /\ i \in Invitations /\ p \in People
      BY <2>3, UsedRowsKept DEF SameCall
    <3>3. role[p] # "none" => role'[p] # "none"
      BY <2>3, AcceptedStays DEF SameCall
    <3>4. ~Expire(i)
      <4>1. Accepting(invitation[i].who)
        BY <2>3, <3>1 DEF SameCall, Accepting
      <4>. QED BY <4>1 DEF Expire, Race, When, Reentry
    <3>5. ASSUME NEW o \in Requests, Accept(o), req[o].inv = i, invitation[i].state # "deleted",
                 invitation'[i].state = "accepted", role[p] = "none"
          PROVE  role'[p] # "none"
      <4>1. req[o].op = "accept" /\ req[o].at = "ready"
        BY <3>5 DEF Accept, At
      <4>2. req[o].who = p /\ invitation[i].role # "none"
        BY <3>1, <3>5, <4>1 DEF Offers
      <4>3. req[o].seen = "none"
        BY <1>0, <3>5, <4>1, <4>2 DEF Invited
      <4>4. invitation[i].state = "pending"
        BY <3>1, <3>5
      <4>5. invitation' # invitation
        BY <3>5, <4>4
      <4>6. role' = [role EXCEPT ![p] = invitation[i].role]
        BY <3>5, <4>2, <4>3, <4>5 DEF Accept, rows
      <4>. QED BY <3>2, <4>2, <4>6 DEF Whole, Inv, Types
    <3>6. invitation'[i].state \in {"pending", "accepted", "deleted"}
      BY <3>1, <3>2, <3>4 DEF KeptRow
    <3>7. invitation'[i].state = "accepted" => role'[p] # "none"
      <4>1. CASE invitation'[i].state = invitation[i].state
        BY <3>1, <3>3, <4>1
      <4>. QED BY <3>2, <3>3, <3>4, <3>5, <4>1 DEF KeptRow
    <3>. QED BY <2>3, <3>1, <3>3, <3>6, <3>7 DEF SameCall
  <2>. QED BY <1>4, <2>1, <2>2, <2>3, AcceptsFrom
<1>. QED BY <1>2, <1>3, <1>4 DEF Invited

\* Nobody gets in but by an invitation of theirs that is pending at that moment and was sent after they
\* were last removed (invitations.ts, organizations.ts), for any number of people, invitations and
\* requests: an acceptance that has read its invitation writes under it still, and an invitation that
\* was used has made its addressee a member already.
THEOREM RemovedStaysOutHolds == Spec => RemovedStaysOutUnlessRaced
<1>. DEFINE I == Whole /\ AllStand /\ Offers /\ Invited
            A == raced' \cap Reentry = {} =>
                   \A p \in People : role[p] = "none" /\ role'[p] # "none" =>
                     \E i \in Invitations : /\ invitation[i].who = p /\ invitation[i].state = "pending"
                                            /\ ~invitation[i].stale /\ invitation'[i].state = "accepted"
<1>1. Init => I
  <2>. SUFFICES ASSUME Init PROVE AllStand /\ Offers /\ Invited
    BY WholeInit
  <2>1. AllStand
    BY DEF Init, AllStand, Stands, HasRead, Idle
  <2>2. Offers /\ Invited
    BY DEF Init, Offers, Invited, Pending, NoInvitation, Idle
  <2>. QED BY <2>1, <2>2
<1>2. I /\ [Next]_vars => I'
  <2>1. ASSUME I, Next PROVE AllStand' /\ Offers' /\ Invited'
    BY <2>1, StandsStay, OffersStay, InvitedStays
  <2>2. ASSUME I, UNCHANGED vars PROVE AllStand' /\ Offers' /\ Invited'
    <3>1. AllStand'
      BY <2>2 DEF vars, AllStand
    <3>2. Offers' /\ Invited'
      BY <2>2 DEF vars, Offers, Invited, Pending
    <3>. QED BY <3>1, <3>2
  <2>. QED BY <2>1, <2>2, WholeStays
<1>3. I /\ [Next]_vars => [A]_vars
  <2>. SUFFICES ASSUME I, Next, raced' \cap Reentry = {}, NEW p \in People, role[p] = "none", role'[p] # "none"
                PROVE  \E i \in Invitations : /\ invitation[i].who = p /\ invitation[i].state = "pending"
                                              /\ ~invitation[i].stale /\ invitation'[i].state = "accepted"
    BY DEF A
  <2>1. PICK r \in Requests : Joins(r, p)
    BY AcceptanceGives
  <2>2. raced \cap Reentry = {}
    BY RacedGrows
  <2>. QED BY <2>1, <2>2, JoinsByPending DEF Pending
<1>4. ([][A]_vars) => RemovedStaysOutUnlessRaced
  BY DEF RemovedStaysOutUnlessRaced, Reentry
<1>. HIDE DEF I, A
<1>. QED BY <1>1, <1>2, <1>3, <1>4, PTL DEF Spec

=============================================================================
