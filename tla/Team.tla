--------------------------------- MODULE Team ---------------------------------
(***************************************************************************)
(* Who is in a workspace, and what they may reach: memberships with their  *)
(* roles, invitations and per-host grants (api routes/modules/             *)
(* organizations.ts, hosts.ts, sessions.ts and admin.ts, lib/host-access.ts *)
(* and lib/current-user.ts).                                               *)
(*                                                                         *)
(* Every request is a row of reads and a write with an await between any   *)
(* two, and only what stands in one transaction is indivisible.  An action *)
(* is one stretch of a request between two awaits; a request may fail at   *)
(* any of them, since the database may.  One workspace is modelled: no     *)
(* query here looks at two.                                                *)
(***************************************************************************)
EXTENDS Naturals, FiniteSets

CONSTANTS
  People,       \* whoever may have an account
  Hosts,        \* hosts ever created
  Invitations,  \* invitations ever sent
  Requests,     \* requests under way at a time
  Given,        \* the roles that are given out
  MaxCalls,     \* bound: requests ever made
  Races,        \* which of the races below may happen
  MaxRaces      \* bound: how many of them in one behaviour

Roles == {"owner", "admin", "devops", "developer", "auditor"}

\* What comes between the reads of a request and its write.
\* "bothDown": two requests have counted the owners and each takes one down.
\* "staleRole": somebody was made an owner after the request read their role.
\* "adminEdit": a platform administrator changes a role, which checks nothing.
\* "overtaken": a demotion is written before the promotion it undoes has dropped the grants.
\* "cutShort": a promotion fails between its two writes.
\* "lateGrant": a grant is stored for somebody who has become an owner or admin, or has left.
\* "rejoined": somebody who was removed with grants joins again.
\* "invitedTwice": two invitations of one address are created at once.
\* "invitedMember": an invitation is created for somebody who has joined meanwhile.
\* "removedWhileAccepting": somebody is removed while one of their invitations is being accepted.
\* "expiredWhileAccepting": an invitation expires while it is being accepted.
\* "withdrawnWhileOpening": the role or the access a session is being opened with is withdrawn.
AllRaces == {"bothDown", "staleRole", "adminEdit", "overtaken", "cutShort", "lateGrant", "rejoined",
             "invitedTwice", "invitedMember", "removedWhileAccepting", "expiredWhileAccepting",
             "withdrawnWhileOpening"}

ASSUME PeopleAssumption == IsFiniteSet(People) /\ "none" \notin People
ASSUME HostsAssumption == "*" \notin Hosts
ASSUME GivenAssumption == Given \subseteq Roles
ASSUME RacesAssumption == Races \subseteq AllRaces
ASSUME BoundsAssumption == MaxCalls \in Nat /\ MaxRaces \in Nat

VARIABLES
  role,       \* OrganizationMember, by user: its role, "none" for no row
  grants,     \* HostAccessGrant, by user: host ids, and "*" for the row that covers all hosts
  account,    \* the people with a User row
  host,       \* each Host: none, there or gone
  invitation, \* each Invitation row, with whether it is older than a removal of its addressee
  req,        \* where each request is, and what it has read and still needs
  calls,      \* how many requests were made
  open,       \* sessions: who has one on which host
  given,      \* history: the grants somebody was given in the role they have
  raced       \* history: the races that happened

vars == <<role, grants, account, host, invitation, req, calls, open, given, raced>>

Scopes == Hosts \cup {"*"}
NoInvitation == [state |-> "none", who |-> "none", role |-> "none", stale |-> FALSE]
\* by, rank: the caller and their role; who, to: whom the request is about and the role asked for;
\* seen, lost: the role that was read, and whether that row has been deleted since; answer: an answer read.
Idle == [op |-> "none", at |-> "idle", by |-> "none", rank |-> "none", who |-> "none", to |-> "none",
         seen |-> "none", lost |-> FALSE, answer |-> FALSE, scope |-> {}, host |-> "none", inv |-> "none"]
Ops == {"change", "access", "remove", "invite", "revoke", "accept", "add", "delete", "open", "admin"}
Stages == {"idle", "actor", "member", "checked", "counting", "ready", "after"}
Request == [op : Ops \cup {"none"}, at : Stages, by : People \cup {"none"},
            rank : Roles \cup {"none"}, who : People \cup {"none"}, to : Roles \cup {"none"},
            seen : Roles \cup {"none"}, lost : BOOLEAN, answer : BOOLEAN, scope : SUBSET Scopes,
            host : Hosts \cup {"none"}, inv : Invitations \cup {"none"}]

TypeOK ==
  /\ role \in [People -> Roles \cup {"none"}]
  /\ grants \in [People -> SUBSET Scopes]
  /\ account \subseteq People
  /\ \A p \in People : role[p] # "none" => p \in account
  /\ host \in [Hosts -> {"none", "there", "gone"}]
  /\ \A p \in People : grants[p] \ {"*"} \subseteq {h \in Hosts : host[h] = "there"}
  /\ invitation \in [Invitations -> [state : {"none", "pending", "accepted", "expired", "deleted"},
                                     who : People \cup {"none"}, role : Roles \cup {"none"}, stale : BOOLEAN]]
  /\ req \in [Requests -> Request]
  /\ calls \in 0..MaxCalls
  /\ open \subseteq People \X Hosts
  /\ given \in [People -> SUBSET Scopes]
  /\ raced \subseteq Races

-------------------------------------------------------------------------------
\* Roles and access.

CanManageUsers(r) == r \in {"owner", "admin"}
CanManageHosts(r) == r \in {"owner", "admin", "devops"}
CanOpenSession(r) == r \in Roles \ {"auditor"}
HasImplicitHostAccess(r) == r \in {"owner", "admin"}
Governed(r) == r \in Roles /\ ~HasImplicitHostAccess(r)

Owners == {p \in People : role[p] = "owner"}
There == {h \in Hosts : host[h] = "there"}

\* What canAccessHost would answer, asked at once.
Reaches(p, h) ==
  /\ CanOpenSession(role[p])
  /\ HasImplicitHostAccess(role[p]) \/ grants[p] \cap {"*", h} # {}

Race(S) == /\ raced' = raced \cup S
           /\ raced' \subseteq Races
           /\ Cardinality(raced') <= MaxRaces
When(P, name) == IF P THEN {name} ELSE {}

\* A session is being opened and the access it was or may yet be checked against goes: a role that
\* may open sessions, or the way to the host.
Withdrawn ==
  When(\E r \in Requests :
         /\ req[r].op = "open" /\ req[r].at # "idle"
         /\ \/ CanOpenSession(role[req[r].by]) /\ ~CanOpenSession(role[req[r].by])'
            \/ Reaches(req[r].by, req[r].host) /\ ~Reaches(req[r].by, req[r].host)',
       "withdrawnWhileOpening")

At(r, op, stage) == req[r].op = op /\ req[r].at = stage
Moves(r, stage) == req' = [req EXCEPT ![r].at = stage]
Ends(r) == req' = [req EXCEPT ![r] = Idle]

\* An invitation as an await in its acceptance finds it.
Accepting(p) == \E r \in Requests : req[r].op = "accept" /\ req[r].who = p

-------------------------------------------------------------------------------
Init ==
  /\ role \in [People -> Given \cup {"owner", "none"}] /\ Owners # {}
  /\ host \in [Hosts -> {"none", "there"}]
  /\ grants \in [People -> SUBSET (There \cup {"*"})]
  /\ \A p \in People : grants[p] # {} => Governed(role[p])
  /\ account \in SUBSET People /\ \A p \in People : role[p] # "none" => p \in account
  /\ invitation = [i \in Invitations |-> NoInvitation]
  /\ req = [r \in Requests |-> Idle]
  /\ calls = 0
  /\ open = {}
  /\ given = grants
  /\ raced = {}

rows == <<role, grants, account, host, invitation, open, given>>

Starts(r, call) ==
  /\ req[r].at = "idle" /\ calls < MaxCalls
  /\ req' = [req EXCEPT ![r] = call]
  /\ calls' = calls + 1
  /\ UNCHANGED <<rows, raced>>

\* A database call fails, or the API restarts: what was not written stays unwritten.
Fail(r) ==
  /\ req[r].at # "idle"
  /\ Ends(r)
  /\ Race(When(At(r, "change", "after") /\ grants[req[r].who] # {}, "cutShort"))
  /\ UNCHANGED <<rows, calls>>

-------------------------------------------------------------------------------
\* PATCH and DELETE /organizations/current/members/:userId, and PUT .../host-access.

\* getAuthenticatedUser: the caller's role is the one they have now.
BeginOnMember(r) == \E p, q \in People, op \in {"change", "remove", "access"} :
  /\ CanManageUsers(role[p])
  /\ Starts(r, [Idle EXCEPT !.op = op, !.at = "actor", !.rank = role[p], !.who = q])

\* The membership is read; owners are only for owners to make, demote and remove, and the last is kept.
Refused(m, rank, to) == m = "none" \/ ("owner" \in {m, to} /\ rank # "owner")
FindMember(r) == LET m == role[req[r].who] IN
  /\ req[r].op \in {"change", "remove"} /\ req[r].at = "actor"
  /\ \E to \in IF req[r].op = "remove" THEN {"none"} ELSE Given \cup {"owner"} :
       IF Refused(m, req[r].rank, to) THEN Ends(r)
       ELSE req' = [req EXCEPT ![r] = [Idle EXCEPT !.op = req[r].op, !.who = req[r].who, !.to = to, !.seen = m,
                      !.at = IF m = "owner" /\ to # "owner" THEN "counting" ELSE "ready"]]
  /\ UNCHANGED <<rows, calls, raced>>

\* A list of hosts is counted in the database first; "all hosts" is not.
FindGoverned(r) ==
  /\ At(r, "access", "actor")
  /\ \E S \in (SUBSET Hosts) \cup {{"*"}} :
       IF ~Governed(role[req[r].who]) THEN Ends(r)
       ELSE req' = [req EXCEPT ![r] = [Idle EXCEPT !.op = "access", !.who = req[r].who, !.scope = S,
                      !.at = IF S \cap Hosts # {} THEN "counting" ELSE "ready"]]
  /\ UNCHANGED <<rows, calls, raced>>

LastOwnerBug == Cardinality(Owners) < 1

LastOwner == Cardinality(Owners) <= 1

\* Demoting or removing an owner, with the owners counted or about to be written.
Downs(r) == req[r].op \in {"change", "remove"} /\ req[r].seen = "owner" /\ req[r].to # "owner"

CountOwners(r) ==
  /\ req[r].at = "counting" /\ Downs(r)
  /\ IF LastOwner THEN Ends(r) /\ UNCHANGED raced
                  ELSE /\ Moves(r, "ready")
                       /\ Race(When(\E o \in Requests : Downs(o) /\ req[o].at = "ready", "bothDown"))
  /\ UNCHANGED <<rows, calls>>

CheckHosts(r) ==
  /\ At(r, "access", "counting")
  /\ IF req[r].scope \subseteq There THEN Moves(r, "ready") ELSE Ends(r)
  /\ UNCHANGED <<rows, calls, raced>>

\* prisma.organizationMember.update, by the id of the row that was read.
WriteRole(r) == LET q == req[r].who  to == req[r].to IN
  /\ At(r, "change", "ready")
  /\ IF req[r].lost THEN Ends(r) /\ UNCHANGED <<rows, calls, raced>> ELSE
     /\ role' = [role EXCEPT ![q] = to]
     /\ given' = [given EXCEPT ![q] = IF Governed(role[q]) /\ Governed(to) THEN @ ELSE {}]
     /\ IF HasImplicitHostAccess(to) THEN Moves(r, "after") ELSE Ends(r)
     /\ UNCHANGED <<grants, account, host, invitation, open, calls>>
     /\ Race(When(role[q] = "owner" /\ req[r].seen # "owner" /\ to # "owner", "staleRole")
          \cup When(Governed(to) /\ \E o \in Requests \ {r} : At(o, "change", "after") /\ req[o].who = q
                                                             /\ grants[q] # {}, "overtaken")
          \cup Withdrawn)

DropGrantsBug(r) ==
  /\ At(r, "change", "after")
  /\ Ends(r)
  /\ UNCHANGED <<rows, calls, raced>>

\* The grants an owner or admin no longer needs are dropped, in a second write.
DropGrants(r) ==
  /\ At(r, "change", "after")
  /\ grants' = [grants EXCEPT ![req[r].who] = {}]
  /\ Ends(r)
  /\ UNCHANGED <<role, account, host, invitation, open, given, calls>>
  /\ Race(Withdrawn)

\* replaceHostAccess: one transaction, which a host deleted meanwhile makes fail.
ReplaceAccess(r) == LET q == req[r].who IN
  /\ At(r, "access", "ready")
  /\ Ends(r)
  /\ IF ~(req[r].scope \ {"*"} \subseteq There) THEN UNCHANGED <<rows, calls, raced>> ELSE
     /\ grants' = [grants EXCEPT ![q] = req[r].scope]
     /\ given' = [given EXCEPT ![q] = IF Governed(role[q]) THEN req[r].scope ELSE {}]
     /\ UNCHANGED <<role, account, host, invitation, open, calls>>
     /\ Race(When(~Governed(role[q]) /\ req[r].scope # {}, "lateGrant") \cup Withdrawn)

\* The membership goes; the grants stay.  What an earlier request read of the row is of no use to it now.
Forget(q) == [r \in Requests |-> IF req[r].who = q THEN [req[r] EXCEPT !.lost = TRUE] ELSE req[r]]
RemoveMember(r) == LET q == req[r].who IN
  /\ At(r, "remove", "ready")
  /\ IF req[r].lost THEN Ends(r) /\ UNCHANGED <<rows, calls, raced>> ELSE
     /\ role' = [role EXCEPT ![q] = "none"]
     /\ given' = [given EXCEPT ![q] = {}]
     /\ invitation' = [i \in Invitations |-> [invitation[i] EXCEPT !.stale = @ \/ invitation[i].who = q]]
     /\ req' = [Forget(q) EXCEPT ![r] = Idle]
     /\ UNCHANGED <<grants, account, host, open, calls>>
     /\ Race(When(role[q] = "owner" /\ req[r].seen # "owner", "staleRole")
          \cup When(Accepting(q), "removedWhileAccepting") \cup Withdrawn)

\* PATCH /admin/users/:userId.
BeginAdmin(r) == \E q \in People, to \in Given \cup {"owner"} :
  /\ role[q] # "none"
  /\ Starts(r, [Idle EXCEPT !.op = "admin", !.at = "ready", !.who = q, !.to = to])
AdminWrites(r) == LET q == req[r].who  to == req[r].to IN
  /\ At(r, "admin", "ready")
  /\ Ends(r)
  /\ IF req[r].lost THEN UNCHANGED <<rows, calls, raced>> ELSE
     /\ role' = [role EXCEPT ![q] = to]
     /\ given' = [given EXCEPT ![q] = IF Governed(role[q]) /\ Governed(to) THEN @ ELSE {}]
     /\ UNCHANGED <<grants, account, host, invitation, open, calls>>
     /\ Race({"adminEdit"} \cup Withdrawn)

-------------------------------------------------------------------------------
\* Invitations.

BeginInvite(r) == \E p, q \in People :
  /\ CanManageUsers(role[p])
  /\ Starts(r, [Idle EXCEPT !.op = "invite", !.at = "actor", !.who = q])

CheckMember(r) ==
  /\ At(r, "invite", "actor")
  /\ IF role[req[r].who] # "none" THEN Ends(r) ELSE Moves(r, "member")
  /\ UNCHANGED <<rows, calls, raced>>

Waiting(q) == \E i \in Invitations : invitation[i].state = "pending" /\ invitation[i].who = q

CheckPending(r) ==
  /\ At(r, "invite", "member")
  /\ IF Waiting(req[r].who) THEN Ends(r) ELSE Moves(r, "ready")
  /\ UNCHANGED <<rows, calls, raced>>

\* A row nobody can make use of any more gives its place to a new one.
Unused(i) == /\ invitation[i].state # "pending"
             /\ \A r \in Requests : req[r].inv # i
CreateInvitation(r) == LET q == req[r].who IN
  /\ At(r, "invite", "ready")
  /\ \E i \in Invitations, to \in Given \ {"owner"} :
       /\ Unused(i)
       /\ invitation' = [invitation EXCEPT ![i] = [state |-> "pending", who |-> q, role |-> to, stale |-> FALSE]]
  /\ Ends(r)
  /\ UNCHANGED <<role, grants, account, host, calls, open, given>>
  /\ Race(When(Waiting(q), "invitedTwice") \cup When(role[q] # "none", "invitedMember"))

BeginRevoke(r) == \E p \in People, i \in Invitations :
  /\ CanManageUsers(role[p]) /\ invitation[i].state \notin {"none", "deleted"}
  /\ Starts(r, [Idle EXCEPT !.op = "revoke", !.at = "actor", !.inv = i])
RevokeInvitation(r) ==
  /\ At(r, "revoke", "actor")
  /\ invitation' = [invitation EXCEPT ![req[r].inv].state = "deleted"]
  /\ Ends(r)
  /\ UNCHANGED <<role, grants, account, host, open, given, raced, calls>>

Expire(i) ==
  /\ invitation[i].state = "pending"
  /\ invitation' = [invitation EXCEPT ![i].state = "expired"]
  /\ UNCHANGED <<role, grants, account, host, open, given, req, calls>>
  /\ Race(When(Accepting(invitation[i].who), "expiredWhileAccepting"))

FindInvitationBug(r) == \E i \in Invitations :
  /\ invitation[i].state \in {"pending", "accepted"}
  /\ Starts(r, [Idle EXCEPT !.op = "accept", !.at = "actor", !.who = invitation[i].who, !.inv = i])

\* POST /invitations/accept: whoever has the link; no session is asked for.
FindInvitation(r) == \E i \in Invitations :
  /\ invitation[i].state = "pending"
  /\ Starts(r, [Idle EXCEPT !.op = "accept", !.at = "actor", !.who = invitation[i].who, !.inv = i])

\* The account, if there is one, and whether it is a member already.
FindAccount(r) == LET q == req[r].who IN
  /\ At(r, "accept", "actor")
  /\ req' = [req EXCEPT ![r].at = "ready", ![r].answer = q \in account, ![r].seen = role[q]]
  /\ UNCHANGED <<rows, calls, raced>>

\* The transaction: a second account, a second membership and a deleted invitation each undo it.
Accept(r) == LET q == req[r].who  i == req[r].inv  joins == req[r].seen = "none" IN
  /\ At(r, "accept", "ready")
  /\ Ends(r)
  /\ IF (~req[r].answer /\ q \in account) \/ (joins /\ role[q] # "none") \/ invitation[i].state = "deleted"
     THEN UNCHANGED <<rows, calls, raced>> ELSE
     /\ role' = IF joins THEN [role EXCEPT ![q] = invitation[i].role] ELSE role
     /\ account' = account \cup {q}
     /\ invitation' = [invitation EXCEPT ![i].state = "accepted"]
     /\ UNCHANGED <<grants, host, open, given, calls>>
     /\ Race(When(joins /\ grants[q] # {}, "rejoined"))

-------------------------------------------------------------------------------
\* Hosts and sessions.

BeginAdd(r) == \E p \in People :
  /\ CanManageHosts(role[p])
  /\ Starts(r, [Idle EXCEPT !.op = "add", !.at = "actor", !.by = p, !.rank = role[p]])

\* A governed caller is given what they add: within the insert if it was made offline, and after it if not.
Share(p, h) ==
  /\ grants' = [grants EXCEPT ![p] = @ \cup {h}]
  /\ given' = [given EXCEPT ![p] = IF Governed(role[p]) THEN @ \cup {h} ELSE @]
  /\ Race(When(~Governed(role[p]), "lateGrant"))
AddHost(r) == \E h \in Hosts :
  /\ At(r, "add", "actor")
  /\ host[h] = "none"
  /\ host' = [host EXCEPT ![h] = "there"]
  /\ IF HasImplicitHostAccess(req[r].rank) THEN Ends(r) /\ UNCHANGED <<grants, given, raced>>
     ELSE \/ Share(req[r].by, h) /\ Ends(r)
          \/ /\ req' = [req EXCEPT ![r].at = "after", ![r].host = h, ![r].rank = "none"]
             /\ UNCHANGED <<grants, given, raced>>
  /\ UNCHANGED <<role, account, invitation, calls, open>>
ShareHost(r) == LET p == req[r].by  h == req[r].host IN
  /\ At(r, "add", "after")
  /\ Ends(r)
  /\ IF host[h] = "gone" \/ h \in grants[p] THEN UNCHANGED <<grants, given, raced>> ELSE Share(p, h)
  /\ UNCHANGED <<role, account, host, invitation, calls, open>>

BeginOnHost(r) == \E p \in People, h \in Hosts, op \in {"delete", "open"} :
  /\ host[h] # "none"
  /\ IF op = "delete" THEN CanManageHosts(role[p]) ELSE CanOpenSession(role[p])
  /\ Starts(r, [Idle EXCEPT !.op = op, !.at = "actor", !.by = p, !.rank = role[p], !.host = h])

\* accessibleHostFilter, of the role that was read: the row that covers all hosts is looked for first.
FilterHosts(r) ==
  /\ req[r].op \in {"delete", "open"} /\ req[r].at = "actor"
  /\ req' = [req EXCEPT ![r].at = "checked", ![r].rank = "none",
                        ![r].answer = HasImplicitHostAccess(req[r].rank) \/ "*" \in grants[req[r].by]]
  /\ UNCHANGED <<rows, calls, raced>>
FindHostBug(r) ==
  /\ req[r].op \in {"delete", "open"} /\ req[r].at = "checked"
  /\ IF req[r].host \in There THEN Moves(r, "ready") ELSE Ends(r)
  /\ UNCHANGED <<rows, calls, raced>>

FindHost(r) == LET h == req[r].host IN
  /\ req[r].op \in {"delete", "open"} /\ req[r].at = "checked"
  /\ IF h \in There /\ (req[r].answer \/ grants[req[r].by] \cap {"*", h} # {}) THEN Moves(r, "ready") ELSE Ends(r)
  /\ UNCHANGED <<rows, calls, raced>>

\* The host goes and, by the schema, its grants and sessions with it.
DeleteHost(r) == LET h == req[r].host IN
  /\ At(r, "delete", "ready")
  /\ host' = [host EXCEPT ![h] = "gone"]
  /\ grants' = [p \in People |-> grants[p] \ {h}]
  /\ given' = [p \in People |-> given[p] \ {h}]
  /\ open' = {s \in open : s[2] # h}
  /\ Ends(r)
  /\ UNCHANGED <<role, account, invitation, raced, calls>>

\* The gateway has opened it; the row names the host, which must still be there.
OpenSession(r) == LET h == req[r].host IN
  /\ At(r, "open", "ready")
  /\ open' = IF h \in There THEN open \cup {<<req[r].by, h>>} ELSE open
  /\ Ends(r)
  /\ UNCHANGED <<role, grants, account, host, invitation, given, raced, calls>>

CloseSession(s) ==
  /\ open' = open \ {s}
  /\ UNCHANGED <<role, grants, account, host, invitation, req, given, raced, calls>>

-------------------------------------------------------------------------------
MemberStep(r) == \/ BeginOnMember(r) \/ FindMember(r) \/ FindGoverned(r) \/ CountOwners(r) \/ CheckHosts(r) \/ WriteRole(r)
                 \/ DropGrants(r) \/ ReplaceAccess(r) \/ RemoveMember(r) \/ BeginAdmin(r) \/ AdminWrites(r)
InvitationStep(r) == \/ BeginInvite(r) \/ CheckMember(r) \/ CheckPending(r) \/ CreateInvitation(r)
                     \/ BeginRevoke(r) \/ RevokeInvitation(r) \/ FindInvitation(r) \/ FindAccount(r) \/ Accept(r)
HostStep(r) == \/ BeginAdd(r) \/ AddHost(r) \/ ShareHost(r) \/ BeginOnHost(r) \/ FilterHosts(r) \/ FindHost(r)
               \/ DeleteHost(r) \/ OpenSession(r)
Next == \/ \E r \in Requests : MemberStep(r) \/ InvitationStep(r) \/ HostStep(r) \/ Fail(r)
        \/ \E i \in Invitations : Expire(i)
        \/ \E s \in open : CloseSession(s)

Spec == Init /\ [][Next]_vars

-------------------------------------------------------------------------------
Unless(S, P) == raced \cap S = {} => P

\* The workspace never loses its last owner (README.md:433, "last-owner protection"), as long as
\* no two requests take an owner down at once, nobody is made an owner under a request that has
\* read their role, and no platform administrator edits a role.
AlwaysAnOwnerUnlessRaced == Unless({"bothDown", "staleRole", "adminEdit"}, Owners # {})

\* A member whose access goes by grants has no grant but those they were given in the role they
\* have: "a later demotion starts from 'no access'" (organizations.ts:573).
StartsFromNoAccessUnlessRaced ==
  Unless({"adminEdit", "overtaken", "cutShort", "lateGrant", "rejoined"},
         \A p \in People : Governed(role[p]) => grants[p] \subseteq given[p])

\* Nobody gets in but by an invitation of theirs that is pending at that moment and was sent after
\* they were last removed: not by one that was used, withdrawn, expired or left over.
RemovedStaysOutUnlessRaced ==
  [][raced' \cap {"invitedTwice", "invitedMember", "removedWhileAccepting", "expiredWhileAccepting"} = {} =>
     \A p \in People : role[p] = "none" /\ role'[p] # "none" =>
       \E i \in Invitations : /\ invitation[i].who = p /\ invitation[i].state = "pending"
                              /\ ~invitation[i].stale /\ invitation'[i].state = "accepted"]_vars

\* Whoever is given a session may reach its host at that moment (docs/architecture.md:115,
\* "Re-checked at session open"), as long as that access is not withdrawn during the opening.
OpensWithAccessUnlessRaced ==
  [][raced' \cap {"withdrawnWhileOpening"} = {} =>
     \A s \in open' \ open : Reaches(s[1], s[2]) /\ host[s[2]] = "there"]_vars
=============================================================================
