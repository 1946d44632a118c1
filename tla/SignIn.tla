-------------------------------- MODULE SignIn --------------------------------
(***************************************************************************)
(* Sign-in sessions: the rotating refresh tokens of one account.           *)
(*                                                                         *)
(* Each sign-in is a family of RefreshToken rows (api routes/modules/      *)
(* auth.ts, lib/refresh-tokens.ts, lib/refresh-token-policy.ts).  A refresh *)
(* replaces the row by a new one of the same family and leaves the old one *)
(* usable for 60 seconds; a sign-out, a password change and a revocation   *)
(* expire the rows that are not replaced yet.  A browser's tabs share one  *)
(* cookie, so their requests carry what it was when each was sent and their *)
(* answers set it in any order; the desktop application keeps its pair     *)
(* itself and never sends a cookie (packages/api-client/src/transport.ts). *)
(*                                                                         *)
(* Nothing here lasts as long as an access token (12 hours) or a family    *)
(* (30 days): neither expires.                                             *)
(***************************************************************************)
EXTENDS Naturals, FiniteSets, Functions

CONSTANTS
  Clients,    \* what is signed in to the account: a browser or an application
  Tabs,       \* what sends requests, one at a time: a browser's tabs
  ClientOf,   \* the client of each tab
  FirstToken, \* the token each client has signed in with to begin with
  Orgs,       \* workspaces, numbered by the age of the membership
  MaxTokens,  \* bound: RefreshToken rows
  Races,      \* which of the races below may happen
  MaxRaces    \* bound: how many of them in one behaviour

\* What can come between a sign-in and its end.
\* "grace": a family is ended while one of its tokens has just been rotated.
\* "inFlight": a family is ended while a refresh of it is past its check.
\* "fork": a sign-out presents one of several live tokens of its family.
\* "switchAfter": a workspace is switched with a token whose family was ended.
\* "desktop": an application signs out, and sends no cookie.
\* "slow": a client holds a rotated token until its 60 seconds are over.
\* "lateClear": the answer to an older token's request clears a newer one.
\* "overlap": a switch or a password change and another request of one client
\*   that brings a new token are on their way at once.
AllRaces == {"grace", "inFlight", "fork", "switchAfter", "desktop",
             "slow", "lateClear", "overlap"}

ASSUME RacesAssumption == Races \subseteq AllRaces
ASSUME ClientsAssumption ==
  /\ Clients # {} /\ ClientOf \in [Tabs -> Clients]
  /\ FirstToken \in [Clients -> 1..MaxTokens]
  /\ \A c, d \in Clients : FirstToken[c] = FirstToken[d] => c = d
ASSUME OrgsAssumption == Orgs # {} /\ Orgs \subseteq Nat
ASSUME BoundsAssumption == MaxTokens \in Nat /\ MaxRaces \in Nat

VARIABLES
  native,     \* the clients that are desktop applications: fixed from the start
  state,      \* RefreshToken rows: unused, live, rotated, stale or ended
  family,     \* familyId: the first token of the chain
  org,        \* organizationId
  device,     \* userAgent: the client the row was written for
  cookie,     \* the token each client holds, 0 for none
  req,        \* the requests on their way
  members,    \* the workspaces the user belongs to
  lastActive, \* User.lastActiveOrganizationId
  over,       \* history: the families that were ended on purpose
  mine,       \* history: the family of the last token each client was given
  chosen,     \* history: the workspace each client was last asked to show
  raced       \* history: the races that have touched each client

tokenVars == <<state, family, org, device>>
historyVars == <<over, mine, chosen>>
vars == <<native, tokenVars, cookie, req, members, lastActive, historyVars, raced>>

Browsers == Clients \ native
Tokens == 1..MaxTokens
Issued == {t \in Tokens : state[t] # "unused"}

Idle == [op |-> "none", stage |-> "idle", sent |-> 0, to |-> 0, turn |-> FALSE, new |-> 0]
Ops == {"refresh", "switch", "change", "logout"}
Stages == {"sent", "found", "turned", "set", "clear"}

TypeOK ==
  /\ native \subseteq Clients
  /\ state \in [Tokens -> {"unused", "live", "rotated", "stale", "ended"}]
  /\ \A t \in Issued : family[t] \in Issued
  /\ \A t \in Issued : org[t] \in Orgs /\ device[t] \in Clients
  /\ \A c \in Clients : cookie[c] \in {0} \cup Issued
  /\ \A s \in Tabs : req[s] # Idle =>
       /\ req[s].op \in Ops /\ req[s].stage \in Stages
       /\ req[s].sent \in Issued
       /\ req[s].stage = "set" => req[s].new \in Issued
  /\ members \subseteq Orgs /\ members # {} /\ lastActive \in Orgs
  /\ over \subseteq Issued
  /\ raced \in [Clients -> SUBSET Races]

-----------------------------------------------------------------------------
(* Helpers.  A definition named ...Bug is a plausible mistake in the one     *)
(* after it, kept to show that the properties notice it.                     *)

\* The step is race x for the clients cs: it must be allowed, and is noted.
Racing(cs, x) == [c \in Clients |-> IF c \in cs THEN {x} ELSE {}]
Note(a, b) ==
  /\ raced' = [c \in Clients |-> raced[c] \cup a[c] \cup b[c]]
  /\ LET all == UNION {raced'[c] : c \in Clients}
     IN  all \subseteq Races /\ Cardinality(all) <= MaxRaces
NoRace == [c \in Clients |-> {}]

\* isRefreshTokenUsable.
UsableBug(t) == state[t] = "live"
Usable(t) == state[t] \in {"live", "rotated"}

\* revokeRefreshTokens: rows with a revokedAt are left as they are.
RevokeBug(ts) == [t \in Tokens |-> IF t \in ts /\ state[t] = "live" THEN "rotated" ELSE state[t]]
Revoke(ts) == [t \in Tokens |-> IF t \in ts /\ state[t] = "live" THEN "ended" ELSE state[t]]

\* What stamping revokedAt makes of a row: one that was expired stays so.
Stamp(t) == IF state[t] = "ended" THEN "ended" ELSE "rotated"

OfFamilies(fs) == {t \in Issued : family[t] \in fs}

\* fallbackMembership, and resolveActiveMembership against the memberships.
Fallback == CHOOSE o \in members : \A p \in members : o <= p
ResolveBug(preferred) == Fallback
Resolve(preferred) == IF preferred \in members THEN preferred ELSE Fallback

\* issueTokens: a row of the family, or of a new one, and the answer's cookies.
NextToken == Cardinality(Issued) + 1
Issue(s, o, continuing) ==
  /\ NextToken \in Tokens \ Issued
  /\ state' = [state EXCEPT ![NextToken] = "live"]
  /\ family' = [family EXCEPT ![NextToken] = IF continuing = 0 THEN NextToken ELSE continuing]
  /\ org' = [org EXCEPT ![NextToken] = o]
  /\ device' = [device EXCEPT ![NextToken] = ClientOf[s]]
  /\ lastActive' = o
  /\ req' = [req EXCEPT ![s].stage = "set", ![s].new = NextToken]

\* The families are ended on purpose.  What that cannot reach is a token of
\* theirs that was just rotated, and a refresh that has found its row usable.
EndRaces(fs) ==
  [c \in Clients |->
    {x \in {"grace"} : \E t \in OfFamilies(fs) : device[t] = c /\ state[t] = "rotated"}
    \cup {x \in {"inFlight"} :
           \E s \in Tabs : /\ ClientOf[s] = c /\ req[s].op = "refresh"
                           /\ req[s].stage \in {"found", "turned"} /\ family[req[s].sent] \in fs}]
End(fs) == over' = over \cup fs

\* Requests that bring a new token and overlap, one of them changing what the
\* client shows.
Overlaps(c, op) ==
  \E s \in Tabs : /\ ClientOf[s] = c
                  /\ {op, req[s].op} \subseteq {"refresh", "switch", "change"}
                  /\ {op, req[s].op} # {"refresh"}

-----------------------------------------------------------------------------
\* Every client has just signed in, in the workspace last used.
Init ==
  /\ native \in SUBSET Range(ClientOf)   \* a client without a tab only ends others
  /\ lastActive \in Orgs /\ members = Orgs
  /\ cookie = FirstToken /\ mine = FirstToken
  /\ state = [t \in Tokens |-> IF t \in Range(FirstToken) THEN "live" ELSE "unused"]
  /\ family = [t \in Tokens |-> IF t \in Range(FirstToken) THEN t ELSE 0]
  /\ org = [t \in Tokens |-> IF t \in Range(FirstToken) THEN lastActive ELSE 0]
  /\ device = [t \in Tokens |-> CHOOSE c \in Clients : t \in Range(FirstToken) => FirstToken[c] = t]
  /\ chosen = [c \in Clients |-> lastActive]
  /\ req = [s \in Tabs |-> Idle]
  /\ over = {}
  /\ raced = [c \in Clients |-> {}]

(* A request leaves with the token its client holds at that moment.          *)

Send(s, op, o) ==
  LET c == ClientOf[s] IN
  /\ req[s] = Idle /\ cookie[c] # 0
  /\ req' = [req EXCEPT ![s] = [Idle EXCEPT !.op = op, !.stage = "sent",
                                            !.sent = cookie[c], !.to = o]]
  /\ IF Overlaps(c, op) THEN Note(Racing({c}, "overlap"), NoRace) ELSE UNCHANGED raced
  /\ UNCHANGED <<native, tokenVars, cookie, members, lastActive, historyVars>>

\* A 401 elsewhere, or keepAlive: every tab on its own, an application once.
SendRefresh(s) ==
  /\ ClientOf[s] \in native =>
       \A z \in Tabs : ClientOf[z] = ClientOf[s] => req[z].op # "refresh"
  /\ Send(s, "refresh", 0)

\* The console's workspace switcher.
SendSwitch(s, o) ==
  /\ ClientOf[s] \in Browsers
  /\ Send(s, "switch", o) /\ o # org[cookie[ClientOf[s]]]
SendChange(s) == ClientOf[s] \in Browsers /\ Send(s, "change", 0)
SendLogout(s) == Send(s, "logout", 0)

Handling(s, op, stage) == req[s].op = op /\ req[s].stage = stage

(* POST /auth/refresh: find, rotate and issue are three calls to the         *)
(* database.                                                                 *)

FindToken(s) ==
  /\ Handling(s, "refresh", "sent") /\ Usable(req[s].sent)
  /\ req' = [req EXCEPT ![s].stage = "found", ![s].turn = (state[req[s].sent] = "live"),
                        ![s].to = Resolve(org[req[s].sent])]
  /\ UNCHANGED <<native, tokenVars, cookie, members, lastActive, historyVars, raced>>

RefuseToken(s) ==
  /\ Handling(s, "refresh", "sent") /\ ~Usable(req[s].sent)
  /\ req' = [req EXCEPT ![s].stage = "clear"]
  /\ UNCHANGED <<native, tokenVars, cookie, members, lastActive, historyVars, raced>>

\* Only a row found unrevoked is stamped, and stamped whatever it is by now, so
\* that its 60 seconds may start over.
RotateToken(s) ==
  /\ Handling(s, "refresh", "found")
  /\ req' = [req EXCEPT ![s].stage = "turned"]
  /\ LET t == req[s].sent
     IN  state' = IF req[s].turn THEN [state EXCEPT ![t] = Stamp(t)] ELSE state
  /\ UNCHANGED <<native, family, org, device, cookie, members, lastActive, historyVars, raced>>

IssueRefreshed(s) ==
  /\ Handling(s, "refresh", "turned")
  /\ Issue(s, req[s].to, family[req[s].sent])
  /\ UNCHANGED <<native, cookie, members, historyVars, raced>>

\* The transaction of issueTokens fails: an error, and the cookies stay.
IssueFails(s) ==
  /\ req[s].stage = "turned"
  /\ req' = [req EXCEPT ![s] = Idle]
  /\ UNCHANGED <<native, tokenVars, cookie, members, lastActive, historyVars, raced>>

\* More than REFRESH_ROTATION_GRACE_MS since the row was stamped.
GraceElapses(t) ==
  /\ state[t] = "rotated"
  /\ state' = [state EXCEPT ![t] = "stale"]
  /\ LET holders == {c \in Clients : cookie[c] = t}
     IN  IF holders # {} THEN Note(Racing(holders, "slow"), NoRace) ELSE UNCHANGED raced
  /\ UNCHANGED <<native, family, org, device, cookie, req, members, lastActive, historyVars>>

(* POST /auth/organizations/:id/switch: the access token says who asks, and  *)
(* the refresh token of the request only which family the new one joins.     *)

FindMembership(s) ==
  /\ Handling(s, "switch", "sent")
  /\ req' = [req EXCEPT ![s] = IF req[s].to \in members /\ req[s].to # Resolve(org[req[s].sent])
                               THEN [req[s] EXCEPT !.stage = "turned"] ELSE Idle]
  /\ UNCHANGED <<native, tokenVars, cookie, members, lastActive, historyVars, raced>>

IssueSwitched(s) ==
  /\ Handling(s, "switch", "turned")
  /\ Issue(s, req[s].to, family[req[s].sent])
  /\ IF family[req[s].sent] \in over
     THEN Note(Racing({ClientOf[s]}, "switchAfter"), NoRace) ELSE UNCHANGED raced
  /\ UNCHANGED <<native, cookie, members, historyVars>>

(* POST /auth/password/change: every token of the user, then a new family.   *)

ChangePassword(s) ==
  /\ Handling(s, "change", "sent")
  /\ req' = [req EXCEPT ![s].stage = "turned", ![s].to = Resolve(org[req[s].sent])]
  /\ state' = Revoke(Issued)
  /\ LET all == {family[t] : t \in Issued} IN End(all) /\ Note(EndRaces(all), NoRace)
  /\ UNCHANGED <<native, family, org, device, cookie, members, lastActive, mine, chosen>>

IssueChanged(s) ==
  /\ Handling(s, "change", "turned")
  /\ Issue(s, req[s].to, 0)
  /\ UNCHANGED <<native, cookie, members, historyVars, raced>>

(* POST /auth/logout: the token of the cookie, and no other.                 *)

LoggedOut(s) == IF ClientOf[s] \in Browsers THEN {req[s].sent} ELSE {}

Logout(s) ==
  /\ Handling(s, "logout", "sent")
  /\ req' = [req EXCEPT ![s].stage = "clear"]
  /\ state' = Revoke(LoggedOut(s))
  /\ LET f == family[req[s].sent]
         c == ClientOf[s]
         left == {t \in OfFamilies({f}) : state[t] = "live"} \ {req[s].sent}
         missed == {x \in {"fork"} : left # {}} \cup {x \in {"desktop"} : c \in native}
     IN  End({f}) /\ Note(EndRaces({f}), [d \in Clients |-> IF d = c THEN missed ELSE {}])
  /\ UNCHANGED <<native, family, org, device, cookie, members, lastActive, mine, chosen>>

(* Ending sessions from elsewhere: each answer leaves the cookies alone, so  *)
(* the request is one step.                                                  *)

\* DELETE /auth/sessions/:id, of a listed family other than one's own.
Listed == {family[t] : t \in {u \in Issued : state[u] = "live"}}
RevokeFamily(c, f) ==
  /\ c \in Browsers /\ cookie[c] # 0
  /\ f \in Listed /\ f # family[cookie[c]]
  /\ state' = Revoke(OfFamilies({f}))
  /\ End({f}) /\ Note(EndRaces({f}), NoRace)
  /\ UNCHANGED <<native, family, org, device, cookie, req, members, lastActive, mine, chosen>>

\* DELETE /auth/sessions: everything except the caller's family.
OthersBug(c) == Issued
Others(c) == {t \in Issued : family[t] # family[cookie[c]]}
RevokeOthers(c) ==
  /\ c \in Browsers /\ cookie[c] # 0
  /\ state' = Revoke(Others(c))
  /\ LET fs == {family[t] : t \in Issued} \ {family[cookie[c]]}
     IN  End(fs) /\ Note(EndRaces(fs), NoRace)
  /\ UNCHANGED <<native, family, org, device, cookie, req, members, lastActive, mine, chosen>>

\* POST /auth/password/reset, and an administrator's revocation.
RevokeAll ==
  /\ state' = Revoke(Issued)
  /\ LET all == {family[t] : t \in Issued} IN End(all) /\ Note(EndRaces(all), NoRace)
  /\ UNCHANGED <<native, family, org, device, cookie, req, members, lastActive, mine, chosen>>

\* DELETE /organizations/current/members/:userId, by an owner or an admin.
RemoveMember(o) ==
  /\ o \in members /\ members # {o}
  /\ members' = members \ {o}
  /\ state' = Revoke(Issued)
  /\ LET all == {family[t] : t \in Issued} IN End(all) /\ Note(EndRaces(all), NoRace)
  /\ UNCHANGED <<native, family, org, device, cookie, req, lastActive, mine, chosen>>

(* Answers, in any order.                                                    *)

SetCookies(s) ==
  /\ req[s].stage = "set"
  /\ LET c == ClientOf[s]
         t == req[s].new
     IN  /\ cookie' = [cookie EXCEPT ![c] = t]
         /\ mine' = [mine EXCEPT ![c] = family[t]]
         /\ chosen' = IF req[s].op = "refresh" THEN chosen ELSE [chosen EXCEPT ![c] = org[t]]
  /\ req' = [req EXCEPT ![s] = Idle]
  /\ UNCHANGED <<native, tokenVars, members, lastActive, over, raced>>

\* clearAuthCookies; the application forgets its pair.
ClearCookies(s) ==
  /\ req[s].stage = "clear"
  /\ LET c == ClientOf[s]
     IN  /\ cookie' = [cookie EXCEPT ![c] = 0]
         /\ IF cookie[c] \notin {0, req[s].sent}
            THEN Note(Racing({c}, "lateClear"), NoRace) ELSE UNCHANGED raced
  /\ req' = [req EXCEPT ![s] = Idle]
  /\ UNCHANGED <<native, tokenVars, members, lastActive, historyVars>>

\* The request or its answer is lost; the application signs out all the same.
Lose(s) ==
  /\ req[s].stage \in {"sent", "set", "clear"}
  /\ req[s].op = "logout" => ClientOf[s] \notin native
  /\ req' = [req EXCEPT ![s] = Idle]
  /\ UNCHANGED <<native, tokenVars, cookie, members, lastActive, historyVars, raced>>

\* Signing in again, once nothing of the last time is on its way.
SignInAgain(c) ==
  /\ cookie[c] = 0 /\ NextToken \in Tokens \ Issued
  /\ \A s \in Tabs : ClientOf[s] = c => req[s] = Idle
  /\ LET o == Resolve(lastActive)
     IN  /\ state' = [state EXCEPT ![NextToken] = "live"]
         /\ family' = [family EXCEPT ![NextToken] = NextToken]
         /\ org' = [org EXCEPT ![NextToken] = o]
         /\ device' = [device EXCEPT ![NextToken] = c]
         /\ lastActive' = o
         /\ chosen' = [chosen EXCEPT ![c] = o]
  /\ cookie' = [cookie EXCEPT ![c] = NextToken]
  /\ mine' = [mine EXCEPT ![c] = NextToken]
  /\ UNCHANGED <<native, req, members, over, raced>>

-----------------------------------------------------------------------------
Next ==
  \/ \E s \in Tabs :
       \/ SendRefresh(s) \/ SendChange(s) \/ SendLogout(s)
       \/ \E o \in Orgs : SendSwitch(s, o)
  \/ \E s \in Tabs :
       \/ FindToken(s) \/ RefuseToken(s) \/ RotateToken(s) \/ IssueRefreshed(s)
       \/ IssueFails(s) \/ FindMembership(s) \/ IssueSwitched(s)
       \/ ChangePassword(s) \/ IssueChanged(s) \/ Logout(s)
       \/ SetCookies(s) \/ ClearCookies(s) \/ Lose(s)
  \/ RevokeAll
  \/ \E t \in Tokens : GraceElapses(t)
  \/ \E c \in Clients : RevokeOthers(c) \/ SignInAgain(c) \/ \E f \in Issued : RevokeFamily(c, f)
  \/ \E o \in Orgs : RemoveMember(o)

Spec == Init /\ [][Next]_vars

-----------------------------------------------------------------------------
(* Properties                                                                *)

Excused(c, xs) == raced[c] \cap xs # {}

\* refresh-tokens.ts: an expired row is beyond the grace window, whatever refresh,
\* sign-out or revocation stamps it afterwards.
ExpiredForGood == [][\A t \in Tokens : state[t] = "ended" => state'[t] = "ended"]_vars

\* refresh-tokens.ts: what somebody deliberately ended is not resurrected.  No
\* token of an ended family can be traded for a session, whether it is still
\* held somewhere or not.
SignOutIsFinal == \A t \in Issued : family[t] \in over => ~Usable(t)

\* The same, but for: a token rotated within the last minute; a refresh that had
\* found its row; the live tokens a sign-out does not present, which a switch
\* and concurrent refreshes leave behind; a switch, which asks nothing of the
\* token it continues; and the application's sign-out, which presents none.
SignOutIsFinalUnlessRaced ==
  \A t \in Issued : family[t] \in over /\ Usable(t) =>
    Excused(device[t], {"grace", "inFlight", "fork", "switchAfter", "desktop"})

\* refresh-token-policy.ts: tabs that refresh on their own do not sign each
\* other out.  What a client was given stays good until its family is ended, but
\* for a rotation whose answer took a minute or never came, and an answer to an
\* older token that clears the cookies of a newer one.
StaysSignedInUnlessRaced ==
  \A c \in Clients :
    (cookie[c] = 0 \/ ~Usable(cookie[c])) /\ mine[c] \notin over =>
      Excused(c, {"slow", "lateClear"})

\* auth.ts, POST /auth/refresh: a background refresh does not move the caller to
\* another workspace, as long as they belong to the one they chose, but for a
\* refresh that crosses a switch.
SwitchSticksUnlessRaced ==
  \A c \in Clients :
    cookie[c] # 0 /\ chosen[c] \in members => org[cookie[c]] = chosen[c] \/ Excused(c, {"overlap"})
=============================================================================
