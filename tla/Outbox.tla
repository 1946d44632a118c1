-------------------------------- MODULE Outbox --------------------------------
(***************************************************************************)
(* The desktop application's local copy of a workspace: a snapshot of the  *)
(* server's rows, and a durable queue of the changes made here, which is   *)
(* replayed to the server one change at a time (desktop runtime/           *)
(* local-workspace.ts, local-data.ts and session.ts, api lib/offline-id.ts *)
(* and the handlers of tasks, notes, snippets and hosts).                  *)
(*                                                                         *)
(* One computer, its server, and whoever else writes the same rows.  An    *)
(* action is one stretch of the code between two awaits; commit() stores   *)
(* before it assigns, in one step here.  "us" is the account and the       *)
(* organization the changes are made for, "another" any other pair: of its *)
(* own work only that it takes the computer over is modelled.              *)
(***************************************************************************)
EXTENDS Integers, Sequences, FiniteSets, SequencesExt

CONSTANTS
  Rows,        \* the ids of rows, among them those of rows not made yet
  MaxChanges,  \* bound: changes ever made on this computer
  MaxTheirs,   \* bound: writes by others
  MaxFails,    \* bound: calls without an answer, saves that fail, restarts, and what MayFail guards below
  Races,       \* which of the races below may happen
  MaxRaces     \* bound: how many of them, but for "rejected", in one behaviour

\* What a replay may run into.
\* "late": a request that was given up is served after all.
\* "deletedMeanwhile": somebody deletes a row whose creation has not been acknowledged.
\* "rejected": the server refuses a change.
\* "discardedSent": a change is discarded that the server has applied already.
\* "sessionEnded": the server rejects the refresh token, on which the local data is cleared.
\* "outOfSight": changes wait in a file that was not read or whose workspace is not shown, and the
\*   next sign-in puts an empty workspace in its place, or another server is chosen.
\* "removedWhileSyncing": the account leaves the organization between me() and the end of a sync.
AllRaces == {"late", "deletedMeanwhile", "rejected", "discardedSent", "sessionEnded", "outOfSight",
             "removedWhileSyncing"}

ASSUME RacesAssumption == Races \subseteq AllRaces
ASSUME BoundsAssumption == {MaxChanges, MaxTheirs, MaxFails, MaxRaces} \subseteq Nat

VARIABLES
  data,       \* workspace.data; of nobody while the workspace is undefined
  file,       \* what is stored; of nobody when there is no file
  active,     \* the person is signed in, and sees the workspace
  phase,      \* how far reconcile() is; "idle" when none runs
  snapshot,   \* the rows it has read and not stored yet
  rerun,      \* a change was made while it ran
  failed,     \* this.error
  discarding, \* discardPending() has been let in and not stored yet
  member,     \* me() answers with the account and the organization of "us"
  supported,  \* the server gives this computer an offline bundle of version 1
  wire,       \* the requests under way
  answer,     \* to the request that is waited for
  server,     \* the rows
  theirs,     \* how many writes others made
  fails,
  log,        \* history: every change made here
  writes,     \* history: the changes the server carried out, by number
  settled,    \* history: the changes it has carried out or found done, and those the user gave up
  shown,      \* history: what the user was shown after their last change to each row
  touched,    \* history: the rows others have written
  raced       \* history: the races that happened

saved == <<data, file, active>>
sync == <<phase, snapshot, rerun, failed, discarding>>
access == <<member, supported>>
remote == <<wire, answer, server, theirs>>
history == <<log, writes, settled, shown, touched>>
vars == <<saved, sync, access, remote, fails, history, raced>>

queue == data.changes
rows == data.rows  \* what each row was when the server last told

\* What a row holds: the number of the change that wrote it, or what was there first, or theirs.
First == 0
Theirs == MaxChanges + 1
Absent == MaxChanges + 2
Values == 0..Absent
Change == [n : 1..MaxChanges, kind : {"create", "update", "delete"}, row : Rows]
NoRows == [x \in Rows |-> Absent]
Phases == {"idle", "identity", "bundle", "sending", "waiting", "reading", "storing"}
NoAnswer == [status |-> "none", value |-> Absent]

\* emptyData, and the lack of any.
Empty(who) == [user |-> who, changes |-> <<>>, rows |-> NoRows, lastSync |-> FALSE]
Nothing == Empty("nobody")

TypeOK ==
  /\ \A d \in {data, file} :
       /\ d \in [user : {"nobody", "us", "another"}, changes : Seq(Change), rows : [Rows -> Values],
                 lastSync : BOOLEAN]
       /\ \A i, j \in DOMAIN d.changes : i < j => d.changes[i].n < d.changes[j].n
  /\ log \in Seq(Change) /\ Len(log) <= MaxChanges
  /\ \A i \in DOMAIN log : log[i].n = i
  /\ snapshot \in [Rows -> Values] /\ server \in [Rows -> Values]
  /\ phase \in Phases
  /\ {active, rerun, failed, discarding, member, supported} \subseteq BOOLEAN
  /\ wire \subseteq [change : Change, awaited : BOOLEAN]
  /\ answer \in [status : {"none", "ok", "missing", "refused"}, value : Values]
  /\ answer.status # "none" => phase = "waiting"
  /\ phase = "waiting" => queue # <<>>
  /\ theirs \in 0..MaxTheirs /\ fails \in 0..MaxFails
  /\ writes \in Seq(1..MaxChanges) /\ settled \subseteq 1..MaxChanges
  /\ DOMAIN shown = Rows /\ touched \subseteq Rows
  /\ raced \subseteq Races

-------------------------------------------------------------------------------
Race(S) == /\ raced' = raced \cup S
           /\ raced' \subseteq Races
           /\ Cardinality(raced' \ {"rejected"}) <= MaxRaces
When(P, name) == IF P THEN {name} ELSE {}
MayFail == fails < MaxFails /\ fails' = fails + 1

\* commit: stored, then shown.
Commit(next) == data' = next /\ file' = next

Numbers(q) == {q[i].n : i \in DOMAIN q}

\* apply: what a change makes of a row.
Apply(v, c) == IF c.kind = "delete" THEN Absent
               ELSE IF c.kind = "create" \/ v # Absent THEN c.n ELSE Absent

\* view: the snapshot with the queued changes over it.
View(base, q) == FoldLeft(LAMBDA d, c : [d EXCEPT ![c.row] = Apply(@, c)], base, q)

Init ==
  /\ server \in [Rows -> {First, Absent}]
  /\ data = [user |-> "us", changes |-> <<>>, rows |-> server, lastSync |-> TRUE] /\ file = data /\ active = TRUE
  /\ shown = server /\ snapshot = NoRows
  /\ log = <<>> /\ writes = <<>> /\ wire = {} /\ settled = {} /\ touched = {} /\ raced = {}
  /\ phase = "idle" /\ answer = NoAnswer
  /\ rerun = FALSE /\ failed = FALSE /\ discarding = FALSE /\ member = TRUE /\ supported = TRUE
  /\ theirs = 0 /\ fails = 0

-------------------------------------------------------------------------------
\* The person at this computer.

EnqueueBug(c) == <<c>> \o queue

Enqueue(c) == Append(queue, c)

\* mutate: the change is stored, shown, and a sync started or asked for.
Mutate(kind, x) == LET c == [n |-> Len(log) + 1, kind |-> kind, row |-> x]  seen == View(rows, queue)[x] IN
  /\ active /\ data.user = "us" /\ Len(log) < MaxChanges
  /\ IF kind = "create" THEN server[x] = Absent /\ x \notin touched /\ \A i \in DOMAIN log : log[i].row # x
                        ELSE seen # Absent
  /\ Commit([data EXCEPT !.changes = Enqueue(c)])
  /\ log' = Append(log, c)
  /\ shown' = [shown EXCEPT ![x] = Apply(seen, c)]
  /\ IF phase = "idle" THEN phase' = "identity" /\ UNCHANGED rerun ELSE rerun' = TRUE /\ UNCHANGED phase
  /\ UNCHANGED <<active, snapshot, failed, discarding, access, remote, fails, writes, settled, touched, raced>>

\* discardPending: refused while a sync runs; the queue is emptied when the stores before it are done.
AskToDiscard ==
  /\ active /\ phase = "idle" /\ ~discarding /\ queue # <<>>
  /\ discarding' = TRUE
  /\ UNCHANGED <<saved, phase, snapshot, rerun, failed, access, remote, fails, history>>
  /\ Race(When(Numbers(queue) \cap settled # {}, "discardedSent"))
Discard ==
  /\ discarding
  /\ Commit([data EXCEPT !.changes = <<>>])
  /\ discarding' = FALSE /\ failed' = FALSE
  /\ phase' = IF phase = "idle" THEN "identity" ELSE phase
  /\ settled' = settled \cup Numbers(queue)
  /\ shown' = IF data.lastSync THEN rows ELSE server
  /\ UNCHANGED <<active, snapshot, rerun, access, remote, fails, log, writes, touched, raced>>
DiscardFails ==
  /\ discarding /\ MayFail
  /\ discarding' = FALSE
  /\ UNCHANGED <<saved, phase, snapshot, rerun, failed, access, remote, history, raced>>

\* A request that is given up: it is lost, or it is late.
Abandon(S) == \E late \in {{}, {[m EXCEPT !.awaited = FALSE] : m \in wire}} :
  /\ wire' = late
  /\ answer' = NoAnswer
  /\ Race(S \cup When(\E m \in wire : m.awaited /\ late # {}, "late"))

\* stop: what ran of a sync or a discard has no effect any more.
Stopped == /\ phase' = "idle" /\ rerun' = FALSE /\ failed' = FALSE /\ discarding' = FALSE
           /\ snapshot' = NoRows

\* clearLocal: the workspace is stopped and its file removed.
Cleared == /\ Stopped
           /\ data' = Nothing /\ file' = Nothing /\ active' = FALSE
           /\ shown' = server

\* The person signs out, and was asked if changes were pending.
SignOut ==
  /\ active
  /\ Cleared
  /\ settled' = settled \cup Numbers(queue)
  /\ Abandon({})
  /\ UNCHANGED <<access, server, theirs, fails, log, writes, touched>>

\* A refresh is answered 401: of the signed-in application, or of one that starts without a workspace.
SessionEnds ==
  /\ active \/ (data = Nothing /\ file # Nothing)
  /\ Cleared
  /\ Abandon({"sessionEnded"})
  /\ UNCHANGED <<access, server, theirs, fails, log, writes, settled, touched>>

\* The application stops and starts.  The file is read, unless the keychain is locked or the file cannot
\* be decrypted, which leaves it as it is; signed in is who has a refresh token that can be read.
Restart ==
  /\ file # Nothing /\ MayFail
  /\ \/ data' = file /\ active' \in BOOLEAN
     \/ data' = Nothing /\ active' = FALSE
  /\ Stopped
  /\ Abandon({})
  /\ UNCHANGED <<file, access, server, theirs, history>>

Waiting == Numbers(file.changes) \ settled # {}

\* setLocalUser, after a sign-in or after a start that found no workspace: the workspace that is there
\* is opened if it is theirs; any other makes way for an empty one, which is saved, over whatever was
\* stored, or cannot be, and stays closed.
SignIn(who) ==
  /\ ~active
  /\ IF data.user = who
     THEN active' = TRUE /\ UNCHANGED <<data, file, fails>>
     ELSE \/ Commit(Empty(who)) /\ active' = TRUE /\ UNCHANGED fails
          \/ data' = Empty(who) /\ MayFail /\ UNCHANGED <<file, active>>
  /\ member' = (who = "us" \/ member)
  /\ UNCHANGED <<sync, supported, remote, history>>
  /\ Race(When(active' /\ data' # file /\ Waiting, "outOfSight"))

\* Another server is chosen on the sign-in screen, where no change counts as pending: the file goes.
SwitchServer ==
  /\ ~active /\ file # Nothing
  /\ data' = Nothing /\ file' = Nothing
  /\ shown' = server
  /\ UNCHANGED <<active, sync, access, remote, fails, log, writes, settled, touched>>
  /\ Race(When(Waiting, "outOfSight"))

-------------------------------------------------------------------------------
\* reconcile.

Finishes(error) == /\ phase' = IF rerun /\ ~error THEN "identity" ELSE "idle"
                   /\ rerun' = FALSE
                   /\ failed' = error

\* The timer, "Sync now", or the start of the application.
Tick ==
  /\ active /\ data.user = "us" /\ phase = "idle"
  /\ phase' = "identity"
  /\ UNCHANGED <<saved, snapshot, rerun, failed, discarding, access, remote, fails, history, raced>>

\* me() answers with the workspace's own account and organization, or with others: then its grants
\* are dropped, the sync fails, and so does the next.
Identity ==
  /\ phase = "identity" /\ member
  /\ phase' = "bundle" /\ failed' = FALSE
  /\ UNCHANGED <<saved, snapshot, rerun, discarding, access, remote, fails, history, raced>>
IdentityDiffers ==
  /\ phase = "identity" /\ ~member /\ ~discarding
  /\ Commit(data)
  /\ Finishes(TRUE)
  /\ UNCHANGED <<active, snapshot, discarding, access, remote, fails, history, raced>>

\* The offline bundle is stored behind a discard that waits; it also says that replays are supported.
Bundle ==
  /\ phase = "bundle" /\ supported /\ ~discarding
  /\ Commit(data)
  /\ phase' = "sending"
  /\ UNCHANGED <<active, snapshot, rerun, failed, discarding, access, remote, fails, history, raced>>

\* It is of another version, or withheld, or the computer has no device secret to ask with: nothing is
\* sent.  What is withheld is stored too, or cannot be asked for.
BundleUnsupported ==
  /\ phase = "bundle" /\ ~supported
  /\ \/ failed' = TRUE /\ UNCHANGED <<data, file>>
     \/ failed' \in {TRUE, queue # <<>>} /\ ~discarding /\ Commit(data)
  /\ phase' = "reading"
  /\ UNCHANGED <<active, snapshot, rerun, discarding, access, remote, fails, history, raced>>

\* There is no answer, and nothing is sent; or it cannot be stored.
BundleFails ==
  /\ phase = "bundle" /\ MayFail
  /\ failed' = TRUE
  /\ phase' = "reading" \/ (phase' = "sending" /\ supported /\ ~discarding)
  /\ UNCHANGED <<saved, snapshot, rerun, discarding, access, remote, history, raced>>

\* The oldest change goes out, and nothing else until it is answered.
Send ==
  /\ phase = "sending" /\ queue # <<>>
  /\ wire' = wire \cup {[change |-> Head(queue), awaited |-> TRUE]}
  /\ phase' = "waiting"
  /\ UNCHANGED <<saved, snapshot, rerun, failed, discarding, access, answer, server, theirs, fails, history, raced>>

DoneBug(c) == answer.status = "ok"
DoneAnywayBug(c) == answer.status \in {"ok", "missing"}

\* A deletion of what is gone is as good as done; anything else that is not found is refused.
Done(c) == answer.status = "ok" \/ (answer.status = "missing" /\ c.kind = "delete")

AckBug(c) == rows

\* An acknowledged change goes into the snapshot, with the row as the server answered it.
Ack(c) == [rows EXCEPT ![c.row] = IF c.kind = "delete" THEN Absent ELSE answer.value]

Acknowledged == LET c == Head(queue) IN
  /\ phase = "waiting" /\ answer.status # "none" /\ Done(c)
  /\ Commit([data EXCEPT !.rows = Ack(c), !.changes = Tail(queue)])
  /\ answer' = NoAnswer
  /\ phase' = "sending"
  /\ UNCHANGED <<active, snapshot, rerun, failed, discarding, access, wire, server, theirs, fails, history, raced>>

\* The acknowledgement cannot be stored, which ends the sync.
AckFails ==
  /\ phase = "waiting" /\ answer.status # "none" /\ Done(Head(queue)) /\ MayFail
  /\ answer' = NoAnswer
  /\ Finishes(TRUE)
  /\ UNCHANGED <<saved, snapshot, discarding, access, wire, server, theirs, history, raced>>

\* Refused, or no answer within ten seconds: the queue stays and the snapshot is read all the same.
Refused ==
  /\ phase = "waiting" /\ answer.status # "none" /\ ~Done(Head(queue))
  /\ answer' = NoAnswer
  /\ phase' = "reading" /\ failed' = TRUE
  /\ UNCHANGED <<saved, snapshot, rerun, discarding, access, wire, server, theirs, fails, history, raced>>
GiveUp ==
  /\ phase = "waiting" /\ MayFail
  /\ Abandon({})
  /\ phase' = "reading" /\ failed' = TRUE
  /\ UNCHANGED <<saved, snapshot, rerun, discarding, access, server, theirs, history>>

\* The whole snapshot is read before any of it is stored: the rows of the organization me() would answer
\* with.  The bundle is asked for once more, and an answer other than its refusal is an error.
Read ==
  /\ phase = "reading" \/ (phase = "sending" /\ queue = <<>>)
  /\ snapshot' = IF member THEN server ELSE NoRows
  /\ \/ UNCHANGED <<failed, fails>>
     \/ failed' = TRUE /\ IF supported THEN MayFail ELSE UNCHANGED fails
  /\ phase' = "storing"
  /\ UNCHANGED <<saved, rerun, discarding, access, remote, history, raced>>
Store ==
  /\ phase = "storing" /\ ~discarding
  /\ Commit([data EXCEPT !.rows = snapshot, !.lastSync = TRUE])
  /\ Finishes(failed)
  /\ snapshot' = NoRows
  /\ UNCHANGED <<active, discarding, access, remote, fails, history, raced>>

\* me() or the snapshot gets no answer, or a store fails.
SyncFails ==
  /\ phase \in {"identity", "reading", "storing"} /\ MayFail
  /\ Finishes(TRUE)
  /\ snapshot' = NoRows
  /\ UNCHANGED <<saved, discarding, access, remote, history, raced>>

-------------------------------------------------------------------------------
\* The server.

CreatesBug(c) == c.kind = "create"

\* A row is made under an id that follows from the change: one that is there is found and left.
Creates(c) == c.kind = "create" /\ server[c.row] = Absent

Writes(c) == Creates(c) \/ (c.kind # "create" /\ server[c.row] # Absent)
Reply(m, status, value) ==
  IF m.awaited THEN answer' = [status |-> status, value |-> value] ELSE UNCHANGED answer

\* The handler of POST, PATCH or DELETE, for a member of the organization.
Serve(m) == LET c == m.change IN
  /\ member
  /\ wire' = wire \ {m}
  /\ IF Writes(c)
     THEN /\ server' = [server EXCEPT ![c.row] = Apply(@, c)]
          /\ writes' = IF c.kind = "update" /\ writes # <<>> /\ Last(writes) = c.n
                       THEN writes ELSE Append(writes, c.n)
          /\ Reply(m, "ok", server'[c.row])
     ELSE /\ UNCHANGED <<server, writes>>
          /\ Reply(m, IF c.kind = "create" THEN "ok" ELSE "missing", server[c.row])
  /\ settled' = IF Writes(c) \/ c.kind # "update" THEN settled \cup {c.n} ELSE settled
  /\ UNCHANGED <<saved, sync, access, theirs, fails, log, shown, touched>>
  /\ Race(When(m.awaited /\ c.kind = "update" /\ ~Writes(c), "rejected"))

\* The same for who is in another organization by now: a creation names the one it was made for, and
\* is refused; the other handlers do not find the row.
ServeStranger(m) ==
  /\ ~member
  /\ wire' = wire \ {m}
  /\ Reply(m, IF m.change.kind = "create" THEN "refused" ELSE "missing", Absent)
  /\ UNCHANGED <<saved, sync, access, server, theirs, fails, history>>
  /\ Race(When(m.awaited /\ m.change.kind # "delete", "rejected"))

\* The role, the plan or the contents of a change are not accepted.
Reject(m) ==
  /\ wire' = wire \ {m}
  /\ Reply(m, "refused", Absent)
  /\ UNCHANGED <<saved, sync, access, server, theirs, fails, history>>
  /\ Race({"rejected"})

\* Another client edits or deletes a row.
Other(x) == \E v \in {Theirs, Absent} :
  /\ theirs < MaxTheirs /\ server[x] # Absent
  /\ server' = [server EXCEPT ![x] = v]
  /\ theirs' = theirs + 1
  /\ touched' = touched \cup {x}
  /\ UNCHANGED <<saved, sync, access, wire, answer, fails, log, writes, settled, shown>>
  /\ Race(When(v = Absent /\ \E i \in DOMAIN file.changes :
                 file.changes[i].kind = "create" /\ file.changes[i].row = x, "deletedMeanwhile"))

\* The account leaves the organization, or is taken back: the api reads its memberships at each request.
Leaves ==
  /\ member /\ member' = FALSE
  /\ UNCHANGED <<saved, sync, supported, remote, history>>
  /\ IF phase \in {"idle", "identity"} THEN MayFail /\ UNCHANGED raced
                                        ELSE Race({"removedWhileSyncing"}) /\ UNCHANGED fails
Readmitted ==
  /\ ~member /\ member' = TRUE
  /\ UNCHANGED <<saved, sync, supported, remote, fails, history, raced>>

\* The bundle is withheld from this computer or the server goes back a version, or this is put right.
Unsupported ==
  /\ supported /\ supported' = FALSE /\ MayFail
  /\ UNCHANGED <<saved, sync, member, remote, history, raced>>
Supported ==
  /\ ~supported /\ supported' = TRUE
  /\ UNCHANGED <<saved, sync, member, remote, fails, history, raced>>

-------------------------------------------------------------------------------
Person == \/ \E x \in Rows, kind \in {"create", "update", "delete"} : Mutate(kind, x)
          \/ AskToDiscard \/ SignOut \/ SwitchServer
          \/ \E who \in {"us", "another"} : SignIn(who)
Sync == \/ Tick \/ Identity \/ IdentityDiffers \/ Bundle \/ BundleUnsupported \/ Send \/ Acknowledged
        \/ Refused \/ Read \/ Store \/ Discard
Failure == SessionEnds \/ Restart \/ BundleFails \/ AckFails \/ GiveUp \/ SyncFails \/ DiscardFails
Server == \E m \in wire : Serve(m) \/ ServeStranger(m)
Administration == Leaves \/ Readmitted \/ Unsupported \/ Supported
Next == \/ Person \/ Sync \/ Failure \/ Server \/ Administration
        \/ \E m \in wire : Reject(m)
        \/ \E x \in Rows : Other(x)

\* The timer runs every minute, each await of a sync ends, and a request under way arrives.
Fairness == WF_vars(Sync) /\ WF_vars(Server)
Spec == Init /\ [][Next]_vars /\ Fairness

-------------------------------------------------------------------------------
Unless(S, P) == raced \cap S = {} => P

\* A change that was saved stays stored until the server has it or the user has given it up: pending
\* work is dropped by "Explicit sign-out", and "it asks before dropping" (docs/desktop.md:105).  A start
\* that cannot read the file loses nothing yet: "keeping the encrypted file intact" (local-data.ts:94).
\* The three races excused are how the code drops changes nobody was asked about: a rejected session,
\* a sign-in over a file that was not read or is not theirs, and the deletion of a row that the
\* organization the account is in by now does not have.
NothingLostUnlessRaced ==
  Unless({"sessionEnded", "outOfSight", "removedWhileSyncing"},
         \A n \in 1..Len(log) : n \in Numbers(file.changes) \cup settled)

\* The server carries out each change in the order they were made and makes a row once, whatever is
\* lost on the way: "Changes replay in order", and "restarting after a lost server response does not
\* create a second copy" (docs/desktop.md:90-92).
OnceInOrderUnlessRaced ==
  Unless({"late", "deletedMeanwhile"}, \A i, j \in DOMAIN writes : i < j => writes[i] < writes[j])

\* What the user sees of a row only they write is what they last made of it, before, while and after
\* it is synced: "Pending local changes remain overlaid on incoming snapshots" (docs/desktop.md:93).
ShowsMineUnlessRaced ==
  Unless({"late", "discardedSent", "outOfSight", "removedWhileSyncing"},
         active /\ data.user = "us" /\ data.lastSync => \A x \in Rows \ touched : View(rows, queue)[x] = shown[x])

\* The person is signed in to the workspace, and the server takes its changes: the account is still in
\* its organization, and the computer gets its offline bundle.
Accepted == active /\ data.user = "us" /\ member /\ supported

\* Once and as long as that is so, the queue empties in the end, unless the server refuses a change:
\* no lost answer, failed save or restart leaves it waiting.  While another identity answers
\* (local-workspace.ts:348-362) or the bundle is withheld (366-396) nothing is sent, for ever if need be.
SyncsUnlessRaced == <>[]Accepted => (queue # <<>> ~> (queue = <<>> \/ "rejected" \in raced))
=============================================================================
