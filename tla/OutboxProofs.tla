------------------------------ MODULE OutboxProofs ------------------------------
(***************************************************************************)
(* Proofs about Outbox: no change is lost but by the races named there,    *)
(* and the server carries each one out once and in order, for any number   *)
(* of rows and of changes, and whatever happens to the file and the access.*)
(***************************************************************************)
EXTENDS Outbox, TLAPS

\* The changes on disk: those in memory, unless another workspace or none is.
stored == file.changes

IsData(d) == d = [user |-> d.user, changes |-> d.changes, rows |-> d.rows, lastSync |-> d.lastSync]
Shaped == IsData(data) /\ IsData(file)

\* The stored queue holds changes made here, oldest first, and memory holds it or nothing.
Queueing ==
  /\ stored \in Seq(Change) /\ log \in Seq(Change) /\ Len(log) <= MaxChanges
  /\ \A i \in 1..Len(stored) : stored[i].n <= Len(log)
  /\ \A i, j \in 1..Len(stored) : i < j => stored[i].n < stored[j].n
  /\ queue # <<>> => queue = stored
  /\ server \in [Rows -> Values]
  /\ wire \subseteq [change : Change, awaited : BOOLEAN]

\* One request is waited for at most, that of the oldest change; an answer that lets it go was given
\* after the change was carried out, or found done, or to who is not a member any more.
Waits ==
  /\ discarding => phase \notin {"sending", "waiting"}
  /\ phase = "waiting" => queue # <<>>
  /\ answer.status # "none" => phase = "waiting"
  /\ \A m \in wire : m.awaited => phase = "waiting" /\ answer.status = "none" /\ m.change = Head(queue)
  /\ answer.status # "none" /\ Done(Head(queue)) => Head(queue).n \in settled \/ "removedWhileSyncing" \in raced

\* Only a signed-in workspace is written; what it writes over is what it shows, or was excused.
InSight ==
  /\ ~active => phase = "idle" /\ ~discarding
  /\ active /\ queue # stored => "outOfSight" \in raced \/ Numbers(stored) \subseteq settled

\* A sync that has got past me() belongs to a member, unless the account was removed meanwhile.
Belongs == ~member => phase \in {"idle", "identity"} \/ "removedWhileSyncing" \in raced

\* What the server shows of a change it has carried out, as long as others leave the row alone.
Shows(c) == /\ c.kind = "create" => server[c.row] # Absent
            /\ c.kind = "delete" => server[c.row] = Absent

\* No request is late, and nothing is carried out that is newer than the oldest change stored.
Ordered ==
  /\ writes \in Seq(Nat)
  /\ \A i, j \in 1..Len(writes) : i < j => writes[i] < writes[j]
  /\ \A m \in wire : m.awaited
  /\ \A i \in 1..Len(writes) :
       /\ writes[i] <= Len(log)
       /\ stored # <<>> => writes[i] <= Head(stored).n /\ (writes[i] = Head(stored).n => Shows(Head(stored)))

Late == {"late", "deletedMeanwhile"}
Inv == Shaped /\ Queueing /\ Waits /\ InSight /\ Belongs /\ NothingLostUnlessRaced /\ Unless(Late, Ordered)

-------------------------------------------------------------------------------
\* What is saved.

LEMMA EmptyIs ==
  ASSUME NEW who
  PROVE  IsData(Empty(who)) /\ Empty(who).changes = <<>>
BY DEF IsData, Empty

\* A commit stores what it shows.
LEMMA CommitIs ==
  ASSUME Shaped, NEW q, NEW r, NEW l,
         \/ Commit([data EXCEPT !.changes = q]) \/ Commit([data EXCEPT !.rows = r, !.changes = q])
         \/ Commit([data EXCEPT !.rows = r, !.lastSync = l]) /\ q = queue
         \/ Commit(data) /\ q = queue
  PROVE  queue' = q /\ stored' = q /\ Shaped'
<1>1. CASE Commit([data EXCEPT !.changes = q])
  BY <1>1 DEF Commit, Shaped, IsData, queue, stored
<1>2. CASE Commit([data EXCEPT !.rows = r, !.changes = q])
  BY <1>2 DEF Commit, Shaped, IsData, queue, stored
<1>3. CASE Commit([data EXCEPT !.rows = r, !.lastSync = l]) /\ q = queue
  BY <1>3 DEF Commit, Shaped, IsData, queue, stored
<1>4. CASE Commit(data) /\ q = queue
  BY <1>4 DEF Commit, Shaped, IsData, queue, stored
<1>. QED BY <1>1, <1>2, <1>3, <1>4

LEMMA UnsavedIs ==
  ASSUME Shaped, UNCHANGED <<data, file>>
  PROVE  queue' = queue /\ stored' = stored /\ Shaped'
BY DEF Shaped, IsData, queue, stored

\* The file is written by a signed-in workspace with the changes it shows, or not at all.
Kept == stored' = stored \/ (active /\ stored' = queue)

LEMMA KeptLosesNothing ==
  ASSUME Inv, Kept, log' = log, settled \subseteq settled', raced \subseteq raced'
  PROVE  NothingLostUnlessRaced'
<1>1. SUFFICES ASSUME raced' \cap {"sessionEnded", "outOfSight", "removedWhileSyncing"} = {}, NEW n \in 1..Len(log')
               PROVE  n \in Numbers(stored') \cup settled'
  BY DEF NothingLostUnlessRaced, Unless, stored, Numbers
<1>2. n \in Numbers(stored) \cup settled
  BY <1>1 DEF Inv, NothingLostUnlessRaced, Unless, stored
<1>3. CASE stored' = stored
  BY <1>2, <1>3
<1>4. CASE active /\ stored' = queue
  <2>1. stored' = stored \/ Numbers(stored) \subseteq settled
    BY <1>1, <1>4 DEF Inv, InSight
  <2>. QED BY <1>2, <2>1
<1>. QED BY <1>3, <1>4 DEF Kept

-------------------------------------------------------------------------------
\* The queue as a sequence.

LEMMA NumbersAreNat ==
  ASSUME NEW q \in Seq(Change), NEW i \in 1..Len(q)
  PROVE  q[i] \in Change /\ q[i].n \in Nat
<1>1. q[i] \in Change
  OBVIOUS
<1>. QED BY <1>1, BoundsAssumption DEF Change

LEMMA HeadIsChange ==
  ASSUME Queueing, stored # <<>>
  PROVE  /\ Head(stored) \in Change /\ Head(stored) = stored[1] /\ Len(stored) >= 1
         /\ Head(stored).n \in Numbers(stored) /\ Head(stored).n \in Nat
<1>1. Len(stored) >= 1 /\ Head(stored) = stored[1] /\ DOMAIN stored = 1..Len(stored)
  BY DEF Queueing
<1>2. 1 \in 1..Len(stored) /\ stored[1] \in Change
  BY <1>1 DEF Queueing
<1>. QED BY <1>1, <1>2, NumbersAreNat DEF Queueing, Numbers

LEMMA TailIs ==
  ASSUME Queueing, stored # <<>>
  PROVE  /\ Tail(stored) \in Seq(Change) /\ Len(Tail(stored)) = Len(stored) - 1
         /\ \A i \in 1..Len(Tail(stored)) : Tail(stored)[i] = stored[i + 1]
         /\ \A i \in 1..Len(Tail(stored)) : Head(stored).n < Tail(stored)[i].n
         /\ Numbers(stored) \subseteq {Head(stored).n} \cup Numbers(Tail(stored))
<1>1. /\ Tail(stored) \in Seq(Change) /\ Len(Tail(stored)) = Len(stored) - 1 /\ Head(stored) = stored[1]
      /\ \A i \in 1..Len(Tail(stored)) : Tail(stored)[i] = stored[i + 1]
      /\ DOMAIN Tail(stored) = 1..Len(Tail(stored)) /\ DOMAIN stored = 1..Len(stored) /\ Len(stored) \in Nat
  BY DEF Queueing
<1>. DEFINE rest == Tail(stored)
<1>. HIDE DEF rest
<1>2. \A i \in 1..Len(rest) : i + 1 \in 1..Len(stored) /\ 1 \in 1..Len(stored) /\ 1 < i + 1
  BY <1>1 DEF rest
<1>3. \A i \in 1..Len(rest) : stored[1].n < stored[i + 1].n
  BY <1>2 DEF Queueing
<1>4. ASSUME NEW i \in 1..Len(stored), i # 1
      PROVE  stored[i].n \in {rest[k].n : k \in DOMAIN rest}
  <2>1. i - 1 \in 1..Len(rest) /\ rest[i - 1] = stored[i]
    BY <1>1, <1>4 DEF rest
  <2>. QED BY <1>1, <2>1 DEF rest
<1>5. Numbers(stored) \subseteq {Head(stored).n} \cup Numbers(rest)
  BY <1>1, <1>4 DEF Numbers
<1>. QED BY <1>1, <1>3, <1>5 DEF rest

-------------------------------------------------------------------------------
\* A step that leaves the changes and the server alone, and does not touch what is waited for.
LEMMA Quiet ==
  ASSUME Inv, Shaped', Kept, queue' = queue, UNCHANGED <<active, log, writes, server, settled, wire, answer, member>>,
         raced \subseteq raced', phase # "waiting", phase' # "waiting", discarding' => phase' # "sending",
         active \/ (phase' = "idle" /\ ~discarding'),
         phase' \in {"idle", "identity"} \/ phase \notin {"idle", "identity"} \/ member
  PROVE  Inv'
<1>1. stored' = stored \/ (stored' = <<>> /\ queue' = <<>>)
  BY DEF Kept, Inv, Queueing
<1>2. Queueing'
  <2>1. CASE stored' = stored
    BY <2>1 DEF Inv, Queueing
  <2>2. CASE stored' = <<>> /\ queue' = <<>>
    BY <2>2 DEF Inv, Queueing
  <2>. QED BY <1>1, <2>1, <2>2
<1>3. Waits' /\ Belongs'
  BY DEF Inv, Waits, Belongs
<1>4. InSight'
  BY <1>1 DEF Inv, InSight
<1>5. Unless(Late, Ordered)'
  BY <1>1 DEF Inv, Unless, Late, Ordered, Shows
<1>. QED BY <1>2, <1>3, <1>4, <1>5, KeptLosesNothing DEF Inv

LEMMA QuietSteps ==
  ASSUME Inv, \/ Tick \/ Identity \/ BundleFails \/ Read \/ SyncFails \/ AskToDiscard \/ DiscardFails
              \/ IdentityDiffers \/ Bundle \/ BundleUnsupported \/ Store
  PROVE  Inv'
<1>. USE DEF Inv
<1>1. CASE Tick \/ Identity \/ BundleFails \/ Read \/ SyncFails \/ AskToDiscard
  <2>1. /\ UNCHANGED <<saved, log, writes, server, settled, wire, answer, member>>
        /\ phase # "waiting" /\ phase' # "waiting" /\ (discarding' => phase' # "sending")
        /\ active /\ raced \subseteq raced'
        /\ phase' \in {"idle", "identity"} \/ phase \notin {"idle", "identity"} \/ member
    BY <1>1 DEF Tick, Identity, BundleFails, Read, SyncFails, AskToDiscard, Race, Finishes, access, remote, history,
       saved, InSight
  <2>. QED BY <2>1, UnsavedIs, Quiet DEF saved, Kept
<1>2. CASE DiscardFails
  <2>1. /\ UNCHANGED <<saved, phase, wire, answer, log, writes, server, settled, raced, member>>
        /\ active /\ ~discarding'
    BY <1>2 DEF DiscardFails, access, remote, history, saved, InSight
  <2>2. Shaped' /\ Queueing' /\ Waits' /\ Belongs' /\ Unless(Late, Ordered)'
    BY <2>1, UnsavedIs DEF saved, Queueing, Waits, Done, Belongs, Unless, Ordered, Shows
  <2>3. InSight' /\ NothingLostUnlessRaced'
    BY <2>1, UnsavedIs, KeptLosesNothing DEF saved, InSight, Kept
  <2>. QED BY <2>2, <2>3
<1>3. CASE IdentityDiffers \/ Bundle \/ BundleUnsupported \/ Store
  <2>1. /\ UNCHANGED <<active, log, writes, server, settled, wire, answer, member, raced>>
        /\ phase # "waiting" /\ phase' # "waiting" /\ (discarding' => phase' # "sending") /\ active
        /\ phase' \in {"idle", "identity"} \/ phase \notin {"idle", "identity"} \/ member
    <3>1. phase # "idle"
      BY <1>3 DEF IdentityDiffers, Bundle, BundleUnsupported, Store
    <3>2. CASE IdentityDiffers
      BY <3>1, <3>2 DEF IdentityDiffers, Finishes, access, remote, history, InSight
    <3>3. CASE Bundle
      BY <3>1, <3>3 DEF Bundle, access, remote, history, InSight
    <3>4. CASE BundleUnsupported
      BY <3>1, <3>4 DEF BundleUnsupported, access, remote, history, InSight
    <3>5. CASE Store
      BY <3>1, <3>5 DEF Store, Finishes, access, remote, history, InSight
    <3>. QED BY <1>3, <3>2, <3>3, <3>4, <3>5
  <2>2. Shaped' /\ queue' = queue /\ (stored' = queue \/ stored' = stored)
    <3>1. \/ Commit(data) \/ Commit([data EXCEPT !.rows = snapshot, !.lastSync = TRUE])
          \/ UNCHANGED <<data, file>>
      BY <1>3 DEF IdentityDiffers, Bundle, BundleUnsupported, Store
    <3>. QED BY <3>1, CommitIs, UnsavedIs
  <2>. QED BY <2>1, <2>2, Quiet DEF Kept
<1>. QED BY <1>1, <1>2, <1>3

-------------------------------------------------------------------------------
\* The queue is emptied, or what was waited for is given up.

\* Requests that are given up are nobody's any more, and late if they were waited for.
LEMMA AbandonIs ==
  ASSUME Inv, NEW S, Abandon(S)
  PROVE  /\ answer'.status = "none" /\ raced \subseteq raced' /\ S \subseteq raced'
         /\ wire' \subseteq [change : Change, awaited : BOOLEAN] /\ \A m \in wire' : ~m.awaited
         /\ raced' \cap Late = {} => wire' = {}
<1>1. PICK late \in {{}, {[m EXCEPT !.awaited = FALSE] : m \in wire}} :
        /\ wire' = late /\ answer' = NoAnswer
        /\ raced' = raced \cup (S \cup When(\E m \in wire : m.awaited /\ late # {}, "late"))
  BY DEF Abandon, Race
<1>2. wire \subseteq [change : Change, awaited : BOOLEAN]
  BY DEF Inv, Queueing
<1>3. ASSUME NEW m \in wire
      PROVE  [m EXCEPT !.awaited = FALSE] \in [change : Change, awaited : BOOLEAN]
             /\ [m EXCEPT !.awaited = FALSE].awaited = FALSE
  BY <1>2
<1>4. ASSUME raced' \cap Late = {}, late # {}
      PROVE  FALSE
  <2>1. \A m \in wire : m.awaited
    BY <1>1, <1>4 DEF Inv, Unless, Ordered
  <2>2. \A m \in wire : ~m.awaited
    BY <1>1, <1>4 DEF When, Late
  <2>. QED BY <1>1, <1>4, <2>1, <2>2
<1>. QED BY <1>1, <1>3, <1>4 DEF NoAnswer

\* The workspace and its file go; what was stored is excused, or nobody missed it.
LEMMA ClearedKeepsInv ==
  ASSUME Inv, data' = Nothing, file' = Nothing, active' = FALSE, phase' = "idle", ~discarding',
         UNCHANGED <<log, writes, server>>, settled \subseteq settled', raced \subseteq raced',
         answer'.status = "none", wire' \subseteq [change : Change, awaited : BOOLEAN],
         \A m \in wire' : ~m.awaited, raced' \cap Late = {} => wire' = {},
         \/ raced' \cap {"sessionEnded", "outOfSight"} # {}
         \/ Numbers(stored) \subseteq settled'
  PROVE  Inv'
<1>1. Shaped' /\ queue' = <<>> /\ stored' = <<>>
  BY EmptyIs DEF Shaped, Nothing, queue, stored
<1>2. Queueing' /\ Waits' /\ InSight' /\ Belongs'
  BY <1>1 DEF Inv, Queueing, Waits, InSight, Belongs
<1>3. NothingLostUnlessRaced'
  BY DEF Inv, NothingLostUnlessRaced, Unless, stored
<1>4. ASSUME raced' \cap Late = {} PROVE Ordered'
  BY <1>1, <1>4 DEF Inv, Unless, Ordered
<1>. QED BY <1>1, <1>2, <1>3, <1>4 DEF Inv, Unless

LEMMA DropSteps ==
  ASSUME Inv, Discard \/ SignOut \/ SessionEnds \/ SwitchServer
  PROVE  Inv'
<1>1. CASE Discard
  <2>1. /\ UNCHANGED <<active, member, log, writes, server, wire, answer, raced>>
        /\ settled' = settled \cup Numbers(queue) /\ discarding /\ ~discarding'
        /\ phase' = IF phase = "idle" THEN "identity" ELSE phase
    BY <1>1 DEF Discard, access, remote
  <2>2. queue' = <<>> /\ stored' = <<>> /\ Shaped'
    BY <1>1, CommitIs DEF Discard, Inv
  <2>3. /\ active /\ \A m \in wire : ~m.awaited
        /\ answer.status = "none" /\ phase' \notin {"sending", "waiting"}
    BY <2>1 DEF Inv, Waits, InSight
  <2>4. Queueing' /\ Waits' /\ InSight' /\ Belongs'
    BY <2>1, <2>2, <2>3 DEF Inv, Queueing, Waits, InSight, Belongs
  <2>5. NothingLostUnlessRaced'
    <3>1. "outOfSight" \in raced \/ Numbers(stored) \subseteq settled'
      BY <2>1, <2>3 DEF Inv, InSight
    <3>. QED BY <2>1, <3>1 DEF Inv, NothingLostUnlessRaced, Unless, stored
  <2>6. Unless(Late, Ordered)'
    BY <2>1, <2>2 DEF Inv, Unless, Ordered
  <2>. QED BY <2>2, <2>4, <2>5, <2>6 DEF Inv
<1>2. CASE SignOut
  <2>1. /\ data' = Nothing /\ file' = Nothing /\ active' = FALSE /\ phase' = "idle" /\ ~discarding'
        /\ UNCHANGED <<log, writes, server>> /\ settled' = settled \cup Numbers(queue) /\ active /\ Abandon({})
    BY <1>2 DEF SignOut, Cleared, Stopped
  <2>2. "outOfSight" \in raced \/ Numbers(stored) \subseteq settled'
    BY <2>1 DEF Inv, InSight
  <2>. QED BY <2>1, <2>2, AbandonIs, ClearedKeepsInv
<1>3. CASE SessionEnds
  <2>1. /\ data' = Nothing /\ file' = Nothing /\ active' = FALSE /\ phase' = "idle" /\ ~discarding'
        /\ UNCHANGED <<log, writes, server, settled>> /\ Abandon({"sessionEnded"})
    BY <1>3 DEF SessionEnds, Cleared, Stopped
  <2>. QED BY <2>1, AbandonIs, ClearedKeepsInv
<1>4. CASE SwitchServer
  <2>1. /\ data' = Nothing /\ file' = Nothing /\ active' = FALSE
        /\ UNCHANGED <<phase, discarding, wire, answer, log, writes, server, settled>>
        /\ raced' = raced \cup When(Waiting, "outOfSight") /\ ~active
    BY <1>4 DEF SwitchServer, Race, sync, remote
  <2>2. phase = "idle" /\ ~discarding /\ answer.status = "none" /\ \A m \in wire : ~m.awaited
    BY <2>1 DEF Inv, InSight, Waits
  <2>3. raced' \cap Late = {} => wire' = {}
    BY <2>1, <2>2 DEF Inv, Unless, Ordered
  <2>4. "outOfSight" \in raced' \/ Numbers(stored) \subseteq settled
    BY <2>1 DEF When, Waiting, stored
  <2>. QED BY <2>1, <2>2, <2>3, <2>4, ClearedKeepsInv DEF Inv, Queueing
<1>. QED BY <1>1, <1>2, <1>3, <1>4

\* The file stays as it is, and another workspace or none takes the place of the one in memory.
LEMMA InstallKeepsInv ==
  ASSUME Inv, Shaped', stored' = stored, queue' = stored \/ queue' = <<>>, phase' = "idle", ~discarding',
         UNCHANGED <<log, writes, server, settled>>, raced \subseteq raced',
         answer'.status = "none", wire' \subseteq [change : Change, awaited : BOOLEAN],
         \A m \in wire' : ~m.awaited, raced' \cap Late = {} => wire' = {},
         active' /\ queue' # stored => "outOfSight" \in raced' \/ Numbers(stored) \subseteq settled
  PROVE  Inv'
<1>1. Queueing' /\ Waits' /\ Belongs'
  BY DEF Inv, Queueing, Waits, Belongs
<1>2. InSight'
  BY DEF InSight, Numbers
<1>3. NothingLostUnlessRaced'
  BY KeptLosesNothing DEF Kept
<1>4. ASSUME raced' \cap Late = {} PROVE Ordered'
  BY <1>4 DEF Inv, Unless, Ordered, Shows
<1>. QED BY <1>1, <1>2, <1>3, <1>4 DEF Inv, Unless

LEMMA RestartKeepsInv ==
  ASSUME Inv, Restart
  PROVE  Inv'
<1>1. /\ file' = file /\ (data' = file \/ (data' = Nothing /\ active' = FALSE))
      /\ phase' = "idle" /\ ~discarding' /\ UNCHANGED <<log, writes, server, settled>> /\ Abandon({})
  BY DEF Restart, Stopped, history
<1>2. Shaped' /\ stored' = stored /\ (queue' = stored \/ (queue' = <<>> /\ active' = FALSE))
  BY <1>1, EmptyIs DEF Inv, Shaped, Nothing, queue, stored
<1>. QED BY <1>1, <1>2, AbandonIs, InstallKeepsInv

LEMMA SignInKeepsInv ==
  ASSUME Inv, NEW who, SignIn(who)
  PROVE  Inv'
<1>1. /\ UNCHANGED <<phase, discarding, wire, answer, log, writes, server, settled>> /\ ~active
      /\ raced' = raced \cup When(active' /\ data' # file /\ Waiting, "outOfSight")
  BY DEF SignIn, Race, sync, remote, history
<1>2. phase = "idle" /\ ~discarding /\ answer.status = "none" /\ \A m \in wire : ~m.awaited
  BY <1>1 DEF Inv, InSight, Waits
<1>3. raced' \cap Late = {} => wire' = {}
  BY <1>1, <1>2 DEF Inv, Unless, Ordered
<1>4. active' => data' = file \/ "outOfSight" \in raced' \/ Numbers(stored) \subseteq settled
  BY <1>1 DEF When, Waiting, stored
<1>5. CASE file' = file
  <2>1. data' = data \/ data' = Empty(who)
    BY <1>5 DEF SignIn, Commit
  <2>2. Shaped' /\ stored' = stored /\ (queue' = queue \/ queue' = <<>>) /\ (data' = file => queue' = stored)
    BY <1>5, <2>1, EmptyIs DEF Inv, Shaped, queue, stored
  <2>3. queue' = stored \/ queue' = <<>>
    BY <2>2 DEF Inv, Queueing
  <2>4. wire' \subseteq [change : Change, awaited : BOOLEAN]
    BY <1>1 DEF Inv, Queueing
  <2>. QED BY <1>1, <1>2, <1>3, <1>4, <2>2, <2>3, <2>4, InstallKeepsInv
<1>6. CASE file' # file
  <2>1. data' = Empty(who) /\ file' = Empty(who) /\ active' /\ data' # file
    BY <1>6 DEF SignIn, Commit
  <2>2. Shaped' /\ queue' = <<>> /\ stored' = <<>>
    BY <2>1, EmptyIs DEF Shaped, queue, stored
  <2>3. Queueing' /\ Waits' /\ InSight' /\ Belongs'
    BY <1>1, <1>2, <2>2 DEF Inv, Queueing, Waits, InSight, Belongs
  <2>4. NothingLostUnlessRaced'
    BY <1>1, <1>4, <2>1 DEF Inv, NothingLostUnlessRaced, Unless, stored
  <2>5. ASSUME raced' \cap Late = {} PROVE Ordered'
    BY <1>1, <2>2, <2>5 DEF Inv, Unless, Ordered
  <2>. QED BY <2>2, <2>3, <2>4, <2>5 DEF Inv, Unless
<1>. QED BY <1>5, <1>6

LEMMA GiveUpKeepsInv ==
  ASSUME Inv, GiveUp
  PROVE  Inv'
<1>1. /\ UNCHANGED <<data, file, active, discarding, member, log, writes, server, settled>> /\ Abandon({})
      /\ phase = "waiting" /\ phase' = "reading"
  BY DEF GiveUp, saved, access, history
<1>2. Shaped' /\ queue' = queue /\ stored' = stored
  BY <1>1, UnsavedIs DEF Inv
<1>3. Queueing' /\ Waits' /\ InSight' /\ Belongs'
  BY <1>1, <1>2, AbandonIs DEF Inv, Queueing, Waits, InSight, Belongs
<1>4. NothingLostUnlessRaced'
  BY <1>1, <1>2, AbandonIs, KeptLosesNothing DEF Kept
<1>5. ASSUME raced' \cap Late = {} PROVE Ordered'
  BY <1>1, <1>2, <1>5, AbandonIs DEF Inv, Unless, Ordered, Shows
<1>. QED BY <1>2, <1>3, <1>4, <1>5 DEF Inv, Unless
-------------------------------------------------------------------------------
\* A change is made, sent, and acknowledged.

LEMMA MutateKeepsInv ==
  ASSUME Inv, NEW x \in Rows, NEW kind \in {"create", "update", "delete"}, Mutate(kind, x)
  PROVE  Inv'
<1>. DEFINE c == [n |-> Len(log) + 1, kind |-> kind, row |-> x]
<1>1. /\ Len(log) < MaxChanges /\ Commit([data EXCEPT !.changes = Append(queue, c)]) /\ log' = Append(log, c)
      /\ UNCHANGED <<active, member, writes, server, settled, wire, answer, raced, discarding>>
      /\ active /\ (phase' = phase \/ (phase = "idle" /\ phase' = "identity"))
  BY DEF Mutate, Enqueue, access, remote
<1>2. Len(log) \in Nat /\ c \in Change /\ c.n = Len(log) + 1
  BY <1>1, BoundsAssumption DEF Inv, Queueing, Change
<1>. HIDE DEF c
<1>3. queue' = Append(queue, c) /\ stored' = Append(queue, c) /\ Shaped'
  BY <1>1, CommitIs DEF Inv
<1>4. /\ queue \in Seq(Change)
      /\ \A i \in 1..Len(queue) : queue[i].n \in Nat /\ queue[i].n <= Len(log)
      /\ \A i, j \in 1..Len(queue) : i < j => queue[i].n < queue[j].n
  <2>1. queue = <<>> \/ queue = stored
    BY DEF Inv, Queueing
  <2>2. CASE queue = <<>>
    BY <2>2
  <2>3. CASE queue = stored
    BY <2>3, NumbersAreNat DEF Inv, Queueing
  <2>. QED BY <2>1, <2>2, <2>3
<1>5. /\ queue' \in Seq(Change) /\ log' \in Seq(Change) /\ Len(log') = Len(log) + 1
      /\ Len(queue') = Len(queue) + 1 /\ Len(queue) \in Nat
      /\ \A i \in 1..Len(queue) : queue'[i] = queue[i]
      /\ queue'[Len(queue) + 1] = c
      /\ queue # <<>> => queue' # <<>> /\ Head(queue') = Head(queue)
      /\ queue = <<>> => Head(queue') = c
      /\ queue' # <<>>
  BY <1>1, <1>2, <1>3, <1>4 DEF Inv, Queueing
<1>6. \A i \in 1..Len(queue') : i \in 1..Len(queue) \/ i = Len(queue) + 1
  BY <1>5
<1>7. Queueing'
  <2>1. \A i \in 1..Len(queue') : queue'[i].n <= Len(log')
    BY <1>2, <1>4, <1>5, <1>6
  <2>2. ASSUME NEW i \in 1..Len(queue'), NEW k \in 1..Len(queue'), i < k
        PROVE  queue'[i].n < queue'[k].n
    <3>1. i \in 1..Len(queue)
      BY <1>5, <1>6, <2>2
    <3>2. CASE k \in 1..Len(queue)
      BY <1>4, <1>5, <2>2, <3>1, <3>2
    <3>3. CASE k = Len(queue) + 1
      BY <1>2, <1>4, <1>5, <3>1, <3>3
    <3>. QED BY <1>6, <3>2, <3>3
  <2>3. Len(log') <= MaxChanges /\ UNCHANGED <<server, wire>>
    BY <1>1, <1>2, <1>5, BoundsAssumption
  <2>4. server' \in [Rows -> Values] /\ wire' \subseteq [change : Change, awaited : BOOLEAN]
    BY <2>3 DEF Inv, Queueing
  <2>. QED BY <1>3, <1>5, <2>1, <2>2, <2>3, <2>4 DEF Queueing
<1>8. Waits' /\ InSight' /\ Belongs'
  BY <1>1, <1>3, <1>5 DEF Inv, Waits, Done, InSight, Belongs
<1>9. NothingLostUnlessRaced'
  <2>1. Numbers(queue) \subseteq Numbers(queue') /\ c.n \in Numbers(queue')
    <3>1. DOMAIN queue = 1..Len(queue) /\ DOMAIN queue' = 1..Len(queue')
      BY <1>4, <1>5
    <3>2. 1..Len(queue) \subseteq 1..Len(queue') /\ Len(queue) + 1 \in 1..Len(queue')
      BY <1>5
    <3>. QED BY <1>5, <3>1, <3>2 DEF Numbers
  <2>2. \A n \in 1..Len(log') : n \in 1..Len(log) \/ n = c.n
    BY <1>2, <1>5
  <2>3. "outOfSight" \in raced \/ Numbers(stored) \subseteq settled \/ queue = stored
    BY <1>1 DEF Inv, InSight
  <2>4. SUFFICES ASSUME raced' \cap {"sessionEnded", "outOfSight", "removedWhileSyncing"} = {},
                        NEW n \in 1..Len(log')
                 PROVE  n \in Numbers(stored') \cup settled'
    BY DEF NothingLostUnlessRaced, Unless, stored, Numbers
  <2>5. CASE n = c.n
    BY <1>3, <2>1, <2>5
  <2>6. CASE n \in 1..Len(log)
    <3>1. n \in Numbers(stored) \cup settled
      BY <1>1, <2>4, <2>6 DEF Inv, NothingLostUnlessRaced, Unless, stored
    <3>. QED BY <1>1, <1>3, <2>1, <2>3, <2>4, <3>1
  <2>. QED BY <2>2, <2>5, <2>6
<1>10. ASSUME raced' \cap Late = {} PROVE Ordered'
  <2>1. Ordered
    BY <1>1, <1>10 DEF Inv, Unless
  <2>2. \A i \in 1..Len(writes) : writes[i] \in Nat /\ writes[i] < c.n
    BY <1>2, <2>1 DEF Ordered
  <2>3. Head(queue') = c \/ (Head(queue') = Head(stored) /\ stored # <<>>)
    BY <1>5 DEF Inv, Queueing
  <2>. QED BY <1>1, <1>2, <1>3, <1>5, <2>1, <2>2, <2>3 DEF Ordered, Shows
<1>. QED BY <1>3, <1>7, <1>8, <1>9, <1>10 DEF Inv, Unless

LEMMA SendKeepsInv ==
  ASSUME Inv, Send
  PROVE  Inv'
<1>. DEFINE m == [change |-> Head(queue), awaited |-> TRUE]
<1>1. /\ queue # <<>> /\ phase = "sending" /\ phase' = "waiting" /\ wire' = wire \cup {m}
      /\ UNCHANGED <<data, file, active, member, log, writes, server, settled, answer, raced, discarding>>
  BY DEF Send, saved, access, history
<1>2. queue = stored /\ queue' = queue /\ stored' = stored /\ Shaped'
  BY <1>1, UnsavedIs DEF Inv, Queueing
<1>3. m \in [change : Change, awaited : BOOLEAN] /\ m.awaited /\ m.change = Head(queue)
  BY <1>1, <1>2, HeadIsChange DEF Inv
<1>. HIDE DEF m
<1>4. Queueing' /\ NothingLostUnlessRaced'
  BY <1>1, <1>2, <1>3, KeptLosesNothing DEF Inv, Queueing, Kept
<1>5. Waits' /\ InSight' /\ Belongs'
  BY <1>1, <1>2, <1>3 DEF Inv, Waits, Done, InSight, Belongs
<1>6. Unless(Late, Ordered)'
  BY <1>1, <1>2, <1>3 DEF Inv, Unless, Ordered, Shows
<1>. QED BY <1>2, <1>4, <1>5, <1>6 DEF Inv

\* The change that leaves the queue is settled, and the next one is newer than any carried out.
LEMMA AcknowledgedKeepsInv ==
  ASSUME Inv, Acknowledged
  PROVE  Inv'
<1>1. /\ phase = "waiting" /\ answer.status # "none" /\ Done(Head(queue)) /\ phase' = "sending"
      /\ answer'.status = "none"
      /\ UNCHANGED <<active, member, log, writes, server, settled, wire, raced, discarding>>
  BY DEF Acknowledged, NoAnswer, access, history
<1>2. Shaped' /\ queue' = Tail(queue) /\ stored' = Tail(queue)
  <2>1. Commit([data EXCEPT !.rows = Ack(Head(queue)), !.changes = Tail(queue)])
    BY DEF Acknowledged
  <2>. QED BY <2>1, CommitIs DEF Inv
<1>3. /\ queue # <<>> /\ queue = stored /\ ~discarding /\ active /\ \A m \in wire : ~m.awaited
      /\ Head(stored).n \in settled \/ "removedWhileSyncing" \in raced
  BY <1>1 DEF Inv, Waits, InSight, Queueing
<1>4. Queueing'
  <2>1. \A i \in 1..Len(stored') : i + 1 \in 1..Len(stored) /\ stored'[i] = stored[i + 1]
    BY <1>2, <1>3, TailIs DEF Inv
  <2>2. \A i, k \in 1..Len(stored') : i < k => i + 1 < k + 1
    OBVIOUS
  <2>3. \A i \in 1..Len(stored') : stored'[i].n <= Len(log)
    BY <2>1 DEF Inv, Queueing
  <2>4. \A i, k \in 1..Len(stored') : i < k => stored'[i].n < stored'[k].n
    BY <2>1, <2>2 DEF Inv, Queueing
  <2>. QED BY <1>1, <1>2, <1>3, <2>3, <2>4, TailIs DEF Inv, Queueing
<1>5. Waits' /\ InSight' /\ Belongs'
  BY <1>1, <1>2, <1>3 DEF Inv, Waits, InSight, Belongs
<1>6. NothingLostUnlessRaced'
  <2>1. Numbers(stored) \subseteq {Head(stored).n} \cup Numbers(stored')
    BY <1>2, <1>3, TailIs DEF Inv
  <2>2. NothingLostUnlessRaced' <=>
          (raced' \cap {"sessionEnded", "outOfSight", "removedWhileSyncing"} = {}
             => \A n \in 1..Len(log') : n \in Numbers(stored') \cup settled')
    BY DEF NothingLostUnlessRaced, Unless, stored, Numbers
  <2>3. NothingLostUnlessRaced =>
          (raced \cap {"sessionEnded", "outOfSight", "removedWhileSyncing"} = {}
             => \A n \in 1..Len(log) : n \in Numbers(stored) \cup settled)
    BY DEF NothingLostUnlessRaced, Unless, stored
  <2>. QED BY <1>1, <1>3, <2>1, <2>2, <2>3 DEF Inv
<1>7. ASSUME raced' \cap Late = {} PROVE Ordered'
  <2>1. Ordered
    BY <1>1, <1>7 DEF Inv, Unless
  <2>2. ASSUME stored' # <<>>, NEW i \in 1..Len(writes)
        PROVE  writes[i] < Head(stored').n
    <3>1. 1 \in 1..Len(stored') /\ Head(stored') = stored'[1] /\ stored'[1].n \in Nat
      BY <1>4, <2>2, NumbersAreNat DEF Queueing
    <3>2. Head(stored).n < Head(stored').n /\ Head(stored).n \in Nat
      BY <1>2, <1>3, <3>1, TailIs, HeadIsChange DEF Inv
    <3>3. writes[i] \in Nat /\ writes[i] <= Head(stored).n
      BY <1>3, <2>1 DEF Ordered
    <3>. QED BY <3>1, <3>2, <3>3
  <2>3. ASSUME stored' # <<>>
        PROVE  Head(stored').n \in Nat
    BY <1>4, <2>3, NumbersAreNat DEF Queueing
  <2>. QED BY <1>1, <2>1, <2>2, <2>3, SMTT(30) DEF Ordered
<1>. QED BY <1>2, <1>4, <1>5, <1>6, <1>7 DEF Inv, Unless

LEMMA RefusalSteps ==
  ASSUME Inv, AckFails \/ Refused
  PROVE  Inv'
<1>1. /\ phase = "waiting" /\ answer.status # "none" /\ answer'.status = "none"
      /\ phase' \in {"idle", "identity", "reading"}
      /\ UNCHANGED <<data, file, active, member, discarding, log, writes, server, settled, wire, raced>>
  BY DEF AckFails, Refused, Finishes, NoAnswer, saved, access, history
<1>2. queue' = queue /\ stored' = stored /\ Shaped'
  BY <1>1, UnsavedIs DEF Inv
<1>3. Queueing' /\ NothingLostUnlessRaced'
  BY <1>1, <1>2, KeptLosesNothing DEF Inv, Queueing, Kept
<1>4. Waits' /\ InSight' /\ Belongs'
  BY <1>1, <1>2 DEF Inv, Waits, InSight, Belongs
<1>5. Unless(Late, Ordered)'
  BY <1>1, <1>2 DEF Inv, Unless, Ordered, Shows
<1>. QED BY <1>2, <1>3, <1>4, <1>5 DEF Inv

-------------------------------------------------------------------------------
\* The server.

\* One request is waited for at most.
LEMMA OneAwaited ==
  ASSUME Inv, NEW m \in wire, m.awaited
  PROVE  \A o \in wire : o.awaited => o = m
<1>1. ASSUME NEW o \in wire, o.awaited PROVE o = m
  <2>1. /\ o \in [change : Change, awaited : BOOLEAN] /\ m \in [change : Change, awaited : BOOLEAN]
        /\ o.change = m.change
    BY <1>1 DEF Inv, Queueing, Waits
  <2>. QED BY <1>1, <2>1
<1>. QED BY <1>1

\* What the server does with a request touches nothing of the application but the answer: if that lets
\* the change go, it was carried out or found done, or whoever sent it had left meanwhile.
LEMMA AnswerKeepsInv ==
  ASSUME Inv, NEW m \in wire, wire' = wire \ {m},
         UNCHANGED <<saved, sync, member, log>>, settled \subseteq settled', raced \subseteq raced',
         server' \in [Rows -> Values], raced' \cap Late = {} => Ordered',
         IF m.awaited THEN /\ answer'.status \in {"ok", "missing", "refused"}
                           /\ Done(m.change)' => m.change.n \in settled' \/ "removedWhileSyncing" \in raced'
                      ELSE answer' = answer
  PROVE  Inv'
<1>1. UNCHANGED <<data, file, active, phase, discarding>>
  BY DEF saved, sync
<1>2. queue' = queue /\ stored' = stored /\ Shaped'
  BY <1>1, UnsavedIs DEF Inv
<1>3. Queueing' /\ NothingLostUnlessRaced'
  BY <1>2, KeptLosesNothing DEF Inv, Queueing, Kept
<1>4. InSight' /\ Belongs'
  BY <1>1, <1>2 DEF Inv, InSight, Belongs, Numbers
<1>5. CASE ~m.awaited
  <2>1. Waits'
    BY <1>1, <1>2, <1>5 DEF Inv, Waits, Done
  <2>. QED BY <1>2, <1>3, <1>4, <2>1 DEF Inv, Unless
<1>6. CASE m.awaited
  <2>1. phase = "waiting" /\ m.change = Head(queue) /\ \A o \in wire' : ~o.awaited
    BY <1>6, OneAwaited DEF Inv, Waits
  <2>2. Done(Head(queue))' => Head(queue').n \in settled' \/ "removedWhileSyncing" \in raced'
    BY <1>2, <1>6, <2>1 DEF Done
  <2>3. Waits'
    BY <1>1, <1>2, <1>6, <2>1, <2>2 DEF Inv, Waits, Done
  <2>. QED BY <1>2, <1>3, <1>4, <2>3 DEF Inv, Unless
<1>. QED BY <1>5, <1>6

\* The server carries out the oldest change, unless it has done so before.
LEMMA ServeKeepsOrdered ==
  ASSUME Inv, NEW m \in wire, Serve(m), raced' \cap Late = {}
  PROVE  Ordered'
<1>. DEFINE c == Head(stored)
<1>1. raced \subseteq raced' /\ stored' = stored
  BY UnsavedIs DEF Serve, Race, saved, Inv
<1>2. Ordered
  BY <1>1 DEF Inv, Unless
<1>3. /\ m.awaited /\ m.change = c /\ stored # <<>>
  BY <1>2 DEF Ordered, Inv, Waits, Queueing
<1>4. /\ c \in Change /\ c.n \in Nat /\ c.n <= Len(log) /\ c.row \in Rows
      /\ c.n # Absent
  <2>1. c = stored[1] /\ 1 \in 1..Len(stored) /\ c \in Change /\ c.n \in Nat
    BY <1>3, HeadIsChange DEF Inv, Queueing
  <2>. QED BY <2>1, BoundsAssumption DEF Inv, Queueing, Change, Absent
<1>5. log' = log /\ wire' \subseteq wire
  BY DEF Serve
<1>6. CASE ~Writes(c)
  BY <1>1, <1>2, <1>3, <1>5, <1>6 DEF Serve, Ordered, Shows
<1>7. CASE Writes(c)
  <2>1. /\ server' = [server EXCEPT ![c.row] = Apply(@, c)]
        /\ \/ writes' = writes /\ c.kind = "update"
           \/ writes' = Append(writes, c.n) /\ ~(c.kind = "update" /\ writes # <<>> /\ Last(writes) = c.n)
    BY <1>3, <1>7 DEF Serve
  <2>. HIDE DEF c
  <2>2. Shows(c)'
    <3>1. server'[c.row] = Apply(server[c.row], c)
      BY <1>4, <2>1 DEF Inv, Queueing
    <3>2. c' = c
      BY <1>1 DEF c
    <3>3. c.kind = "create" => server'[c.row] # Absent
      BY <1>4, <3>1 DEF Apply
    <3>4. c.kind = "delete" => server'[c.row] = Absent
      BY <3>1 DEF Apply
    <3>. QED BY <3>2, <3>3, <3>4 DEF Shows
  <2>3. ASSUME NEW i \in 1..Len(writes), writes' = Append(writes, c.n)
        PROVE  writes[i] < c.n
    <3>1. writes[i] \in Nat /\ writes[i] <= c.n /\ (writes[i] = c.n => Shows(c))
      BY <1>2, <1>3 DEF Ordered, c
    <3>2. SUFFICES ASSUME writes[i] = c.n PROVE FALSE
      BY <1>4, <3>1
    <3>3. c.kind # "create" /\ c.kind # "delete"
      BY <1>7, <3>1, <3>2 DEF Shows, Writes, Creates
    <3>4. c.kind = "update"
      BY <1>4, <3>3 DEF Change
    <3>5. Last(writes) = writes[Len(writes)] /\ writes # <<>> /\ Len(writes) \in 1..Len(writes)
      BY <1>2 DEF Last, Ordered
    <3>6. writes[Len(writes)] # c.n
      <4>1. writes' # writes
        BY <1>2, <1>4, <2>3 DEF Ordered
      <4>. QED BY <2>1, <3>4, <3>5, <4>1
    <3>7. i # Len(writes) /\ i < Len(writes)
      BY <1>2, <3>2, <3>6 DEF Ordered
    <3>8. writes[i] < writes[Len(writes)] /\ writes[Len(writes)] <= c.n /\ writes[Len(writes)] \in Nat
      BY <1>2, <1>3, <3>5, <3>7 DEF Ordered, c
    <3>. QED BY <1>4, <3>2, <3>6, <3>8
  <2>4. CASE writes' = writes
    BY <1>1, <1>2, <1>5, <2>2, <2>4 DEF Ordered, c
  <2>5. CASE writes' = Append(writes, c.n)
    <3>1. /\ writes' \in Seq(Nat) /\ Len(writes') = Len(writes) + 1 /\ Len(writes) \in Nat
          /\ \A i \in 1..Len(writes) : writes'[i] = writes[i]
          /\ writes'[Len(writes) + 1] = c.n
      BY <1>2, <1>4, <2>5 DEF Ordered
    <3>2. \A i \in 1..Len(writes') : i \in 1..Len(writes) \/ i = Len(writes) + 1
      BY <3>1
    <3>3. \A i \in 1..Len(writes') : writes'[i] <= Len(log) /\ writes'[i] <= c.n
      BY <1>2, <1>3, <1>4, <3>1, <3>2 DEF Ordered, c
    <3>4. ASSUME NEW i \in 1..Len(writes'), NEW k \in 1..Len(writes'), i < k
          PROVE  writes'[i] < writes'[k]
      <4>1. i \in 1..Len(writes)
        BY <3>1, <3>2, <3>4
      <4>2. CASE k \in 1..Len(writes)
        BY <1>2, <3>1, <3>4, <4>1, <4>2 DEF Ordered
      <4>3. CASE k = Len(writes) + 1
        BY <2>3, <2>5, <3>1, <4>1, <4>3
      <4>. QED BY <3>2, <4>2, <4>3
    <3>. QED BY <1>1, <1>2, <1>5, <2>2, <3>1, <3>3, <3>4 DEF Ordered, c
  <2>. QED BY <2>1, <2>4, <2>5
<1>. QED BY <1>6, <1>7

LEMMA ServeKeepsInv ==
  ASSUME Inv, NEW m \in wire, Serve(m)
  PROVE  Inv'
<1>. DEFINE c == m.change
<1>1. /\ wire' = wire \ {m}
      /\ UNCHANGED <<saved, sync, member, log>>
      /\ settled \subseteq settled' /\ raced \subseteq raced'
      /\ Writes(c) \/ c.kind # "update" => c.n \in settled'
  BY DEF Serve, access, Race
<1>2. m \in [change : Change, awaited : BOOLEAN] /\ c \in Change
  BY DEF Inv, Queueing
<1>3. /\ c.row \in Rows /\ c.n \in Values /\ Absent \in Values /\ c.n # Absent
  BY <1>2, BoundsAssumption DEF Change, Values, Absent
<1>4. server' \in [Rows -> Values]
  BY <1>2, <1>3 DEF Serve, Apply, Inv, Queueing
<1>5. raced' \cap Late = {} => Ordered'
  BY ServeKeepsOrdered
<1>6. CASE ~m.awaited
  <2>1. answer' = answer
    BY <1>6 DEF Serve, Reply
  <2>. QED BY <1>1, <1>4, <1>5, <1>6, <2>1, AnswerKeepsInv
<1>7. CASE m.awaited
  <2>1. \/ answer'.status = "ok" /\ (Writes(c) \/ c.kind # "update")
        \/ answer'.status = "missing"
    BY <1>7 DEF Serve, Reply
  <2>2. Done(c)' => c.n \in settled'
    BY <1>1, <2>1 DEF Done
  <2>. QED BY <1>1, <1>4, <1>5, <1>7, <2>1, <2>2, AnswerKeepsInv
<1>. QED BY <1>6, <1>7

\* A stranger's request and a refused one leave the server as it is.
LEMMA TurnedDownKeepsInv ==
  ASSUME Inv, NEW m \in wire, ServeStranger(m) \/ Reject(m)
  PROVE  Inv'
<1>1. /\ wire' = wire \ {m} /\ UNCHANGED <<saved, sync, access, server, log, writes, settled>>
      /\ raced \subseteq raced'
  BY DEF ServeStranger, Reject, Race, history
<1>2. /\ m.awaited => answer'.status = "refused" \/ (answer'.status = "missing" /\ ~member)
      /\ ~m.awaited => answer' = answer
  BY DEF ServeStranger, Reject, Reply
<1>3. m.awaited /\ ~member => "removedWhileSyncing" \in raced
  BY DEF Inv, Waits, Belongs
<1>4. server' \in [Rows -> Values] /\ member' = member
  BY <1>1 DEF Inv, Queueing, access
<1>5. raced' \cap Late = {} => Ordered'
  <2>1. stored' = stored
    BY <1>1 DEF saved, stored
  <2>. QED BY <1>1, <2>1 DEF Inv, Unless, Ordered, Shows
<1>6. CASE ~m.awaited
  BY <1>1, <1>2, <1>4, <1>5, <1>6, AnswerKeepsInv
<1>7. CASE m.awaited
  <2>1. Done(m.change)' => "removedWhileSyncing" \in raced'
    BY <1>1, <1>2, <1>3, <1>7 DEF Done
  <2>2. answer'.status \in {"missing", "refused"}
    BY <1>2, <1>7
  <2>. QED BY <1>1, <1>4, <1>5, <1>7, <2>1, <2>2, AnswerKeepsInv
<1>. QED BY <1>6, <1>7

\* Others edit and delete rows; they make none.
LEMMA OtherKeepsInv ==
  ASSUME Inv, NEW x \in Rows, Other(x)
  PROVE  Inv'
<1>1. PICK v \in {Theirs, Absent} :
        /\ server[x] # Absent /\ server' = [server EXCEPT ![x] = v]
        /\ UNCHANGED <<data, file, active, member, log, writes, settled, wire, answer, phase, discarding>>
        /\ raced' = raced \cup When(v = Absent /\ \E i \in DOMAIN stored : stored[i].kind = "create" /\ stored[i].row = x,
                                    "deletedMeanwhile")
  BY DEF Other, Race, saved, sync, access, stored
<1>2. v \in Values /\ (v = Absent \/ (v = Theirs /\ Theirs # Absent))
  BY BoundsAssumption DEF Values, Theirs, Absent
<1>3. queue' = queue /\ stored' = stored /\ Shaped'
  BY <1>1, UnsavedIs DEF Inv
<1>4. Queueing' /\ NothingLostUnlessRaced'
  BY <1>1, <1>2, <1>3, KeptLosesNothing DEF Inv, Queueing, Kept
<1>5. Waits' /\ InSight' /\ Belongs'
  BY <1>1, <1>3 DEF Inv, Waits, Done, InSight, Belongs
<1>6. ASSUME raced' \cap Late = {} PROVE Ordered'
  <2>1. Ordered
    BY <1>1, <1>6 DEF Inv, Unless
  <2>2. ASSUME stored # <<>>, Shows(Head(stored)) PROVE Shows(Head(stored))'
    <3>1. /\ Head(stored) = stored[1] /\ 1 \in DOMAIN stored /\ Head(stored).row \in Rows /\ Head(stored)' = Head(stored)
      BY <1>3, <2>2, HeadIsChange DEF Inv, Queueing, Change
    <3>2. ~(v = Absent /\ Head(stored).kind = "create" /\ Head(stored).row = x)
      BY <1>1, <1>6, <3>1 DEF When, Late
    <3>. QED BY <1>1, <1>2, <2>2, <3>1, <3>2 DEF Shows, Inv, Queueing
  <2>. QED BY <1>1, <1>3, <2>1, <2>2 DEF Ordered
<1>. QED BY <1>3, <1>4, <1>5, <1>6 DEF Inv, Unless

\* Access is lost and given back: lost in the midst of a sync, it is one of the races.
LEMMA AccessKeepsInv ==
  ASSUME Inv, Administration
  PROVE  Inv'
<1>1. /\ UNCHANGED <<data, file, active, log, writes, server, settled, wire, answer, phase, discarding>>
      /\ raced \subseteq raced'
      /\ member' \/ (member' = member) \/ phase \in {"idle", "identity"} \/ "removedWhileSyncing" \in raced'
  BY DEF Administration, Leaves, Readmitted, Unsupported, Supported, Race, saved, sync, remote, history
<1>2. queue' = queue /\ stored' = stored /\ Shaped'
  BY <1>1, UnsavedIs DEF Inv
<1>3. Queueing' /\ NothingLostUnlessRaced'
  BY <1>1, <1>2, KeptLosesNothing DEF Inv, Queueing, Kept
<1>4. Waits' /\ InSight' /\ Belongs'
  BY <1>1, <1>2 DEF Inv, Waits, Done, InSight, Belongs
<1>5. Unless(Late, Ordered)'
  BY <1>1, <1>2 DEF Inv, Unless, Ordered, Shows
<1>. QED BY <1>2, <1>3, <1>4, <1>5 DEF Inv

-------------------------------------------------------------------------------
\* The theorems.

LEMMA InvInit == Init => Inv
<1>. SUFFICES ASSUME Init PROVE Inv
  OBVIOUS
<1>1. server \in [Rows -> Values]
  <2>1. First \in Values /\ Absent \in Values
    BY BoundsAssumption DEF First, Absent, Values
  <2>. QED BY <2>1 DEF Init
<1>2. log = <<>> /\ writes = <<>> /\ wire = {} /\ phase = "idle" /\ answer.status = "none" /\ active /\ member
  BY DEF Init, NoAnswer
<1>3. Shaped /\ queue = <<>> /\ stored = <<>>
  BY DEF Init, Shaped, IsData, queue, stored
<1>4. Queueing /\ Waits /\ InSight /\ Belongs
  BY <1>1, <1>2, <1>3, BoundsAssumption DEF Queueing, Waits, InSight, Belongs
<1>5. NothingLostUnlessRaced /\ Ordered
  BY <1>2, <1>3 DEF NothingLostUnlessRaced, Unless, Ordered
<1>. QED BY <1>3, <1>4, <1>5 DEF Inv, Unless

LEMMA InvNext == Inv /\ [Next]_vars => Inv'
<1>1. ASSUME Inv, Person PROVE Inv'
  BY <1>1, MutateKeepsInv, QuietSteps, DropSteps, SignInKeepsInv DEF Person
<1>2. ASSUME Inv, Sync PROVE Inv'
  BY <1>2, QuietSteps, SendKeepsInv, AcknowledgedKeepsInv, RefusalSteps, DropSteps DEF Sync
<1>3. ASSUME Inv, Failure PROVE Inv'
  BY <1>3, QuietSteps, DropSteps, RestartKeepsInv, GiveUpKeepsInv, RefusalSteps DEF Failure
<1>4. ASSUME Inv, UNCHANGED vars PROVE Inv'
  <2>1. /\ UNCHANGED <<data, file, active, member, log, writes, server, settled, wire, answer, phase, discarding, raced>>
    BY <1>4 DEF vars, saved, sync, access, remote, history
  <2>2. queue' = queue /\ stored' = stored /\ Shaped'
    BY <1>4, <2>1, UnsavedIs DEF Inv
  <2>3. Queueing' /\ Waits' /\ InSight' /\ Belongs'
    BY <1>4, <2>1, <2>2 DEF Inv, Queueing, Waits, Done, InSight, Belongs
  <2>4. NothingLostUnlessRaced' /\ Unless(Late, Ordered)'
    BY <1>4, <2>1, <2>2, KeptLosesNothing DEF Inv, Kept, Unless, Ordered, Shows
  <2>. QED BY <2>2, <2>3, <2>4 DEF Inv
<1>. QED BY <1>1, <1>2, <1>3, <1>4, ServeKeepsInv, TurnedDownKeepsInv, OtherKeepsInv, AccessKeepsInv DEF Next, Server

\* No change is dropped but by the server, the user, or one of three races: what leaves the stored queue
\* has been answered, what is answered has been carried out for a member, and only the request of the
\* oldest change is ever answered; no lock on the keychain, failed save or restart takes a change away
\* before an empty workspace is put over it (docs/desktop.md:105).
THEOREM NothingLostHolds == Spec => []NothingLostUnlessRaced
<1>1. Inv => NothingLostUnlessRaced
  BY DEF Inv
<1>. QED BY <1>1, InvInit, InvNext, PTL DEF Spec

\* The server carries out each change once and in the order they were made, whatever answers, saves,
\* restarts and sign-ins are lost: nothing newer than the oldest change stored was carried out, and if
\* that one was, the row shows it, by which the replay finds it done (docs/desktop.md:90-92).
THEOREM OnceInOrderHolds == Spec => []OnceInOrderUnlessRaced
<1>1. Inv => OnceInOrderUnlessRaced
  <2>1. ASSUME Ordered PROVE \A i, j \in DOMAIN writes : i < j => writes[i] < writes[j]
    BY <2>1 DEF Ordered
  <2>. QED BY <2>1 DEF Inv, OnceInOrderUnlessRaced, Unless, Late
<1>. QED BY <1>1, InvInit, InvNext, PTL DEF Spec
-------------------------------------------------------------------------------
\* Types.  What the queue holds is part of Inv; the rest of TypeOK follows action by action.

HasTypes(d) == /\ d.user \in {"nobody", "us", "another"} /\ d.rows \in [Rows -> Values] /\ d.lastSync \in BOOLEAN
Flags == {active, rerun, failed, discarding, member, supported} \subseteq BOOLEAN
Scalars == phase \in Phases /\ theirs \in 0..MaxTheirs /\ fails \in 0..MaxFails
Rowwise == /\ HasTypes(data) /\ HasTypes(file)
           /\ snapshot \in [Rows -> Values]
           /\ answer \in [status : {"none", "ok", "missing", "refused"}, value : Values]
           /\ DOMAIN shown = Rows
Histories == /\ writes \in Seq(1..MaxChanges) /\ settled \subseteq 1..MaxChanges
             /\ touched \subseteq Rows /\ raced \subseteq Races
Typed == Inv /\ Flags /\ Scalars /\ Rowwise /\ Histories

LEMMA ValuesAre == First \in Values /\ Theirs \in Values /\ Absent \in Values /\ NoRows \in [Rows -> Values]
BY BoundsAssumption DEF First, Theirs, Absent, Values, NoRows

LEMMA FlagsStay ==
  ASSUME Typed, Next
  PROVE  Flags'
<1>. USE DEF Typed, Flags
<1>1. ASSUME Person PROVE Flags'
  <2>1. ASSUME NEW who, SignIn(who) PROVE Flags'
    BY <2>1 DEF SignIn, sync
  <2>. QED BY <1>1, <2>1 DEF Person, Mutate, AskToDiscard, SignOut, SwitchServer, Cleared, Stopped, saved, sync, access
<1>2. ASSUME Sync PROVE Flags'
  <2>1. CASE BundleUnsupported
    <3>1. failed' \in BOOLEAN
      BY <2>1 DEF BundleUnsupported
    <3>. QED BY <2>1, <3>1 DEF BundleUnsupported, access
  <2>. QED BY <1>2, <2>1 DEF Sync, Tick, Identity, IdentityDiffers, Bundle, Send, Acknowledged, Refused, Read, Store,
       Discard, Finishes, saved, access
<1>3. ASSUME Failure PROVE Flags'
  BY <1>3 DEF Failure, SessionEnds, Restart, BundleFails, AckFails, GiveUp, SyncFails, DiscardFails, Cleared, Stopped,
     Finishes, saved, access
<1>4. ASSUME NEW m \in wire, Serve(m) \/ ServeStranger(m) \/ Reject(m) PROVE Flags'
  BY <1>4 DEF Serve, ServeStranger, Reject, saved, sync, access
<1>5. ASSUME NEW x \in Rows, Other(x) PROVE Flags'
  BY <1>5 DEF Other, saved, sync, access
<1>6. ASSUME Administration PROVE Flags'
  BY <1>6 DEF Administration, Leaves, Readmitted, Unsupported, Supported, saved, sync
<1>. QED BY <1>1, <1>2, <1>3, <1>4, <1>5, <1>6 DEF Next, Server

LEMMA ScalarsStay ==
  ASSUME Typed, Next
  PROVE  Scalars'
<1>1. MayFail => fails' \in 0..MaxFails
  BY BoundsAssumption DEF MayFail, Typed, Scalars
<1>. USE DEF Typed, Scalars, Phases
<1>2. ASSUME Person PROVE Scalars'
  <2>1. ASSUME NEW who, SignIn(who) PROVE Scalars'
    BY <1>1, <2>1 DEF SignIn, sync, remote
  <2>. QED BY <1>2, <2>1 DEF Person, Mutate, AskToDiscard, SignOut, SwitchServer, Cleared, Stopped, sync, remote
<1>3. ASSUME Sync PROVE Scalars'
  BY <1>1, <1>3 DEF Sync, Tick, Identity, IdentityDiffers, Bundle, BundleUnsupported, Send, Acknowledged, Refused, Read,
     Store, Discard, Finishes, remote
<1>4. ASSUME Failure PROVE Scalars'
  BY <1>1, <1>4 DEF Failure, SessionEnds, Restart, BundleFails, AckFails, GiveUp, SyncFails, DiscardFails, Cleared,
     Stopped, Finishes, remote
<1>5. ASSUME NEW m \in wire, Serve(m) \/ ServeStranger(m) \/ Reject(m) PROVE Scalars'
  BY <1>5 DEF Serve, ServeStranger, Reject, sync
<1>6. ASSUME NEW x \in Rows, Other(x) PROVE Scalars'
  BY <1>6, BoundsAssumption DEF Other, sync
<1>7. ASSUME Administration PROVE Scalars'
  BY <1>1, <1>7 DEF Administration, Leaves, Readmitted, Unsupported, Supported, sync, remote
<1>. QED BY <1>2, <1>3, <1>4, <1>5, <1>6, <1>7 DEF Next, Server

\* What is committed or read back has the types of what it is made from.
LEMMA DataStays ==
  ASSUME Typed, Next
  PROVE  HasTypes(data)' /\ HasTypes(file)'
<1>. DEFINE P(d) == HasTypes(d)
<1>1. P(data) /\ P(file)
  BY DEF Typed, Rowwise
<1>2. ASSUME NEW who \in {"nobody", "us", "another"} PROVE P(Empty(who))
  BY ValuesAre DEF HasTypes, Empty
<1>3. ASSUME NEW q PROVE P([data EXCEPT !.changes = q])
  BY <1>1 DEF HasTypes, Typed, Inv, Shaped, IsData
<1>4. P(data') /\ P(file') => HasTypes(data)' /\ HasTypes(file)'
  BY DEF HasTypes
<1>. HIDE DEF P
<1>5. UNCHANGED <<data, file>> => P(data') /\ P(file')
  BY <1>1
<1>6. ASSUME Person PROVE P(data') /\ P(file')
  <2>1. ASSUME NEW x, NEW kind, Mutate(kind, x) PROVE P(data') /\ P(file')
    BY <1>3, <2>1 DEF Mutate, Commit
  <2>2. CASE AskToDiscard
    BY <1>5, <2>2 DEF AskToDiscard, saved
  <2>3. CASE SignOut \/ SwitchServer
    BY <1>2, <2>3 DEF SignOut, SwitchServer, Cleared, Nothing
  <2>4. ASSUME NEW who \in {"us", "another"}, SignIn(who) PROVE P(data') /\ P(file')
    BY <1>1, <1>2, <2>4 DEF SignIn, Commit
  <2>. QED BY <1>6, <2>1, <2>2, <2>3, <2>4 DEF Person
<1>7. ASSUME Sync PROVE P(data') /\ P(file')
  <2>1. CASE Acknowledged
    <3>1. queue # <<>> /\ Head(queue) \in Change
      BY <2>1, HeadIsChange DEF Acknowledged, Typed, Inv, Waits, Queueing
    <3>2. answer.value \in Values
      BY DEF Typed, Rowwise
    <3>3. rows \in [Rows -> Values]
      BY <1>1 DEF P, HasTypes, rows
    <3>4. Ack(Head(queue)) \in [Rows -> Values]
      BY <3>1, <3>2, <3>3, ValuesAre DEF Ack, Change
    <3>5. ASSUME NEW r \in [Rows -> Values], NEW q PROVE P([data EXCEPT !.rows = r, !.changes = q])
      BY <1>1 DEF P, HasTypes, Typed, Inv, Shaped, IsData
    <3>. QED BY <2>1, <3>4, <3>5 DEF Acknowledged, Commit
  <2>2. CASE Store
    <3>1. snapshot \in [Rows -> Values]
      BY DEF Typed, Rowwise
    <3>2. P([data EXCEPT !.rows = snapshot, !.lastSync = TRUE])
      BY <1>1, <3>1 DEF P, HasTypes, Typed, Inv, Shaped, IsData
    <3>. QED BY <2>2, <3>2 DEF Store, Commit
  <2>3. CASE Discard
    BY <1>3, <2>3 DEF Discard, Commit
  <2>4. CASE IdentityDiffers \/ Bundle \/ BundleUnsupported
    BY <1>1, <2>4 DEF IdentityDiffers, Bundle, BundleUnsupported, Commit
  <2>5. CASE Tick \/ Identity \/ Send \/ Refused \/ Read
    BY <1>5, <2>5 DEF Tick, Identity, Send, Refused, Read, saved
  <2>. QED BY <1>7, <2>1, <2>2, <2>3, <2>4, <2>5 DEF Sync
<1>8. ASSUME Failure PROVE P(data') /\ P(file')
  <2>1. CASE SessionEnds \/ Restart
    BY <1>1, <1>2, <2>1 DEF SessionEnds, Restart, Cleared, Nothing
  <2>2. CASE BundleFails \/ AckFails \/ GiveUp \/ SyncFails \/ DiscardFails
    BY <1>5, <2>2 DEF BundleFails, AckFails, GiveUp, SyncFails, DiscardFails, saved
  <2>. QED BY <1>8, <2>1, <2>2 DEF Failure
<1>9. ASSUME NEW m \in wire, Serve(m) \/ ServeStranger(m) \/ Reject(m) PROVE P(data') /\ P(file')
  BY <1>5, <1>9 DEF Serve, ServeStranger, Reject, saved
<1>10. ASSUME NEW x \in Rows, Other(x) PROVE P(data') /\ P(file')
  BY <1>5, <1>10 DEF Other, saved
<1>11. ASSUME Administration PROVE P(data') /\ P(file')
  BY <1>5, <1>11 DEF Administration, Leaves, Readmitted, Unsupported, Supported, saved
<1>. QED BY <1>4, <1>6, <1>7, <1>8, <1>9, <1>10, <1>11 DEF Next, Server

LEMMA RowwiseStays ==
  ASSUME Typed, Next
  PROVE  Rowwise'
<1>0. HasTypes(data)' /\ HasTypes(file)'
  BY DataStays
<1>1. NoAnswer \in [status : {"none", "ok", "missing", "refused"}, value : Values]
  BY ValuesAre DEF NoAnswer
<1>2. server \in [Rows -> Values] /\ DOMAIN server = Rows /\ DOMAIN rows = Rows
  BY DEF Typed, Inv, Queueing, Rowwise, HasTypes, rows
<1>3. ASSUME NEW m \in wire, Serve(m) PROVE Rowwise'
  <2>1. m.change.row \in Rows
    BY DEF Typed, Inv, Queueing, Change
  <2>2. server' \in [Rows -> Values]
    <3>1. Inv'
      BY InvNext DEF Typed
    <3>. QED BY <3>1 DEF Inv, Queueing
  <2>3. answer' \in [status : {"none", "ok", "missing", "refused"}, value : Values]
    <3>1. \/ answer' = answer
          \/ \E st \in {"ok", "missing"}, v \in Values : answer' = [status |-> st, value |-> v]
      BY <1>2, <1>3, <2>1, <2>2 DEF Serve, Reply
    <3>. QED BY <3>1 DEF Typed, Rowwise
  <2>. QED BY <1>0, <1>3, <2>3 DEF Serve, sync, Typed, Rowwise
<1>4. ASSUME NEW m \in wire, ServeStranger(m) \/ Reject(m) PROVE Rowwise'
  <2>1. \/ answer' = answer
        \/ \E st \in {"missing", "refused"} : answer' = [status |-> st, value |-> Absent]
    BY <1>4 DEF ServeStranger, Reject, Reply
  <2>2. answer' \in [status : {"none", "ok", "missing", "refused"}, value : Values]
    BY <2>1, ValuesAre DEF Typed, Rowwise
  <2>. QED BY <1>0, <1>4, <2>2 DEF ServeStranger, Reject, sync, history, Typed, Rowwise
<1>. USE DEF Typed, Rowwise
<1>5. ASSUME Person PROVE Rowwise'
  <2>1. ASSUME NEW who, SignIn(who) PROVE Rowwise'
    BY <1>0, <2>1 DEF SignIn, sync, remote, history
  <2>. QED BY <1>0, <1>1, <1>2, <1>5, <2>1, ValuesAre DEF Person, Mutate, AskToDiscard, SignOut, SwitchServer, Cleared,
       Stopped, Abandon, sync, remote, history
<1>6. ASSUME Sync PROVE Rowwise'
  BY <1>0, <1>1, <1>2, <1>6, ValuesAre DEF Sync, Tick, Identity, IdentityDiffers, Bundle, BundleUnsupported, Send,
     Acknowledged, Refused, Read, Store, Discard, remote, history
<1>7. ASSUME Failure PROVE Rowwise'
  BY <1>0, <1>1, <1>2, <1>7, ValuesAre DEF Failure, SessionEnds, Restart, BundleFails, AckFails, GiveUp, SyncFails,
     DiscardFails, Cleared, Stopped, Abandon, remote, history
<1>8. ASSUME NEW x \in Rows, Other(x) PROVE Rowwise'
  BY <1>0, <1>8 DEF Other, sync
<1>9. ASSUME Administration PROVE Rowwise'
  BY <1>0, <1>9 DEF Administration, Leaves, Readmitted, Unsupported, Supported, sync, remote, history
<1>. QED BY <1>3, <1>4, <1>5, <1>6, <1>7, <1>8, <1>9 DEF Next, Server

LEMMA QueueIsChanges ==
  ASSUME Queueing
  PROVE  /\ queue \in Seq(Change) /\ \A i, j \in DOMAIN queue : i < j => queue[i].n < queue[j].n
         /\ Numbers(queue) \subseteq 1..MaxChanges
<1>1. CASE queue = <<>>
  BY <1>1 DEF Numbers
<1>2. CASE queue # <<>>
  <2>1. queue = stored /\ stored \in Seq(Change) /\ DOMAIN stored = 1..Len(stored)
    BY <1>2 DEF Queueing
  <2>2. \A i \in DOMAIN stored : stored[i] \in Change
    BY <2>1
  <2>. QED BY <2>1, <2>2 DEF Queueing, Numbers, Change
<1>. QED BY <1>1, <1>2

LEMMA HistoriesStay ==
  ASSUME Typed, Next
  PROVE  Histories'
<1>0. Numbers(queue) \subseteq 1..MaxChanges
  BY QueueIsChanges DEF Typed, Inv
<1>1. raced' \subseteq Races
  <2>1. (raced' = raced \/ \E S : Race(S)) => raced' \subseteq Races
    BY DEF Race, Typed, Histories
  <2>2. ASSUME Person PROVE raced' = raced \/ \E S : Race(S)
    BY <2>2 DEF Person, Mutate, AskToDiscard, SignOut, SwitchServer, SignIn, Abandon
  <2>3. ASSUME Sync PROVE raced' = raced
    BY <2>3 DEF Sync, Tick, Identity, IdentityDiffers, Bundle, BundleUnsupported, Send, Acknowledged, Refused, Read,
       Store, Discard
  <2>4. ASSUME Failure PROVE raced' = raced \/ \E S : Race(S)
    BY <2>4 DEF Failure, SessionEnds, Restart, BundleFails, AckFails, GiveUp, SyncFails, DiscardFails, Abandon
  <2>5. ASSUME NEW m \in wire, Serve(m) \/ ServeStranger(m) \/ Reject(m) PROVE \E S : Race(S)
    BY <2>5 DEF Serve, ServeStranger, Reject
  <2>6. ASSUME NEW x \in Rows, Other(x) PROVE \E S : Race(S)
    BY <2>6 DEF Other
  <2>7. ASSUME Administration PROVE raced' = raced \/ \E S : Race(S)
    BY <2>7 DEF Administration, Leaves, Readmitted, Unsupported, Supported
  <2>. QED BY <2>1, <2>2, <2>3, <2>4, <2>5, <2>6, <2>7 DEF Next, Server
<1>. USE DEF Typed, Histories
<1>2. ASSUME Person PROVE Histories'
  BY <1>0, <1>1, <1>2 DEF Person, Mutate, AskToDiscard, SignOut, SwitchServer, SignIn, history
<1>3. ASSUME Sync PROVE Histories'
  BY <1>0, <1>1, <1>3 DEF Sync, Tick, Identity, IdentityDiffers, Bundle, BundleUnsupported, Send, Acknowledged, Refused,
     Read, Store, Discard, history
<1>4. ASSUME Failure PROVE Histories'
  BY <1>1, <1>4 DEF Failure, SessionEnds, Restart, BundleFails, AckFails, GiveUp, SyncFails, DiscardFails, history
<1>5. ASSUME NEW m \in wire, Serve(m) \/ ServeStranger(m) \/ Reject(m) PROVE Histories'
  <2>1. m.change.n \in 1..MaxChanges
    BY DEF Inv, Queueing, Change
  <2>2. writes' = writes \/ writes' = Append(writes, m.change.n)
    BY <1>5 DEF Serve, ServeStranger, Reject, history
  <2>3. writes' \in Seq(1..MaxChanges)
    <3>. DEFINE S == 1..MaxChanges
    <3>1. writes \in Seq(S) /\ m.change.n \in S
      BY <2>1
    <3>. HIDE DEF S
    <3>2. Append(writes, m.change.n) \in Seq(S)
      BY <3>1
    <3>3. writes' \in Seq(S)
      BY <2>2, <3>1, <3>2
    <3>. QED BY <3>3 DEF S
  <2>4. settled' \subseteq settled \cup {m.change.n} /\ touched' = touched
    BY <1>5 DEF Serve, ServeStranger, Reject, history
  <2>. QED BY <1>1, <2>1, <2>3, <2>4
<1>6. ASSUME NEW x \in Rows, Other(x) PROVE Histories'
  BY <1>1, <1>6 DEF Other
<1>7. ASSUME Administration PROVE Histories'
  BY <1>1, <1>7 DEF Administration, Leaves, Readmitted, Unsupported, Supported, history
<1>. QED BY <1>2, <1>3, <1>4, <1>5, <1>6, <1>7 DEF Next, Server

\* The log numbers the changes, by which the queue is in order.
Numbered == \A i \in 1..Len(log) : log[i].n = i

LEMMA NumberedStays ==
  ASSUME Typed, Numbered, [Next]_vars
  PROVE  Numbered'
<1>1. CASE log' = log
  BY <1>1 DEF Numbered
<1>2. ASSUME NEW x, NEW kind, Mutate(kind, x) PROVE Numbered'
  <2>. DEFINE c == [n |-> Len(log) + 1, kind |-> kind, row |-> x]
  <2>1. log' = Append(log, c) /\ c.n = Len(log) + 1 /\ log \in Seq(Change)
    BY <1>2 DEF Mutate, Typed, Inv, Queueing
  <2>. HIDE DEF c
  <2>2. /\ Len(log') = Len(log) + 1 /\ Len(log) \in Nat
        /\ \A i \in 1..Len(log) : log'[i] = log[i]
        /\ log'[Len(log) + 1] = c
    BY <2>1
  <2>3. \A i \in 1..Len(log') : i \in 1..Len(log) \/ i = Len(log) + 1
    BY <2>2
  <2>. QED BY <2>1, <2>2, <2>3 DEF Numbered
<1>3. ASSUME Person PROVE Numbered'
  BY <1>1, <1>2, <1>3 DEF Person, AskToDiscard, SignOut, SwitchServer, SignIn, history
<1>4. ASSUME Sync \/ Failure PROVE log' = log
  BY <1>4 DEF Sync, Tick, Identity, IdentityDiffers, Bundle, BundleUnsupported, Send, Acknowledged, Refused, Read, Store,
     Discard, Failure, SessionEnds, Restart, BundleFails, AckFails, GiveUp, SyncFails, DiscardFails, history
<1>5. ASSUME NEW m \in wire, Serve(m) \/ ServeStranger(m) \/ Reject(m) PROVE log' = log
  BY <1>5 DEF Serve, ServeStranger, Reject, history
<1>6. ASSUME NEW x \in Rows, Other(x) PROVE log' = log
  BY <1>6 DEF Other
<1>7. ASSUME Administration PROVE log' = log
  BY <1>7 DEF Administration, Leaves, Readmitted, Unsupported, Supported, history
<1>8. CASE UNCHANGED vars
  BY <1>1, <1>8 DEF vars, history
<1>. QED BY <1>1, <1>3, <1>4, <1>5, <1>6, <1>7, <1>8 DEF Next, Server

\* Every value keeps its type, and the queue its order, whatever fails and whoever writes meanwhile.
THEOREM TypeCorrect == Spec => []TypeOK
<1>1. Init => Typed /\ Numbered
  <2>. SUFFICES ASSUME Init PROVE Typed /\ Numbered
    OBVIOUS
  <2>1. Flags /\ Scalars
    <3>1. phase \in Phases /\ Flags
      BY DEF Init, Phases, Flags
    <3>2. theirs \in 0..MaxTheirs /\ fails \in 0..MaxFails
      BY BoundsAssumption DEF Init
    <3>. QED BY <3>1, <3>2 DEF Scalars
  <2>2. Rowwise
    BY ValuesAre DEF Init, Rowwise, HasTypes, NoAnswer
  <2>3. Histories /\ Numbered
    BY DEF Init, Histories, Numbered
  <2>. QED BY <2>1, <2>2, <2>3, InvInit DEF Typed
<1>2. Typed /\ Numbered /\ [Next]_vars => (Typed /\ Numbered)'
  <2>1. ASSUME Typed, Next PROVE Typed'
    BY <2>1, InvNext, FlagsStay, ScalarsStay, RowwiseStays, HistoriesStay DEF Typed
  <2>2. ASSUME Typed, UNCHANGED vars PROVE Typed'
    <3>1. Inv'
      BY <2>2, InvNext DEF Typed
    <3>. QED BY <2>2, <3>1 DEF Typed, Flags, Scalars, Rowwise, HasTypes, Histories, vars, saved, sync, access, remote,
         history
  <2>. QED BY <2>1, <2>2, NumberedStays
<1>3. Typed /\ Numbered => TypeOK
  <2>. SUFFICES ASSUME Typed, Numbered PROVE TypeOK
    OBVIOUS
  <2>. DEFINE Records == [user : {"nobody", "us", "another"}, changes : Seq(Change), rows : [Rows -> Values],
                          lastSync : BOOLEAN]
  <2>1. DOMAIN stored = 1..Len(stored) /\ DOMAIN log = 1..Len(log)
    BY DEF Typed, Inv, Queueing
  <2>2. data \in Records /\ file \in Records
    <3>1. data.changes \in Seq(Change) /\ file.changes \in Seq(Change)
      BY QueueIsChanges DEF Typed, Inv, Queueing, queue, stored
    <3>. QED BY <3>1 DEF Typed, Inv, Shaped, IsData, Rowwise, HasTypes
  <2>3. \A d \in {data, file} : \A i, j \in DOMAIN d.changes : i < j => d.changes[i].n < d.changes[j].n
    BY <2>1, QueueIsChanges DEF Typed, Inv, Queueing, queue, stored
  <2>. HIDE DEF Records
  <2>4. \A d \in {data, file} : d \in Records
    BY <2>2
  <2>5. Flags /\ Scalars /\ Rowwise /\ Histories /\ Queueing /\ Waits
    BY DEF Typed, Inv
  <2>. QED BY <2>1, <2>3, <2>4, <2>5 DEF Records, Queueing, Waits, Flags, Scalars, Rowwise, Histories, Numbered, TypeOK
<1>. QED BY <1>1, <1>2, <1>3, PTL DEF Spec

=============================================================================
