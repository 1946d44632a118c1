# A TLA+ model of Onshell.cloud

Onshell.cloud lets a team reach its servers from a browser or a desktop
application. The parts of it that are easy to read and hard to test are those
where several programs, or several requests of one program, change the same
state: the gateway's terminals and the tunnel to a machine that runs the agent,
the API's records of them, sign-in sessions, pairing and revocation of machines,
payments, membership, and the application's offline changes. This directory
models them, checks the models with TLC and proves the central theorems with
TLAPS.

    tlc -workers 2 -config terminals_safety.cfg MCTerminals     # model-check
    tlapm TerminalsProofs.tla                                   # check the proofs
    tlapm --threads 2 AgentTunnelShells.tla                     # the longest, some ten minutes

`PROJECT.json` lists the components, the runs, for every definition the source
lines it stands for, the disagreements between code and documents that a run
shows, the hazards, and the theorems.

## 1. Inventory

| Part | State it keeps | Operations | Hard behaviours | What makes it correct | Model |
|---|---|---|---|---|---|
| Terminals of the gateway (`gateway/src/terminals.ts`, `routes.ts`, `protocols/{ssh-connections,local,agent}.ts`) | `terminals`, `sshClients`, `shells` and `sessions`, each a map by session id; a grace timer per terminal | open, attach, detach, take over, output, exit, close | an `await` between "is there a terminal?" and "register it"; sockets that close at any moment; timers; operations by id on objects that have been replaced | one shell per session; it ends for one of three reasons and not otherwise; a returning browser gets everything it missed; what nobody comes back to ends | `Terminals`, `ShellLife`; proofs in `TerminalsProofs` |
| Agent tunnel (`gateway/src/agents/registry.ts`, `agent/src/tunnel.ts`, `agent/src/channels.ts`) | gateway: `devices`, and per device the socket, `channels`, `pending`, a grace timer; agent: the socket, `channels`, a timer per held pty | connect, hello, open, resume, close, exit, kill | messages lost with a connection that the two ends see close at different times; two grace periods; reconnection with retries; restarts; channel ids that mean "resume" when known | a resumed terminal is the same process; both ends agree on who is alive once all is said; nothing runs unseen | `AgentTunnel`; proofs in `AgentTunnelProofs`, `AgentTunnelShells` |
| Agent file streams (`agent/src/files.ts`, `gateway/src/agents/file-transport.ts`) | a stream per channel, credit on both sides | open, data, credit, end, abort | credit windows, errors after the end, lost tunnels | every transfer ends, whole or failed; a completed upload is on disk; neither end floods the other | `AgentStreams`; proofs in `AgentProofs` |
| Session records (`api/src/lib/gateway.ts`, `routes/modules/{sessions,desktop}.ts`, `desktop/src/main/runtime/{ssh,files}.ts`) | a row per session in MySQL, sessions in the gateway's memory, connections of the desktop application | open, fail, close, list with `reconcileSessions`, report | two stores written in turn, each call may fail; a list that is old when it is used; reports nobody repeats | a row says what there is; what is over is recorded as it ended; what is abandoned ends | `SessionRecords`; proofs in `TerminalsProofs` |
| Sign-in sessions (`api/src/lib/refresh-token*.ts`, `active-organization.ts`, `routes/modules/auth.ts`, `packages/api-client/src/transport.ts`) | refresh tokens in families, a cookie per browser | sign in, refresh, switch workspace, change password, list, revoke, sign out | concurrent refreshes with a forgiving window; answers that set a cookie in any order | a sign-out is final, nobody is signed out for nothing, a switch lasts | `SignIn`; proofs in `SignInProofs` |
| Enrolment of agents (`api/src/routes/modules/agents.ts`, `agent/src/{pair,auth,tunnel}.ts`, `desktop/src/main/runtime/sharing.ts`) | pairing codes, device rows and token hashes, the gateway's deny list, the machine's token file | issue a code, pair, revoke, remove, ask for a JWT, connect | the database and the gateway are told one after the other; answers lost; tokens minted before a revocation | a revoked machine is out, a paired one is in and knows its token, a stopped agent is off | `Enrolment`; proofs in `AgentProofs` |
| Billing (`api/src/routes/modules/{stripe-webhooks,donations,admin}.ts`, `lib/{checkout,provisioning}.ts`) | subscriptions, invoices, donations | checkout, events, confirm, refund, assign | events repeated, late, out of order and concurrent | the latest purchase is the plan; a refund ends its plan and no other; a donation says how it ended | `Billing`; proofs in `BillingProofs` |
| Organizations and host access (`api/src/routes/modules/{organizations,hosts,sessions,admin}.ts`, `lib/{host-access,current-user}.ts`, `packages/shared`) | memberships, invitations, grants, hosts, open sessions | change a role, remove, invite, accept, grant, add and delete a host, open a session | reads and writes of one request with others between them | there is an owner; nobody inherits access; removed is removed; sessions open under access | `Team`; proofs in `TeamProofs` |
| Desktop application's offline workspace (`desktop/src/main/runtime/{local-workspace,local-data,session}.ts`, `api/src/lib/offline-id.ts`, `routes/modules/tasks.ts`) | a snapshot and a durable queue of changes | change, replay, acknowledge, refresh the snapshot, discard, sign out | lost answers and retries; a request given up on and served late; restarts | nothing lost, each change once and in order, the person sees their own work, the queue empties | `Outbox`; proofs in `OutboxProofs` |
| File browser, remote desktop, loopback server and consent, console screens, content and administration | see `PROJECT.json` | | | | not modelled, with the reason there |

How they interact: the browser asks the API for a session; the API checks access
and asks the gateway (REST) to open it, then stores a row. The browser connects a
WebSocket to the gateway, whose terminal route opens the shell over ssh2, a local
pty, or `AgentDevice.openShell`. The last sends `open-shell` down the tunnel, a
WebSocket the agent dialled. Output comes back as callbacks. The API ends
sessions with `POST /sessions/:id/close` and machines with
`POST /agents/:deviceId/disconnect`. MySQL, Redis, guacd, ssh2 and node-pty are
external.

The modules meet where the programs call one another and share no variables:
`SessionRecords` sees a gateway session as listed or over, and `Terminals` is what
happens inside one; `Enrolment` sees a tunnel as connected or not, and
`AgentTunnel` is what travels on it; `Team` decides whether a session may be
opened that `SessionRecords` then keeps a record of; `SignIn` ends the session
whose end `Outbox` has to survive.

## 2. How the modules are written

All the modelled programs are single-threaded JavaScript: a callback runs to
completion, so **one action is one stretch of code between two awaits**, or one
event listener, with every call it makes that changes state. What can interleave
is what the event loop can interleave.

The code has windows in which its own intent does not hold. A property that
ignored them would be false, and one weakened until it held would say little. So
each model names its **races**: coincidences the code does not exclude, such as
"a second socket arrives while a shell is being opened". The constant `Races`
says which may happen; the history variable `raced` records which have. A
property then reads "as long as none of *these* races has happened": it holds
whatever else has, and it says exactly what a fix would have to exclude. The
list a property names is the one TLC needs, found by taking races away one at a
time. Where a document of the repository promises the property outright, the
promise is broken by such a race: two runs show it, and section 5 lists the rest.

Two proof modules extend two specifications each, and the names of one of the two
had to be other than those of the other. So `SessionRecords` has `RowsSpec`,
`RowsTypeOK`, `RowRaces` and `touched` where the rest have `Spec`, `TypeOK`, `Races`
and `raced`, and `AgentStreams` has `StreamSpec`, `StreamTypeOK`, `StreamRaces`
and `lapsed`.

A definition called `...Bug` is a plausible mistake in the definition after it,
such as a forgotten timer or a dropped guard. No specification uses it; it is
there to show that a property notices the mistake.

### Terminals

The life of **one session**. Every map in `terminals.ts`, `registry.ts` and
`protocols/*` is keyed by the session id and no operation looks at two ids.

| Variable | Code |
|---|---|
| `transport` | which of `protocols/{ssh,local,agent}` serves the session |
| `status` | `GatewaySession.status` |
| `client` | the ssh2 client; in `sshClients` iff `"connecting"` or `"ready"` |
| `sock`, `pumped` | `readyState` of each browser socket; whether its close listener leads to `detachSocket` |
| `pc` | where the terminal route's async handler is, for each socket |
| `shell` | each shell, seen from the gateway |
| `term` | the `LiveTerminal` object made for a shell: socket, backlog, truncated, exited, graceTimer |
| `terminals` | `terminals.get(id)` |
| `shells` | `shells.get(id)` of the local or agent transport |
| `closed`, `made`, `accounted`, `raced` | history, for the properties |

Actions, in the code's names: `StartOpening`, `OpenSucceeds`, `OpenFails` (the
WebSocket route on either side of its `await`, with `registerTerminal`,
`endTerminal` and `pumpSocketInput`); `Reattach` (`attachSocket` and
`resumeTerminal`); `Refuse`; `PeerCloses`, `CloseEvent` (with `detachSocket`);
`Output`, `Exit` (the listeners of `registerTerminal`, after the transport's
own); `GraceFires`; `CloseSession`; `SshReady`, `SshError`, `SshClosed`.

`dispose()` is modelled as it is: it works by session id, so it ends whatever the
transport holds under that id by then.

`ShellLife` is what `docs/architecture.md` promises of a shell, in six actions.
`Terminals!Promise` instantiates it with the session's one shell.

### AgentTunnel

**One machine**, named by its device id; the gateway's map `devices` is keyed by
it. A connection is a pair of FIFO queues and the state of its two ends. Either
end may see it close at any moment, losing what it had not read; the other end
may notice much later. That covers a dropped network, either heartbeat timeout,
a closing handshake and a crash.

| Variable | Code |
|---|---|
| `conn` | each WebSocket: `readyState` at either end, and what travels |
| `tunnel` | `AgentTunnel.socket` |
| `devices`, `device` | `devices.get(deviceId)`; each `AgentDevice`: socket, hello, nextChannelId, graceTimer |
| `shell` | each call of `openShell` with its `Channel`: its promise (`state`), its membership in `channels` (`listed`), its id |
| `channels` | `ChannelManager.channels` |
| `pty` | each process with its `Channel` record: attached, graceTimer (`timer`), timers overwritten without being cleared (`stray`) |
| `raced`, and `owner`, `bound` of a pty, `for` of a frame | history: which `openShell` call it is about, which the code cannot tell |

Actions: `Dial`, `DialFails`, `Connected`, `AgentSeesClose` (the agent's
`connect` and its listeners, with `onDisconnected` and `detachAll`), `Accept`
(`getOrCreateDevice`, `attach`), `GatewaySeesClose` (`detach`),
`GatewayGraceFires`, `KillDevice`, `OpenShell`, `OpenTimesOut`, `EndShell`,
`RecvHello` (which resumes what is listed in the order of the ids),
`RecvOpened`, `RecvOpenedAndExit`, `RecvError`, `RecvExit`; `RecvOpenHeld`, `RecvOpenNew`, `RecvOpenRefused`, `Spawned`, `SpawnFails`,
`RecvClose`, `RecvKill`, `PtyExits`, `AgentGraceFires`; `AgentRestarts`,
`GatewayRestarts`.

### AgentStreams

**One transfer**, an upload or a download chosen with its file in `StreamInit`; both
ends key everything by its channel id. A file is a sequence of chunk sizes and a
chunk is named by its position, so that order and loss can be told.

| Variable | Code |
|---|---|
| `kind`, `file` | which of `AgentReadable` and `AgentWritable`, and what is transferred |
| `made`, `dialled`, `socket`, `open`, `up`, `down` | the connections, as in `AgentTunnel`: the agent's (`AgentTunnel.socket`), the gateway's, those the gateway still reads, what travels |
| `rpc` | the `fs.openRead` or `fs.openWrite` call |
| `sink` | `AgentDevice.streams` holds the channel |
| `reader` | `AgentReadable`: `owed`, and of the `Readable` it extends the buffer and the pending `_read` |
| `writer` | `AgentWritable`: `credit`, `failure`, and which `_write` or `_final` waits for what |
| `handle` | the agent's stream with its `StreamState`; `listed` iff in `FileService.streams` |
| `lapsed` | history |

Actions of the gateway: `Read`, `Take`, `TakeEnd`, `CancelRead`; `WriteChunk`,
`FinishWriting`, `SourceFails`; `RpcTimesOut`; one `Recv...` per frame. Of the
agent: `RecvOpen`, `Opened`, `OpenFails` (either side of the await in `openRead`
and `openWrite`), `ReadChunk`, `ReadEnds`, `ReadFails`, `RecvReadCredit`,
`RecvChunk`, `RecvStreamEnd`, `Flush`, `Finish`, `WriteFails`, the last three
being Node's callbacks. Of the connection: `AgentSeesClose` with `abortAll`,
`Reconnect` with `attach`, `GatewaySeesClose` with `detach`. Node's streams are
external and modelled by what the code relies on: `_read` is called once per
push and only while less than the mark is buffered; `_write` calls do not
overlap; the callback of `end()` runs on an error as well, before `"error"`.

### SessionRecords

**Two sessions and one listing.** A session is relayed (a terminal or a file pane
through the gateway) or direct (opened by the desktop application under a lease),
chosen in `RowsInit`.

| Variable | Code |
|---|---|
| `row` | `Session.status` in the database |
| `gateway` | the gateway's `sessions` map: absent, live, or over |
| `api`, `closing` | where `POST /sessions` and `POST /sessions/:id/close` are, between their awaits |
| `console`, `attached` | the client that asked, and whether a terminal ever attached |
| `seen` | a `GET /sessions` between the gateway's answer and its `updateMany` |
| `app`, `reports` | the application's own connection, and its reports on their way |
| `known`, `touched` | history |

`StaleRows` is the `where` clause of `reconcileSessions`, `Status` the rule by which
a report changes a row, `EarlierThan` what the application says once only.

### SignIn

**One account**, with clients that hold a token (a browser, whose tabs share a
cookie, or the desktop application, which keeps its pair itself) and tabs that send
requests, one at a time each. A `RefreshToken` row is live, rotated (revoked, its 60
seconds not over), stale (revoked, and they are) or ended (expired). A request is
sent with the token its client holds at that moment, is handled in the steps
between its awaits, and its answer sets or clears the cookie at any later moment.

`FindToken`, `RotateToken` and `IssueRefreshed` are the three stretches of
`POST /auth/refresh`; `FindMembership` and `IssueSwitched` those of the workspace
switch; `ChangePassword`, `Logout`, `RevokeFamily`, `RevokeOthers`, `RevokeAll`,
`RemoveMember` are the routes that end sessions, each by `revokeRefreshTokens` with
its own `where`; `GraceElapses` is the clock. `Resolve` is
`resolveActiveMembership`.

### Billing

**One workspace** and its checkouts, all purchases or all donations: no handler
looks at both. Stripe is external: a checkout is opened, paid at once or later,
fails, expires, is refunded, and each of these adds an event to those `due`, of
which any may be delivered at any time (`Turn` is their order), to several handlers at once, and
again after it was acknowledged. `Begin...` and `Commit...` are the two halves of a
handler, the read and the write of its transaction, between which another may
write. `rows` is the workspace's subscriptions, `Newest` the one a payment is
compared with and `Decision` the comparison.

### Enrolment

**One machine** of one workspace: what pairs it (its command line, the desktop
application), what withdraws it (revocation or removal), its tunnels. A device is
named by the first token it was given.

| Variable | Code |
|---|---|
| `code` | `AgentPairingCode` |
| `row`, `hash`, `deviceOf` | `AgentDevice`: state, `tokenHash`, and whose each token is |
| `pairing`, `withdrawal` | where each such request is, in the machine, the API and the gateway |
| `denied` | the gateway's deny list |
| `disk` | the token in the machine's file |
| `tunnel` | each `AgentTunnel`: off, waiting, asking for a JWT, granted, connected, and the token it read when it was made |
| `winners`, `raced` | history |

`Enrol` is the transaction that consumes a code; `Allow` and `Disconnect` are the
calls by which the gateway hears of it and of a withdrawal; `Admits` is what the
gateway asks of a JWT. A tunnel that is stopped while it asks goes on, as
`connect()` does.

### Team

**One workspace**: memberships, grants, invitations, hosts and the sessions opened
on them. A request is a record of what it has read so far; each action is one
stretch of a route between two awaits, and only a `$transaction` is one step for
several writes. Any request may fail at any await (`Fail`). `BeginOnMember`,
`FindMember`, `CountOwners`, `WriteRole`, `DropGrants` are the role change;
removal shares the first three. `Accept` is the transaction of
`POST /invitations/accept`. `FilterHosts` and `FindHost` are the two reads of
`accessibleHostFilter` and the host query; `OpenSession` follows them. `given` is
history: the grants somebody was given in the role they have.

### Outbox

**One computer, its server and another writer.** `data` is what the workspace holds
in memory and `file` what is stored, each with the account and organization it
is for: `"us"`, `"another"`, or nobody where there is none. `Commit` writes both, as
`commit()` does. `queue` and `rows` are `data.changes` and `data.rows`; `phase` is how far `reconcile()` is; `wire` and
`answer` are the request it waits for and those it has given up on (`timedFetch`
aborts after ten seconds, which does not stop the server). `Apply` is
`LocalWorkspace.apply` and `View` the overlay of the queue on the snapshot, a fold.
`Serve` is a route of the server, with `offlineEntityId` making a creation
idempotent, and `ServeStranger` the same route for somebody who is in another
organization by now; `Done` is what the application takes as carried out.

What keeps the queue and what drops it is in `local-data.ts`. `Restart` reads the
file, or cannot (a locked keychain, a file that does not decrypt), which leaves it
in place and the workspace undefined. `SignIn` is `setLocalUser`: it opens the
workspace that is there if it is for the same account and organization, and
otherwise puts an empty one in its place and over the file, or fails to save it.
`SignOut` and `SessionEnds` are the two ways into `clearLocal`, and `SwitchServer` is
the sign-in screen's change of server, for which `localSync` counts no change as
pending. What keeps the queue from being sent is in `reconcile()`: `member` is whether
`me()` still answers with the workspace's own identity (`Identity`,
`IdentityDiffers`), and `supported` whether this computer gets an offline bundle of
version 1 (`Bundle`, `BundleUnsupported`); either may stay false for ever. A change is
numbered and a row holds the number of the change that wrote it, so what a row
shows says who wrote it.

### Between the modules

Terminals sees a tunnel terminal as a shell that can be running, ended or exited;
AgentTunnel is what is behind that. `EndShell` is the gateway's `Channel.end`,
which `Terminals` calls `Stop`, and `emitExit` is what `Terminals` calls `Exit`.
`SessionRecords!EndGatewaySession` is `Terminals!CloseSession`, seen from the API,
and its `GraceElapses` is `Terminals!GraceFires`.

## 3. Bounds

* **Terminals**: three sockets, two shells, two chunks of output per shell, a
  backlog of one chunk. Three sockets give a reader, one that takes over, and one
  that comes back to what those two left. Two shells are what an overlap can
  start; a third would need a fourth socket and repeats the second. Two chunks
  and a backlog of one make the backlog overflow. The refinement run needs at
  most one chunk. The safety properties were also checked, outside the runs kept
  here, with three shells and up to two chunks (3,686,253 states).
* **AgentTunnel**: two `openShell` calls, two processes at a time, two
  connections, one superseded timer per process. A failed dial does not use a
  connection up, so retries are not bounded by `MaxConns`. Two connections are
  one drop and one reconnection, over a stale connection or after its end, with a
  gateway or agent restart anywhere. Two connections were not enough to find every
  race a property must excuse: a stale connection that delivers to the wrong
  device, say, takes a third and sometimes a fourth. Those were found when the
  proofs, which have no bound, did not go through, and then shown by TLC on a
  larger instance. The properties as they stand were also checked, outside the
  runs kept here, over three connections exhaustively to a depth of some thirty
  steps, and by random simulation with three terminals, three processes and four
  connections; the invariant `Homely` over three connections.
* **AgentStreams**: files of no chunk to four, a window of two bytes, a chunk of
  three (the window can be overdrawn), a `Readable` that has enough with one
  chunk, as with Node's 64 KiB, a write buffer of two bytes, and two connections.
  Four chunks are twice the window and twice the write buffer, so both ends run
  out of room and recover. The inductive invariants of section 6 were also checked
  with three connections (163,433 states).
* **SessionRecords**: two sessions of any kind and one listing, which is one more
  session than the listing needs to be right about the other. No bound on the
  races.
* **SignIn**: two tabs of one client, a second client that ends sessions from
  elsewhere, two workspaces, four tokens. Two tokens exist at the start, so two
  are issued: enough for both tabs to rotate the same token, and for one to
  rotate what the other was just given.
* **Billing**: two checkouts, two handlers. One purchase overtaken by another, and
  two events handled at once, need no third.
* **Enrolment**: two codes, two pairings, two withdrawals, one tunnel, three
  tokens: a first pairing, a second one across a withdrawal, and a third token for
  one more. The properties were also checked with two tunnels and one pairing.
* **Team**: two people, one host, two invitations, two requests under way, four
  calls in all; `devops` and `auditor` are given out besides `owner`, since only
  two governed roles, one of which may open sessions, show a grant that outlives a
  change from one to the other. Two people are the two last owners; four calls are
  an invitation, its acceptance, a removal and one more. Also checked: five calls
  (2,405,390 states), and three requests without races.
* **Outbox**: one row, two changes, one write by somebody else, two failures
  (968,183 states). The properties but `SyncsUnlessRaced` were also checked with three
  changes (5,824,967 states). `MaxFails` also bounds restarts, removals from the
  organization and withdrawals of the bundle, which then last as long as they like. No
  route and no `apply` looks at two rows, and the order of changes is that of
  their numbers, so a second row adds nothing that changes of one do not show.
* **MaxRaces**: `tunnel_safety`, `signin_safety`, `billing_safety`,
  `enrolment_safety`, `team_safety` and `outbox_safety` allow all races, but one
  different one per behaviour. A property excuses single races, so a behaviour
  with one race it does not excuse is what could violate it; what two races do
  together to a property that excuses neither is covered for `AgentTunnel`, which
  was also run with two and with three, and by the proofs, which have no bound.
* The runs of all modules but `Terminals` may stop once their connections, tokens,
  calls or changes are used up, hence `CHECK_DEADLOCK FALSE` there. `Terminals`
  never stops.
* Symmetry is declared in safety runs over what is interchangeable; the runs with
  liveness do without. `RemovedStaysOutUnlessRaced`, `OpensWithAccessUnlessRaced`,
  `EndsForAReasonUnlessRaced` and `ResumedShellSurvivesUnlessRaced` are about single
  steps, for which symmetry is sound.

## 4. Fairness

`Terminals!FairSpec` assumes fairness only of the gateway and of what it runs on. An opening settles: ssh2 has `readyTimeout`, the agent `OPEN_TIMEOUT_MS`,
a local spawn returns. A socket that is closing gets its close event: `ws`
terminates a handshake that does not complete. A grace timer fires. The handshake
of ssh2 ends, and a client that was ended closes. A process that was killed, or
whose connection is gone, exits. No browser is obliged to come back, to leave or
to close a session, and no shell to exit by itself. All of these actions stay
enabled until taken, or another action settles the same matter, so weak fairness
is enough.

`AgentStreams!FairStreamSpec` assumes that both ends handle what has arrived (the event
loop), that the call times out (`RPC_TIMEOUT_MS`), that a connection whose agent
is gone is found out by the heartbeat, that Node's `_read` is called while it
wants more, that the disk proceeds, and that the other party of the pipeline does:
`readTextFile` and `copyInto`, the users of a reader, read to the end or give up.
Not that the agent ever answers the opening, that a connection breaks, or that one
comes back.

`SessionRecords!RowsSpec` assumes that a request under way is handled to its end or
fails, that the grace timer of an attached session fires, and that somebody looks
at the list again: the console asks for it every time it is opened and after each
session, and nothing else reconciles. No client is obliged to close anything.

`Outbox!Spec` assumes that the application's timer starts a synchronization
(`local-data.ts:102`), that each request is answered or given up on after
`timedFetch`'s ten seconds, and that a server which has a request serves it.
Failures are bounded by `MaxFails`, so the claim is "once the network holds". Two
things that keep the queue back may last for ever, and no fairness ends them: another
identity answers, or the bundle is withheld. `SyncsUnlessRaced` is therefore conditional
on `<>[]Accepted`: once and as long as the person is signed in to the workspace, its
account is in its organization and its computer gets the bundle.

`SignIn`, `Billing`, `Enrolment` and `Team` state safety only and assume nothing.

## 5. What the runs check

| Run | Expect | What it shows |
|---|---|---|
| `terminals_safety` | pass | all interleavings with all four races allowed: the terminal's timer runs exactly while nobody is attached; the registered terminal is alive, each connected browser is its one reader, and last words are kept only on a countdown; one shell per session; closed is over; nothing printed is lost unannounced; the gateway ends a shell for a documented reason only |
| `terminals_promise` | pass | with the opening undisturbed, the gateway implements `ShellLife` with its fairness: a shell nobody comes back to ends |
| `tunnel_safety` | pass | a process serves only the terminal it was started for; an attached process is killed only when asked; a connected machine and a terminal are listed; without a tunnel every process is on a countdown; once both ends have heard all, a terminal has a live process and a process has a terminal; a terminal is told when its channel ends |
| `tunnel_reuse` | violation | a lost close frame and a forgotten device: the next terminal resumes the previous one's process (`registry.ts:187`), against `registry.ts:561` |
| `streams_safety` | pass | a completed upload is on disk and a completed download whole; at rest, nothing is left open for a transfer that is over; every transfer ends unless its connection was replaced under it |
| `records_safety` | pass | what the gateway runs is listed as running; a direct session's record says how it ended; an abandoned session's record ends |
| `signin_safety` | pass | a token of an ended sign-in is worth nothing; nobody is signed out by their own tabs or by what was done to others; the chosen workspace stays |
| `signin_final` | violation | a token rotated just before the sign-out outlives it by its grace window (`refresh-tokens.ts:16`), against `docs/api.md:72-74` |
| `billing_safety` | pass | the plan is what was bought or given last; an acknowledged refund has ended its plan and only that one; a donation's row ends as its payment did |
| `enrolment_safety` | pass | a withdrawn machine is cut off, a paired one admitted and in possession of a token that works, a stopped agent off |
| `team_safety` | pass | a workspace has an owner; a governed member's grants were given in their present role; nobody comes back but by an invitation sent since; a session opens under access that holds at that moment |
| `outbox_safety` | pass | a saved change stays stored until the server has it or it was given up, whatever restarts, sign-ins and failures come, up to three races named by the property; each is carried out once and in order; the person sees what they last made of their row; the queue empties once the server accepts the account and the computer |

The first line of a property names the races it excuses, and the comments in
front of `AllRaces` say what each race is. Those of `AgentTunnel` are for the most part a
missing word between the two ends. `abandonedOpen`: the gateway
forgets a channel without sending a close. `lostClose`, `expiry`, `restart`: the
gateway forgets a channel the agent still holds. `lateExit` and `sameTick`: an
exit is attributed to the wrong channel, or to nobody. `staleSocket`: the gateway
reads a frame from a connection already replaced, or opens a terminal over one that
has not said hello, so that the resumption which follows opens it twice.
`NoForeignShellUnlessRaced` has the longest list, all but `sameTick`: nothing in the
protocol but the history of ids keeps one terminal's process from the next, and
each of these can lose a part of it. `retryFails` and `lateExit` are among them since
a process whose second timer fires, or whose exit comes late, has its id cleared
from the agent's table, whichever process is there by then. With none of them the
ids suffice, and that is proved.

Those of `AgentStreams` likewise: `cancelledOpen`, `openTimeout`, `abandoned` are a
transfer given up without a word the agent can use; it keeps the file open.
`lateOpen` is an opening that `abortAll` does not know of. Its first chunks go to
nobody; if the machine is back before the old connection was seen to close
(`replaced`), the rest reaches the gateway and passes for the whole file, which
is the silent truncation `registry.ts:273` wants to exclude.

### Where code and documents disagree

Each of these is a race of a model, which a property must excuse to hold; TLC
finds the violation when the race is taken off the property's list. Two have a run
of their own, `tunnel_reuse` and `signin_final`.

* *Terminals.* `overlap`: two openings overlap and a shell that is being watched is
  ended (`terminals.ts:145`), against "ended by exactly three things"
  (`docs/architecture.md:172`); of three that overlap, the last can lose its entry to
  the exit of the other two, and then a close does not reach it. `dropWhileOpening`: a browser that leaves during an
  opening leaves a shell that never ends (`routes.ts:409`), against
  `docs/architecture.md:174`. `closeWhileOpening`: a close during an opening is
  forgotten (`routes.ts:779`), against `routes.ts:603`.
* *AgentTunnel.* `retryFails`: one failed dial and a resumed process is killed by
  the timer it outlived (`channels.ts:190`), against `docs/agent.md:175`.
* *AgentStreams.* `lateWriteError`: the last write fails after the gateway's
  stream-end, and the upload is reported complete (`files.ts:338`), against
  `file-transport.ts:137`.
* *SessionRecords.* `listedBefore`: a session opened while the list was on its way
  is closed in the database, against "a session being opened right now cannot be
  closed by a reconcile racing it" (`gateway.ts:134-139`). "Nothing creates a row
  without an id" there is not so for direct sessions (`desktop.ts:640`), and nothing
  ages their rows out, against `desktop.ts:711`. `closeAfterFailure`: a failed direct
  file session is recorded as closed.
* *SignIn.* Besides the grace window: `fork` (a workspace switch leaves the earlier
  token live, which `auth.ts:1345` says "nothing will present" again),
  `switchAfter` (`currentSession`, `auth.ts:234`, does not ask whether the token it
  continues is usable), `desktop` (the application's sign-out presents no token), and a
  refresh that found its row before the sign-out.
* *Billing.* `boughtBeforeAccount`: "lets a public-site buyer create their account
  shortly after payment and be linked on retry" (`stripe-webhooks.ts:125-126`), but
  the free subscription of the new account is newer than the checkout and wins
  (line 149). `reordered`: a refund before its purchase is dropped (230).
  `redelivered`: an event of a refunded purchase activates it again. `README.md:458`,
  "Billing webhooks are not wired", is out of date.
* *Enrolment.* `disconnectLost`: "Bounded exposure is the 15-minute JWT"
  (`docs/agent.md:264-266`), but a tunnel that is connected stays connected however
  old its JWT. `crossed`, `allowLost`: a paired machine stays denied, against
  "Pairing again lifts the denial immediately" (`docs/agent.md:475`).
  `stoppedAsking`: a tunnel stopped while it awaits a token connects
  (`tunnel.ts:133`). The answer 403 at `agents.ts:287` cannot be reached: a
  revocation clears the token's hash, and the token is then unknown.
* *Team.* `bothDown`: two owners demote each other, against "last-owner protection"
  (`README.md:433`). `adminEdit`: an administrator's change of a role checks nothing
  and drops no grant. `rejoined`: a removal leaves the grants, and a member
  invited again has them back.
* *Outbox.* `late`: a request given up on is served after its successors, against
  "Changes replay in order" (`docs/desktop.md:92`). Three ways to lose queued
  changes with nobody asked, against "it asks before dropping pending work"
  (`docs/desktop.md:105`): `sessionEnded`, a refresh answered 401 clears the queue
  (`session.ts:95`). `outOfSight`, the file was not read at the start, which promises
  "keeping the encrypted file intact" (`local-data.ts:94`), or is of another account or
  organization, and the next sign-in saves an empty workspace over it
  (`local-data.ts:121-127`); the error at `local-workspace.ts:360` even tells the
  person to sign in again. The same race is noted when another server is chosen while
  nobody is signed in, since `localSync` then says that nothing is pending
  (`local-data.ts:147`, `index.ts:271`). `removedWhileSyncing`, the account is removed
  from the organization after `me()`, the routes answer 404 for rows that are there,
  and a deletion is taken as done (`local-workspace.ts:431`). `rejected`: one change the
  server refuses holds up all behind it until they are discarded.

## 6. What is proved

Eight modules hold proofs. Each result is for every value of the module's
constants: any number of clients, people, tokens or rows, any bound, any set of
races. They rest on the assumptions the modules name (bounds are natural numbers,
`Races` are races, the placeholder values are no members of the sets) and on
nothing else.

| Module | About | Theorems |
|---|---|---|
| `TerminalsProofs` | `Terminals` | `TypeCorrect`, the backlog's bound included; `OneShellHolds` from `OneShellInductive`; `GraceHolds`; `EndsForAReasonHolds`, an action property; `NothingMissedHolds`; `ClosedMeansOverHolds`, `NoDeafSocketHolds` and `RegisteredIsSoundHolds` from `WelcomeInductive` and `WaitingInductive`; `KeepsTheSafetyOfThePromise`: as long as neither `overlap` nor `closeWhileOpening` happened, every step of `Terminals` is one of `ShellLife`, or none; `KeepsThePromiseUnlessRaced`, its corollary for behaviours without the two |
| | `SessionRecords` | `RowsTypeCorrect`; `LiveIsListedHolds`; `SaysHowItEndedHolds` |
| `AgentTunnelProofs` | `AgentTunnel` | `TypeCorrect`; `ConnectedIsListedHolds`; `ResumedShellSurvivesHolds`, an action property |
| `AgentTunnelShells` | `AgentTunnel` | `HeldOnCountdownHolds`; `NoDeadPromptHolds`; `NoOrphanHolds`; `RegistryIsTrueHolds`; `NoForeignShellHolds`: with the former module, all the run checks |
| `AgentProofs` | `AgentStreams` | `StreamTypeCorrect`; `NoIdleHandleHolds`; `TransferIsWholeHolds`: all but the liveness |
| | `Enrolment` | `TypeCorrect`; `OneEnrolmentHolds`; `StoppedIsOffHolds`; `WithdrawnIsCutHolds`; `PairedIsWelcomeHolds`; `HoldsItsTokenHolds`: all the run checks, and more |
| `SignInProofs` | `SignIn` | `TypeCorrect`; `SignOutIsFinalUnlessRacedHolds`; `ExpiredForGoodHolds`, an action property; `StaysSignedInHolds`; `SwitchSticksHolds`: all the run checks, and more |
| `BillingProofs` | `Billing` | `TypeCorrect`; `LatestWinsHolds`; `RefundEndsItsPlanHolds`; `DonationTellsHolds`: all the run checks |
| `TeamProofs` | `Team` | `TypeCorrect`; `AlwaysAnOwnerHolds`; `StartsFromNoAccessHolds`; `OpensWithAccessHolds` and `RemovedStaysOutHolds`, action properties: all the run checks |
| `OutboxProofs` | `Outbox` | `TypeCorrect`; `NothingLostHolds`; `OnceInOrderHolds` |

*Terminals.* "One shell" is not inductive: why does a second socket not start
a second shell? Because it finds the first one registered, or finds the session
over. So the invariant carries both. As long as no opening overlapped another:
at most one handler is opening, and while one is, no shell exists
(`OneOpener`, `FirstOpening`); a running shell is the registered one
(`RunningIsRegistered`); what is registered was made, and what is marked as
exited has exited (`RegisteredIsMade`, `ExitedHasExited`); an ssh client that
is still connecting has no shell (`NothingBeforeReady`); and once a shell has
been let go of, the session's status or its ssh client forbids opening another
(`LetGoIsOver`). The last is the heart of it: each path that unregisters a
terminal must also close the session or its client, and the proof goes through
them one by one. `GraceIsRight` is carried along since the timer is the other
way a shell ends. `Race` makes `raced` grow only, so a step out of a state
without an overlap is either no overlap or makes the claim vacuous.

That a closed session stays over needs the other end of an opening:
`OpeningIsWelcome` says that while a socket is opening, the session has not been
closed and its client is not being ended, `ClosedIsOver` that afterwards nothing is
left for an opening to find, and `EntryLives` that a registered shell runs or has
exited and is known to have. Each holds only with the others (`WelcomeInvariant`).
`Waiting`, which no race disturbs, adds that a registered terminal without a reader is
on a countdown. `NothingMissed` rests on two facts about the backlog: a shell
that was not started has said nothing, and whoever is attached has been handed
all of it. `KeepsTheSafetyOfThePromise` takes the actions one at a time: under
`WelcomeInvariant` and `OneShellInvariant` each is a step of `ShellLife` through the
refinement mapping of `Terminals!Promise`, or leaves its variables alone. Both
invariants say nothing once openings overlapped or a close came during an opening,
and the code allows both. So the theorem speaks of each step from a state before
which neither happened, in any behaviour, and of nothing afterwards; there the
implementation does break the promise, as section 5 says. The step in which one of the
two happens for the first time is still covered.

*SessionRecords.* Why is no live session closed by a listing? A session that was
`known` when the gateway answered and is not on the list it gave is over
(`UnlistedIsOver`), and a session whose row exists, that is shown or is being closed,
was answered for (`ShownIsAnswered`), so that a listing knows it. A close that is past
its call to the gateway has ended the session, or could not, which is a race
(`CloseMarksTheEnded`). For direct sessions, `ReportsSoFar` bounds what the
application may have said by where its connection is, and `LastWord` says that the
last of it is on its way or in the row.

*AgentTunnel.* The base of everything is `Base`: types and places (`Typed`), the
gateway's registry (`Registered`), which end of a connection may be in which state
and what may still be in a queue (`Wired`), channel ids that are different for each
terminal of a device and below its counter (`Numbered`), frames that are about a
terminal with their id on their device (`Addressed`), processes that were started
for and serve a terminal with their id (`Served`), and timers that only detached
processes have (`Sheltered`). From `Sheltered` it follows that an attached process
has no timer that could kill it.

What the two ends believe of each other is next. As long as none of the drops'
races happened, the agent's table is exact (`Counting`); a process in use means a
tunnel on which hello was said, to the device of the terminal it serves (`Tended`);
a connection carries one opening per id at most, none before hello, and none for
an id that is in use (`Orderly`, with `Met` for the gateway's end); and a terminal
the gateway lists is claimed by a process or an opening under way, or a refusal of it
is on its way back (`Shown`). Nothing under way and no refusal: that is
`NoDeadPrompt`. `Answerable`, `Spent` and `LastWord` say what an error or an exit
means when it arrives, so that a terminal leaves the list only when nothing claims
it. The converse, `NoOrphan`, is `Wanted`: a process in use serves a terminal the
gateway lists, or the close for it is in the queue, behind the opening (`InTurn`).
`ExitIsHeard` needs `Heard`: an open terminal is listed, and an exit does not come
before the answer it would overtake.

For `NoForeignShell` the question is what else may have an id's past. `Homely` joins
four facts: a process serves its owner; whatever the agent has or is about to be
asked for is listed by the gateway or has a close under way (`Owned`); all listed
terminals are of the one device of the tunnel, whose counter never goes back
(`Sole`); and once a refusal or an exit of an id is on its way nothing of that id
lives (`Final`). None of the four is inductive without the rest.

*AgentStreams.* `Transfer` is what every value is: frames wait on connections the
gateway still reads or the agent still uses, chunks go one way and credit the other,
and the call that opens the stream is the first frame of all. `Begun` says where the
opening is: asked for, answered once, in time for its connection or `cut`. On it
rests `NoIdleHandle`, through `EndIsComing`: unless the transfer was given up,
a stream that is not closed on the agent has a listed end on the gateway or a
stream-end on its way. Wholeness is counting along the one connection a transfer
lives on. *Downloads*: the data frames in the queue continue what was taken and
what is buffered without a gap (`Coming`), what the agent reads next comes after
the last of them (`Ahead`), and nothing follows an end (`Closing`), so an end that
arrives finds the whole file. *Uploads*: the frames in the other queue continue
what the agent has received, the end comes after the last chunk, and what the
gateway will write next after the last frame (`Flow`); before the agent has
answered nothing is sent (`Silent`); and a stream-end from the agent means that the
whole is flushed (`Stored`). When credit is given or withheld plays no part in
it: flow control matters to liveness, which is TLC's.

*SignIn.* A usable token of an ended family is excused. Ending a family expires its
live tokens and notes `grace` for the rotated ones, and every family a step ends is
one of an issued row of the same client (`RowsAreOfFamilies`, `OverIsIssued`), so
at the moment of ending all is well (`EndingIsExcused`). Afterwards a usable token
can only appear by an issue, and the issue continues a token some tab had sent
(`TokensAreIssued`). If that was a refresh past its check while the family was
ended, `inFlight` was noted then: that is `RefreshIsExcused`, the strengthening
without which the property is not inductive. `IssuingIsExcused` is the other half.

`StaysSignedIn` follows a client's token the other way: the one it holds is of its own
sign-in (`HeldIsMine`); a token expires only when its sign-in is ended
(`EndedIsOver`); an answer on its way brings a token nobody has used yet
(`AnswersAreNew`), so that its arrival never puts back an old one; a token that is past
its grace is held only by somebody `slow` (`StaleIsSlow`); and a request answered
with a cleared cookie was refused for one of these (`ClearsForAReason`,
`ClearedForAReason`). For `SwitchSticks`, `OneAtATime` says that without an `overlap` no
request that brings a token runs beside a switch, and `RefreshFollows` that a refresh,
wherever it is, is for the workspace chosen last.

*Enrolment.* `Well` says that every name in use was issued: tokens in order, each row
named by its first token, one row per machine, and whatever is under way knows what
it is about. `Agrees` joins what the API decided to what the gateway knows: a
withdrawal and a pairing of one machine are not both being told to the gateway
unless `crossed` (`Uncrossed`); a withdrawn machine is connected only while the call
that says so is under way (`Cut`), where a token asked for before the withdrawal
meets the deny list; a paired one is denied only while its call is (`Welcome`). The
three are inductive together only. `Alone`, one pairing at a time unless
`pairedTwice`, carries `HoldsItsToken`.

*Billing.* `Sound` joins types to what they stand for: Stripe's events of a checkout are
those of its state (`Stories`), an invoice is of a payment that happened, and so is
what a handler carries. On it rest three invariants. *Donations*: while no event was
handled out of turn or again, every acknowledged event precedes every due one
(`InOrder`), so the last one handled is the payment's last word; and a refund finds
its donation since its payment was heard of first (`Linked`). *Refunds*: while no two
handlers were past their reads, there is one subscription and what a handler has read
is still so (`OneAtATime`); a paid event that was acknowledged left an invoice
(`PaidIsBooked`), which the refund that follows it finds; and nothing applies a purchase
after its refund (`NotAfterRefund`). *The latest*: the program compares when a
subscription starts with when a checkout was opened, the property when things were paid
for or given. The two orders agree as long as nothing came between (`NotOvertaken`),
no two moments being the same (`Moments`) and every row starting when its source
says (`RowsHaveStarts`): that is `PurchaseIsCompared`. All three are proved for any
checkouts and handlers and without a bound on the races.

*Team.* Whoever has counted the owners and is about to take one down leaves
another (`AnotherOwner`), and nobody else is about to (`OneAtATime`): a second
count that succeeds while a first is pending is the race `bothDown`. Types are
not a formality here: a request carries what it read, and `KnowsAll` says that it
is about people and hosts that exist or existed.

`AllAccounted` is `StartsFromNoAccess` with what it lacks: a governed member has only
grants given in their role, and one who reaches every host by role has none at all
unless the change that gave them that role has yet to drop them; `AllStand` says that
a request past its read knows a member. `Opening` follows a request to open a session
from await to await: whoever it is for may open it now, or it will be refused by what
it has already read; a role or a grant withdrawn on the way is the race.
That race was first noted too narrowly: somebody made an auditor while opening, and
given a grant afterwards, got a session that no race excused. It now counts
a withdrawn role as well as a withdrawn way to the host. For `RemovedStaysOut`, an
invitation that is pending is for somebody who is not a member and was sent since
they were last removed, and is their only one (`Invited`); a request to accept
carries one of them, or one that was accepted or deleted meanwhile (`Offers`).

*Outbox.* `NothingLost` is about what is stored, while the code works on what is in
memory; the two differ after a start that could not read the file, and after a
sign-in that could not save. So the invariant relates them: memory holds the stored
queue or none (`Queueing`), and a signed-in workspace, the only one that is written,
shows what it will write over, unless the difference was excused when it arose
(`InSight`). A change leaves the queue only at its head, when an answer says that it is
done, so an answer that lets a change go must have been given after the change was
carried out (`Waits`), for one request at most is waited for and it is that of the
head. A stranger's 404 would break this; but past `me()` the account is a member,
or was removed meanwhile, which is a race (`Belongs`). `Ordered` adds that nothing
newer than the head of the stored queue was ever carried out and that a creation or
deletion already carried out still shows, which is what makes its second sending
harmless; a late request and a deletion elsewhere break just this. None of the
three excused races can be left out of `NothingLostUnlessRaced`: TLC finds the loss
when one is.

*Only model-checked*: what needs fairness or `ENABLED`, that is the liveness of the
refinement of `ShellLife`, `SettlesUnlessRaced`, `AbandonedRowEndsUnlessRaced` and
`SyncsUnlessRaced`; and `ShowsMineUnlessRaced`, whose overlay is a fold over the queue,
so that its value needs induction over data. Every other property of a passing run
is a theorem. No module declares a recursive operator.

*What the proofs changed.* Some properties were false in instances larger than those
checked, and the failed proof showed where: `ClosedMeansOverUnlessRaced` had to
excuse three overlapping openings; the lists of races of `NoForeignShellUnlessRaced`,
`NoDeadPrompt` and `ExitIsHeard` were too short; `Team`'s `Withdrawn` missed a case. Each
was confirmed by TLC on an instance that large before it was corrected.

## 7. Not modelled, and why

* Typing, resizing, encoding and wording: passed through without a decision.
* Typing by a socket that has been sent away but is not closed yet reaches the
  shell (`routes.ts:404`). Input is not part of `Terminals`.
* The consent prompt and the loopback ticket, both before a session exists.
* The replay buffer of the agent (`channels.ts:151`), data frames, the limit
  `MAX_CHANNELS` as a number (a refusal is possible at any time instead), and a
  device that moves to another organization, which is a
  `KillDevice` followed by an `Accept` in one step.
* Of the file streams: the metadata calls, paths, `MAX_STREAMS` as a number, a
  restart of the gateway, and what a stream left open on the agent does to the
  next transfer that is given its channel id.
* Of sign-in: passwords, second factors, Google, and the 12 hours and 30 days a token
  lasts. Of billing: amounts, currencies, documents, Stripe's signature. Of enrolment:
  several organizations, names, platforms. Of the organization: host groups,
  credentials, import and transfer of hosts. Of the application: several
  collections at once, offline grants and local secrets, roles checked locally, and
  the work of a second account on the same computer: `Outbox` has it sign in and
  take the place of what is saved, and makes no changes for it. A sign-in by
  somebody who is signed in already is left out too: the window offers none.
* `Billing!AssignPlan` is one step. In the code the administrator's read and write
  (`admin.ts:628-656`) are two statements without a transaction, so a purchase may be
  applied whole between them; that case is not modelled. And the program compares
  Stripe's whole seconds with its own milliseconds (`stripe-webhooks.ts:130`), so
  that two moments of one second may be equal or change places; the model has one
  clock, on which no two moments are the same.
* The React screens, the Electron window, content pages, the AI routes and the rest of
  the administration: each a request that reads or writes one thing, with no state
  of its own that two of them could disagree about. They are most of the
  repository's lines.
* Time: timers fire at any moment after they are set. A property that needs one
  timer to be shorter than another is therefore not claimed.

## 8. Plan

1. Further modules: host import and transfer, offline grants and local secrets, and
   the file browser's copy between two machines, which runs a download and an upload
   of `AgentStreams` against each other.
2. A restart of the gateway in `AgentStreams`, and the next transfer that is given
   the id of one the agent still holds.
3. `Billing!AssignPlan` in two steps, and the work of a second account in `Outbox`.
4. `ShowsMineUnlessRaced`: an overlay defined without a fold could be proved about.
