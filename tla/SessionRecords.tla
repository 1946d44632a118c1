--------------------------- MODULE SessionRecords ---------------------------
(***************************************************************************)
(* The API's Session rows against the sessions they are about.             *)
(*                                                                         *)
(* A relayed session lives in the gateway's memory; the API opens it there *)
(* first and writes the row second, closes it there first and marks the    *)
(* row second, and asks the gateway for its list whenever somebody looks   *)
(* at the sessions (routes/modules/sessions.ts, lib/gateway.ts).  A direct *)
(* session lives in the desktop application, which reports what became of  *)
(* it in requests nobody waits for (routes/modules/desktop.ts,             *)
(* desktop/src/main/runtime/{ssh,files}.ts).                               *)
(*                                                                         *)
(* Every call between two of these programs may fail, and an action is the *)
(* code between two awaits.                                                *)
(*                                                                         *)
(* TerminalsProofs reasons about this module and Terminals side by side:   *)
(* the names both would have are RowsInit, RowsNext, RowRaces... here.     *)
(***************************************************************************)
EXTENDS FiniteSets

CONSTANTS
  Rows,     \* sessions somebody asks for; each gets at most one row
  Lists,    \* concurrent GET /sessions requests
  RowRaces  \* which of the races below may happen

\* What can come between a session and its row.
\* "listedBefore": the gateway was asked for its list before the session was
\*   opened there, and the rows were closed after this one was written.
\* "answerLost": the gateway opened the session, but its answer did not arrive.
\* "insertFails": the row of an opened session, or of a failure, is not written.
\* "closeCallFails": the call that should end the session in the gateway fails.
\* "leftUnattached": the client goes without a close and without ever having
\*   attached a terminal, as it does with every file session it leaves open.
\* "appGoes": the desktop application goes with its sessions, or never gets
\*   the lease it asked for.
\* "reportLost": a report of the application does not arrive.
\* "reordered": a report is handled before an earlier one.
\* "closeAfterFailure": a failed file session is also reported closed.
AllRowRaces == {"listedBefore", "answerLost", "insertFails", "closeCallFails",
             "leftUnattached", "appGoes", "reportLost", "reordered", "closeAfterFailure"}

ASSUME RowRacesAssumption == RowRaces \subseteq AllRowRaces

VARIABLES
  kind,     \* what is asked for: fixed from the start
  row,      \* the status of the row, "none" before there is one
  gateway,  \* the GatewaySession: absent, listed, or closed, failed or forgotten
  api,      \* where POST /sessions is
  console,  \* the client that asked for a relayed session
  attached, \* a terminal was attached to the session at some time
  closing,  \* where POST /sessions/:id/close is
  seen,     \* GET /sessions: {the live sessions the gateway listed}, or {}
  app,      \* the desktop application's connection, for a direct session
  reports,  \* its reports on their way to the API
  known,    \* history: the sessions already opened when a list was heard
  touched   \* history: the races that have touched each session

clientVars == <<api, console, attached, closing>>
directVars == <<app, reports>>
listVars == <<seen, known>>
rowVars == <<kind, row, gateway, clientVars, directVars, listVars, touched>>

Relayed == {"shell", "files"}
Direct == {"directShell", "directFiles"}
Open == {"PENDING", "ACTIVE"}
Ended == {"FAILED", "CLOSED"}

ApiStates == {"idle", "asked", "answered", "failing", "done"}
ConsoleStates == {"none", "waiting", "open", "gone"}
AppStates == {"none", "dialling", "up", "failing", "failed", "ended", "gone"}
Reports == {"opened", "failed", "closed"}

RowsTypeOK ==
  /\ kind \in [Rows -> Relayed \cup Direct]
  /\ row \in [Rows -> {"none"} \cup Open \cup Ended]
  /\ gateway \in [Rows -> {"none", "live", "over"}]
  /\ api \in [Rows -> ApiStates]
  /\ console \in [Rows -> ConsoleStates]
  /\ attached \in [Rows -> BOOLEAN]
  /\ closing \in [Rows -> {"idle", "asked", "called"}]
  /\ seen \in [Lists -> SUBSET SUBSET Rows]
  /\ app \in [Rows -> AppStates]
  /\ reports \in [Rows -> SUBSET Reports]
  /\ known \in [Lists -> SUBSET Rows]
  /\ touched \in [Rows -> SUBSET RowRaces]

-----------------------------------------------------------------------------
(* Helpers.  A definition named ...Bug is a plausible mistake in the one     *)
(* after it, kept to show that the properties notice it.                     *)

\* If the condition holds, the step is race x for session r: it must be
\* allowed, and is noted.
RowRace(r, x, condition) ==
  IF condition THEN x \in RowRaces /\ touched' = [touched EXCEPT ![r] = @ \cup {x}]
               ELSE UNCHANGED touched

\* gatewaySessionId is written with the row, and only a relayed session that
\* the gateway opened has one.
GatewaySessionId(r) == kind[r] \in Relayed /\ row[r] \notin {"none", "FAILED"}

Live == {r \in Rows : gateway[r] = "live"}

\* liveGatewaySessionIds: an answer that is not an array tells nothing, and is
\* not an empty list.
LiveGatewaySessionIdsBug(readable) == IF readable THEN {Live} ELSE {{}}
LiveGatewaySessionIds(readable) == IF readable THEN {Live} ELSE {}

\* The rows updateMany closes: those of a session the gateway did not list.
StaleRowsBug(listed) ==
  IF listed = {} THEN {}
  ELSE {r \in Rows : row[r] \in Open /\ GatewaySessionId(r) /\ r \notin listed}
StaleRows(listed) ==
  {r \in Rows : row[r] \in Open /\ GatewaySessionId(r) /\ r \notin listed}

\* What a report makes of the status.
StatusBug(state) == IF state = "opened" THEN "ACTIVE" ELSE state
Status(state) ==
  CASE state = "opened" -> "ACTIVE"
    [] state = "failed" -> "FAILED"
    [] OTHER -> "CLOSED"

\* reportState: a request nobody waits for.
Report(r, state) == reports' = [reports EXCEPT ![r] = @ \cup {state}]

\* The application reports in the order opened, failed, closed.
EarlierThan(state) ==
  CASE state = "opened" -> {} [] state = "failed" -> {"opened"} [] OTHER -> {"opened", "failed"}

-----------------------------------------------------------------------------
RowsInit ==
  /\ kind \in [Rows -> Relayed \cup Direct]
  /\ row = [r \in Rows |-> "none"]
  /\ gateway = [r \in Rows |-> "none"]
  /\ api = [r \in Rows |-> "idle"]
  /\ console = [r \in Rows |-> "none"]
  /\ attached = [r \in Rows |-> FALSE]
  /\ closing = [r \in Rows |-> "idle"]
  /\ seen = [l \in Lists |-> {}]
  /\ app = [r \in Rows |-> "none"]
  /\ reports = [r \in Rows |-> {}]
  /\ known = [l \in Lists |-> {}]
  /\ touched = [r \in Rows |-> {}]

(* Opening a relayed session: POST /sessions in the API.                     *)

\* Access to the host has been checked and the gateway is called.
AskGateway(r) ==
  /\ kind[r] \in Relayed /\ api[r] = "idle"
  /\ api' = [api EXCEPT ![r] = "asked"]
  /\ console' = [console EXCEPT ![r] = "waiting"]
  /\ UNCHANGED <<kind, row, gateway, attached, closing, listVars, directVars, touched>>

\* POST /sessions in the gateway: the session is in its map from here on,
\* whatever becomes of the connection behind it.
GatewayOpens(r) ==
  /\ api[r] = "asked" /\ gateway[r] = "none"
  /\ gateway' = [gateway EXCEPT ![r] = "live"]
  /\ UNCHANGED <<kind, row, clientVars, listVars, directVars, touched>>

\* 409: that machine is not connected, or its owner declined.  No row is written.
GatewayRefuses(r) ==
  /\ api[r] = "asked" /\ gateway[r] = "none"
  /\ api' = [api EXCEPT ![r] = "done"]
  /\ console' = [console EXCEPT ![r] = "gone"]
  /\ UNCHANGED <<kind, row, gateway, attached, closing, listVars, directVars, touched>>

GatewayAnswers(r) ==
  /\ api[r] = "asked" /\ gateway[r] # "none"
  /\ api' = [api EXCEPT ![r] = "answered"]
  /\ UNCHANGED <<kind, row, gateway, console, attached, closing, listVars, directVars, touched>>

\* fetch throws, or the answer is not a 2xx.
GatewayFails(r) ==
  /\ api[r] = "asked"
  /\ api' = [api EXCEPT ![r] = "failing"]
  /\ RowRace(r, "answerLost", gateway[r] # "none")
  /\ UNCHANGED <<kind, row, gateway, console, attached, closing, listVars, directVars>>

\* The row of an opened session, and the 201 that follows it.
CreateRow(r) ==
  /\ api[r] = "answered"
  /\ api' = [api EXCEPT ![r] = "done"]
  /\ row' = [row EXCEPT ![r] = "ACTIVE"]
  /\ UNCHANGED <<kind, gateway, console, attached, closing, listVars, directVars, touched>>

\* The row of an opening that failed, and the 502.
RecordFailure(r) ==
  /\ api[r] = "failing"
  /\ api' = [api EXCEPT ![r] = "done"]
  /\ row' = [row EXCEPT ![r] = "FAILED"]
  /\ console' = [console EXCEPT ![r] = "gone"]
  /\ UNCHANGED <<kind, gateway, attached, closing, listVars, directVars, touched>>

\* The insert throws: a 500, and nothing is undone.
InsertFails(r) ==
  /\ api[r] \in {"answered", "failing"}
  /\ api' = [api EXCEPT ![r] = "done"]
  /\ console' = [console EXCEPT ![r] = "gone"]
  /\ RowRace(r, "insertFails", TRUE)
  /\ UNCHANGED <<kind, row, gateway, attached, closing, listVars, directVars>>

(* The client of a relayed session: a console tab or a file pane.            *)

ShowSession(r) ==
  /\ console[r] = "waiting" /\ GatewaySessionId(r)
  /\ console' = [console EXCEPT ![r] = "open"]
  /\ UNCHANGED <<kind, row, gateway, api, attached, closing, listVars, directVars, touched>>

\* The terminal's WebSocket reaches the gateway and a shell opens for it.
AttachTerminal(r) ==
  /\ console[r] = "open" /\ kind[r] = "shell" /\ gateway[r] = "live" /\ ~attached[r]
  /\ attached' = [attached EXCEPT ![r] = TRUE]
  /\ UNCHANGED <<kind, row, gateway, api, console, closing, listVars, directVars, touched>>

\* The page is quit, crashes, or loses the close it sent.
PageGoes(r) ==
  /\ console[r] \in {"waiting", "open"}
  /\ console' = [console EXCEPT ![r] = "gone"]
  /\ RowRace(r, "leftUnattached", ~attached[r])
  /\ UNCHANGED <<kind, row, gateway, api, attached, closing, listVars, directVars>>

CloseTab(r) ==
  /\ console[r] = "open"
  /\ console' = [console EXCEPT ![r] = "gone"]
  /\ closing' = [closing EXCEPT ![r] = "asked"]
  /\ UNCHANGED <<kind, row, gateway, api, attached, listVars, directVars, touched>>

(* POST /sessions/:id/close in the API: the gateway first, the row second,   *)
(* whether or not the call succeeded.                                        *)

EndGatewaySessionBug(r) == UNCHANGED gateway
EndGatewaySession(r) == gateway' = [gateway EXCEPT ![r] = "over"]

CloseInGateway(r) ==
  /\ closing[r] = "asked"
  /\ closing' = [closing EXCEPT ![r] = "called"]
  /\ EndGatewaySession(r)
  /\ UNCHANGED <<kind, row, api, console, attached, listVars, directVars, touched>>

CloseCallFails(r) ==
  /\ closing[r] = "asked"
  /\ closing' = [closing EXCEPT ![r] = "called"]
  /\ RowRace(r, "closeCallFails", TRUE)
  /\ UNCHANGED <<kind, row, gateway, api, console, attached, listVars, directVars>>

CloseRow(r) ==
  /\ closing[r] = "called"
  /\ closing' = [closing EXCEPT ![r] = "idle"]
  /\ row' = [row EXCEPT ![r] = "CLOSED"]
  /\ UNCHANGED <<kind, gateway, api, console, attached, listVars, directVars, touched>>

(* What ends a session in the gateway besides a close.                       *)

\* The shell exits, or the connection behind the session is lost.
FarEndGoes(r) ==
  /\ gateway[r] = "live"
  /\ gateway' = [gateway EXCEPT ![r] = "over"]
  /\ UNCHANGED <<kind, row, clientVars, listVars, directVars, touched>>

\* The grace timer of a terminal nobody came back to; see module Terminals.
GraceElapses(r) ==
  /\ attached[r] /\ console[r] = "gone"
  /\ FarEndGoes(r)

GatewayRestarts ==
  /\ Live # {}
  /\ gateway' = [r \in Rows |-> IF r \in Live THEN "over" ELSE gateway[r]]
  /\ UNCHANGED <<kind, row, clientVars, listVars, directVars, touched>>

(* reconcileSessions, before every GET /sessions of the API.                 *)

ListGateway(l) ==
  /\ seen[l] = {}
  /\ \E readable \in BOOLEAN : seen' = [seen EXCEPT ![l] = LiveGatewaySessionIds(readable)]
  /\ known' = [known EXCEPT ![l] = IF seen'[l] = {} THEN {} ELSE {r \in Rows : gateway[r] # "none"}]
  /\ UNCHANGED <<kind, row, gateway, clientVars, directVars, touched>>

CloseStaleRows(l) ==
  /\ \E listed \in seen[l] :
     LET stale == StaleRows(listed)
         late == stale \ known[l]
     IN
     /\ late # {} => "listedBefore" \in RowRaces
     /\ touched' = [r \in Rows |-> touched[r] \cup IF r \in late THEN {"listedBefore"} ELSE {}]
     /\ row' = [r \in Rows |-> IF r \in stale THEN "CLOSED" ELSE row[r]]
  /\ seen' = [seen EXCEPT ![l] = {}]
  /\ known' = [known EXCEPT ![l] = {}]
  /\ UNCHANGED <<kind, gateway, clientVars, directVars>>

(* A direct session: the row is written with the lease, and the rest is what *)
(* the application says.                                                     *)

LeaseFor(r) ==
  /\ kind[r] \in Direct /\ app[r] = "none"
  /\ row' = [row EXCEPT ![r] = "PENDING"]
  /\ app' = [app EXCEPT ![r] = "dialling"]
  /\ UNCHANGED <<kind, gateway, clientVars, listVars, reports, touched>>

Connects(r) ==
  /\ app[r] = "dialling"
  /\ app' = [app EXCEPT ![r] = "up"]
  /\ Report(r, "opened")
  /\ UNCHANGED <<kind, row, gateway, clientVars, listVars, touched>>

\* A terminal settles once.  A file session does not ask whether it had opened,
\* and has a close event still to come.
ConnectionFails(r) ==
  /\ app[r] = "dialling" \/ (app[r] = "up" /\ kind[r] = "directFiles")
  /\ app' = [app EXCEPT ![r] = IF kind[r] = "directFiles" THEN "failing" ELSE "failed"]
  /\ Report(r, "failed")
  /\ UNCHANGED <<kind, row, gateway, clientVars, listVars, touched>>

FilesClose(r) ==
  /\ app[r] = "failing"
  /\ app' = [app EXCEPT ![r] = "failed"]
  /\ Report(r, "closed")
  /\ RowRace(r, "closeAfterFailure", TRUE)
  /\ UNCHANGED <<kind, row, gateway, clientVars, listVars>>

DisconnectsBug(r) ==
  /\ app[r] = "up"
  /\ app' = [app EXCEPT ![r] = "ended"]
  /\ Report(r, "failed")
  /\ UNCHANGED <<kind, row, gateway, clientVars, listVars, touched>>
Disconnects(r) ==
  /\ app[r] = "up"
  /\ app' = [app EXCEPT ![r] = "ended"]
  /\ Report(r, "closed")
  /\ UNCHANGED <<kind, row, gateway, clientVars, listVars, touched>>

AppGoes(r) ==
  /\ app[r] \in {"dialling", "up", "failing"}
  /\ app' = [app EXCEPT ![r] = "gone"]
  /\ RowRace(r, "appGoes", TRUE)
  /\ UNCHANGED <<kind, row, gateway, clientVars, listVars, reports>>

\* POST /desktop/sessions/:id/state takes every report as it comes.
HandleReport(r, state) ==
  /\ state \in reports[r]
  /\ reports' = [reports EXCEPT ![r] = @ \ {state}]
  /\ row' = [row EXCEPT ![r] = Status(state)]
  /\ RowRace(r, "reordered", reports[r] \cap EarlierThan(state) # {})
  /\ UNCHANGED <<kind, gateway, clientVars, listVars, app>>

LoseReport(r, state) ==
  /\ state \in reports[r]
  /\ reports' = [reports EXCEPT ![r] = @ \ {state}]
  /\ RowRace(r, "reportLost", TRUE)
  /\ UNCHANGED <<kind, row, gateway, clientVars, listVars, app>>

-----------------------------------------------------------------------------
\* Steps the servers take by themselves once they can.
Handle(r) ==
  \/ GatewayOpens(r) \/ GatewayRefuses(r) \/ GatewayAnswers(r) \/ GatewayFails(r)
  \/ CreateRow(r) \/ RecordFailure(r) \/ InsertFails(r)
  \/ CloseInGateway(r) \/ CloseCallFails(r) \/ CloseRow(r)
  \/ GraceElapses(r) \/ FilesClose(r)
  \/ \E state \in Reports : HandleReport(r, state) \/ LoseReport(r, state)

Happen(r) ==
  \/ AskGateway(r) \/ ShowSession(r) \/ AttachTerminal(r) \/ PageGoes(r) \/ CloseTab(r)
  \/ FarEndGoes(r)
  \/ LeaseFor(r) \/ Connects(r) \/ ConnectionFails(r) \/ Disconnects(r) \/ AppGoes(r)

RowsNext ==
  \/ \E r \in Rows : Handle(r) \/ Happen(r)
  \/ \E l \in Lists : ListGateway(l) \/ CloseStaleRows(l)
  \/ GatewayRestarts

\* The servers go on, a grace timer fires, and somebody keeps looking at the
\* list of sessions; nobody has to open, close or report anything.
RowsFairness ==
  /\ \A r \in Rows : WF_rowVars(Handle(r))
  /\ \A l \in Lists : WF_rowVars(ListGateway(l) \/ CloseStaleRows(l))

RowsSpec == RowsInit /\ [][RowsNext]_rowVars /\ RowsFairness

-----------------------------------------------------------------------------
Untouched(r, R) == touched[r] \cap R = {}

\* A session the gateway holds is one the API lists as open: nobody is told
\* that a session is over while it runs, no file pane is refused one it has
\* just opened (sessions.ts:108), and nothing runs that no row can close.
LiveIsListedUnlessRaced ==
  \A r \in Rows :
    /\ gateway[r] = "live" /\ api[r] = "done"
    /\ Untouched(r, {"listedBefore", "answerLost", "insertFails", "closeCallFails"})
    => row[r] = "ACTIVE"

\* desktop.ts:632: "an invisible session would be worse than no feature".
\* Once the application has said all it has to say, the row of a direct session
\* is closed if it had opened and failed if it had not.
SaysHowItEndedUnlessRaced ==
  \A r \in Rows :
    /\ app[r] \in {"ended", "failed"} /\ reports[r] = {}
    /\ Untouched(r, {"reportLost", "reordered", "closeAfterFailure"})
    => row[r] = IF app[r] = "ended" THEN "CLOSED" ELSE "FAILED"

\* Nobody uses the session any more, or there is nothing left of it to use.
Abandoned(r) ==
  IF kind[r] \in Relayed THEN gateway[r] # "live" \/ console[r] = "gone"
                         ELSE app[r] \in {"ended", "failed", "gone"}

\* lib/gateway.ts:88: a row must not stay open "for good" because a browser was
\* quit, nor, desktop.ts:711, because an application crashed: it ends once
\* nobody uses its session, as long as somebody looks at the list.
AbandonedRowEndsUnlessRaced ==
  \A r \in Rows :
    (row[r] \in Open /\ Abandoned(r))
      ~> (row[r] \notin Open
           \/ ~Untouched(r, {"leftUnattached", "appGoes", "reportLost", "reordered"}))

=============================================================================
