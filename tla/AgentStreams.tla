---------------------------- MODULE AgentStreams ----------------------------
(***************************************************************************)
(* One file transfer between the gateway and an enrolled machine.          *)
(*                                                                         *)
(* apps/gateway/src/agents/file-transport.ts reads a file of the machine   *)
(* with an AgentReadable and writes one with an AgentWritable;             *)
(* apps/agent/src/files.ts answers.  An fs.openRead or fs.openWrite call   *)
(* opens the stream, its bytes travel as data frames under a credit        *)
(* window, and stream-end or stream-error ends it.  Both ends keep it      *)
(* under its channel id and no operation looks at two ids.                 *)
(*                                                                         *)
(* A connection is as in AgentTunnel: a pair of queues, seen to close by   *)
(* either end at any moment.  Streams do not survive one.                  *)
(***************************************************************************)
EXTENDS Integers, Sequences, FiniteSets
LOCAL INSTANCE Functions

CONSTANTS
  Files,         \* the files that may be transferred: sequences of chunk sizes
  Window,        \* STREAM_WINDOW_BYTES
  ReadMark,      \* chunks at which the gateway's Readable has enough
  WriteMark,     \* bytes at which the agent's WriteStream is full
  MaxConns,      \* bound: connections of the transfer's life
  StreamRaces    \* which of the races below may happen

(* Coincidences the code does not exclude. *)
\* "cancelledOpen": a download is cancelled before the agent has opened it.
\* "openTimeout": the call that opens the stream times out, and nothing tells the agent.
\* "lateOpen": the agent opens a file for a connection that is gone.
\* "abandoned": the source of an upload fails, and nothing tells the agent.
\* "replaced": the machine is back before its old connection was seen to close.
\* "lateWriteError": writing fails after the gateway has sent everything.
AllStreamRaces == {"cancelledOpen", "openTimeout", "lateOpen", "abandoned", "replaced",
                   "lateWriteError"}

ASSUME FilesAssumption == Files \subseteq Seq(Nat \ {0})
ASSUME WindowAssumption == {Window, ReadMark, WriteMark, MaxConns} \subseteq Nat \ {0}
ASSUME StreamRacesAssumption == StreamRaces \subseteq AllStreamRaces

VARIABLES
  kind,     \* "read" (AgentReadable) or "write" (AgentWritable)
  file,     \* what is to be transferred
  made,     \* connections so far
  dialled,  \* AgentTunnel.socket: a connection, or 0
  socket,   \* AgentDevice.socket: a connection, or 0
  open,     \* the connections whose close the gateway has not seen
  up, down, \* what travels on each connection, to the gateway and to the agent
  rpc,      \* the fs.openRead or fs.openWrite call
  sink,     \* whether AgentDevice.streams holds the gateway's end
  reader,   \* AgentReadable, with the Readable it extends
  writer,   \* AgentWritable, with the Writable it extends
  handle,   \* the agent's stream and its StreamState
  lapsed    \* history: the races of StreamRaces that have happened

streamVars == <<kind, file, made, dialled, socket, open, up, down, rpc, sink, reader, writer, handle, lapsed>>

Conns == 1 .. MaxConns
Chunks == 1 .. Len(file)
Bytes(chunks) == SumFunction([i \in DOMAIN chunks |-> file[chunks[i]]])

\* A frame of the transfer's channel.  n: the chunk of a data frame, the bytes
\* of a stream-credit.
Frame(t, n) == [t |-> t, n |-> n]
ToAgent == {"open", "data", "end", "credit"}
ToGateway == {"ok", "err", "data", "end", "error", "credit"}

Lapse(R) == R \subseteq StreamRaces /\ lapsed' = lapsed \cup R
Mark(r, condition) == IF condition THEN {r} ELSE {}

\* AgentDevice.send and sendBinary, AgentTunnel.send: over the connection in
\* use; what is sent to an end that is gone is lost.
Send(f) == down' = IF socket # 0 /\ socket = dialled
                   THEN [down EXCEPT ![socket] = Append(@, f)] ELSE down
Reply(fs) == up' = IF dialled \in open THEN [up EXCEPT ![dialled] = @ \o fs] ELSE up

-----------------------------------------------------------------------------
(* The gateway: the call that opens the stream.                              *)

\* The consumer is told: Readable.destroy(error), which drops what is buffered.
BreakReader == [reader EXCEPT !.state = IF @ \in {"active", "ended"} THEN "failed" ELSE @]

\* A _write or _final in progress, which will call back.
PendingStates == {"opening", "waiting", "finalOpening", "ending"}

\* The call is rejected: by the agent, by RPC_TIMEOUT_MS, or by a lost
\* connection.  An idle AgentWritable keeps the failure for its next _write.
RejectOpen ==
  /\ rpc' = "rejected"
  /\ sink' = FALSE
  /\ IF kind = "read"
     THEN reader' = BreakReader /\ UNCHANGED writer
     ELSE /\ writer' = [writer EXCEPT !.failure = TRUE,
                                      !.state = IF @ \in PendingStates THEN "failed" ELSE @]
          /\ UNCHANGED reader

RpcTimesOut ==
  /\ rpc = "pending"
  /\ RejectOpen
  /\ Lapse({"openTimeout"})
  /\ UNCHANGED <<kind, file, made, dialled, socket, open, up, down, handle>>

-----------------------------------------------------------------------------
(* The gateway: AgentWritable.                                               *)

\* _write once ready: hold the chunk until there is credit, or send it.
PushChunk(w) ==
  IF w.failure \/ (w.credit > 0 /\ ~sink)
  THEN writer' = [w EXCEPT !.state = "failed"] /\ UNCHANGED down
  ELSE IF w.credit <= 0 THEN writer' = [w EXCEPT !.state = "waiting"] /\ UNCHANGED down
  ELSE /\ writer' = [w EXCEPT !.state = "idle", !.credit = @ - file[w.next], !.next = @ + 1]
       /\ Send(Frame("data", w.next))

\* _write: the next chunk of the source.
WriteChunk ==
  /\ kind = "write" /\ writer.state = "idle" /\ ~writer.destroyed
  /\ writer.next <= Len(file)
  /\ IF rpc = "pending"
     THEN writer' = [writer EXCEPT !.state = "opening"] /\ UNCHANGED down
     ELSE PushChunk(writer)
  /\ UNCHANGED <<kind, file, made, dialled, socket, open, up, rpc, sink, reader, handle, lapsed>>

\* _final once ready: stream-end, then wait for the agent's.
Finalize(w) ==
  IF w.failure \/ ~sink THEN writer' = [w EXCEPT !.state = "failed"] /\ UNCHANGED down
  ELSE /\ writer' = [w EXCEPT !.state = "ending"]
       /\ Send(Frame("end", 0))

FinishWriting ==
  /\ kind = "write" /\ writer.state = "idle" /\ ~writer.destroyed
  /\ writer.next > Len(file)
  /\ IF rpc = "pending"
     THEN writer' = [writer EXCEPT !.state = "finalOpening"] /\ UNCHANGED down
     ELSE Finalize(writer)
  /\ UNCHANGED <<kind, file, made, dialled, socket, open, up, rpc, sink, reader, handle, lapsed>>

\* The source of the pipeline fails: the AgentWritable is destroyed, which has
\* no _destroy.  A _write in progress goes on as if nothing had happened.
SourceFails ==
  /\ kind = "write" /\ ~writer.destroyed /\ writer.next <= Len(file)
  /\ writer.state \in {"idle", "opening", "waiting"}
  /\ writer' = [writer EXCEPT !.destroyed = TRUE]
  /\ Lapse({"abandoned"})
  /\ UNCHANGED <<kind, file, made, dialled, socket, open, up, down, rpc, sink, reader, handle>>

-----------------------------------------------------------------------------
(* The gateway: AgentReadable.                                               *)

\* _read: credit for everything received since the last one.  Node calls it
\* while less than ReadMark is buffered, once per push.
Read ==
  /\ kind = "read" /\ reader.state = "active"
  /\ ~reader.reading /\ Len(reader.buffer) < ReadMark
  /\ reader' = [reader EXCEPT !.reading = TRUE, !.owed = 0]
  /\ IF reader.owed > 0 THEN Send(Frame("credit", reader.owed)) ELSE UNCHANGED down
  /\ UNCHANGED <<kind, file, made, dialled, socket, open, up, rpc, sink, writer, handle, lapsed>>

\* The consumer takes a chunk, or learns of the end.
Take ==
  /\ kind = "read" /\ reader.state \in {"active", "ended"} /\ reader.buffer # <<>>
  /\ reader' = [reader EXCEPT !.buffer = Tail(@), !.taken = Append(@, Head(reader.buffer))]
  /\ UNCHANGED <<kind, file, made, dialled, socket, open, up, down, rpc, sink, writer, handle, lapsed>>

TakeEnd ==
  /\ kind = "read" /\ reader.state = "ended" /\ reader.buffer = <<>>
  /\ reader' = [reader EXCEPT !.state = "done"]
  /\ UNCHANGED <<kind, file, made, dialled, socket, open, up, down, rpc, sink, writer, handle, lapsed>>

\* The consumer gives up: _destroy.
CancelReadBug ==
  /\ kind = "read" /\ reader.state \in {"active", "ended"}
  /\ reader' = [reader EXCEPT !.state = "cancelled"]
  /\ sink' = FALSE
  /\ UNCHANGED <<kind, file, made, dialled, socket, open, up, down, rpc, writer, handle, lapsed>>
CancelRead ==
  /\ kind = "read" /\ reader.state \in {"active", "ended"}
  /\ reader' = [reader EXCEPT !.state = "cancelled"]
  /\ IF sink THEN Send(Frame("end", 0)) ELSE UNCHANGED down
  /\ sink' = FALSE
  /\ UNCHANGED <<kind, file, made, dialled, socket, open, up, rpc, writer, handle, lapsed>>

-----------------------------------------------------------------------------
(* The gateway: frames from the agent.  A frame of a stream that is no longer *)
(* listed is dropped.                                                         *)

Received(c, t) ==
  /\ c \in open /\ up[c] # <<>> /\ Head(up[c]).t = t
  /\ up' = [up EXCEPT ![c] = Tail(@)]
  /\ UNCHANGED <<kind, file, made, dialled, socket, open, handle, lapsed>>

RecvOk(c) ==
  /\ Received(c, "ok")
  /\ rpc' = IF rpc = "pending" THEN "resolved" ELSE rpc
  /\ CASE rpc = "pending" /\ writer.state = "opening" -> PushChunk(writer)
       [] rpc = "pending" /\ writer.state = "finalOpening" -> Finalize(writer)
       [] OTHER -> UNCHANGED <<writer, down>>
  /\ UNCHANGED <<sink, reader>>

RecvErr(c) ==
  /\ Received(c, "err")
  /\ IF rpc = "pending" THEN RejectOpen ELSE UNCHANGED <<rpc, sink, reader, writer>>
  /\ UNCHANGED down

\* onData of AgentReadable.
RecvData(c) ==
  /\ Received(c, "data")
  /\ reader' = IF ~sink THEN reader
               ELSE [reader EXCEPT !.owed = @ + file[Head(up[c]).n], !.reading = FALSE,
                                   !.buffer = Append(@, Head(up[c]).n)]
  /\ UNCHANGED <<down, rpc, sink, writer>>

\* onEnd: the last of a download, or the answer _final waits for.
RecvEnd(c) ==
  /\ Received(c, "end")
  /\ reader' = IF sink /\ kind = "read" THEN [reader EXCEPT !.state = "ended"] ELSE reader
  /\ writer' = IF sink /\ kind = "write" /\ writer.state = "ending"
               THEN [writer EXCEPT !.state = "done"] ELSE writer
  /\ sink' = FALSE
  /\ UNCHANGED <<down, rpc>>

\* onError of whichever end is listed.
FailSink ==
  /\ sink' = FALSE
  /\ reader' = IF sink /\ kind = "read" THEN BreakReader ELSE reader
  /\ writer' = IF sink /\ kind = "write"
               THEN [writer EXCEPT !.failure = TRUE, !.state = "failed"] ELSE writer

RecvError(c) ==
  /\ Received(c, "error")
  /\ FailSink
  /\ UNCHANGED <<down, rpc>>

\* onCredit of AgentWritable: the _write that waits goes on.
RecvCredit(c) ==
  /\ Received(c, "credit")
  /\ LET w == [writer EXCEPT !.credit = @ + Head(up[c]).n]
     IN  IF sink /\ w.credit > 0 /\ w.state = "waiting" THEN PushChunk(w)
         ELSE writer' = (IF sink THEN w ELSE writer) /\ UNCHANGED down
  /\ UNCHANGED <<rpc, sink, reader>>

-----------------------------------------------------------------------------
(* The agent.  handle.listed: the stream is in FileService.streams.           *)

Pending == Bytes(SubSeq(handle.got, handle.flushed + 1, Len(handle.got)))
CloseHandle == [handle EXCEPT !.state = "closed", !.listed = FALSE]

Delivered(t) ==
  /\ dialled # 0 /\ down[dialled] # <<>> /\ Head(down[dialled]).t = t
  /\ down' = [down EXCEPT ![dialled] = Tail(@)]
  /\ UNCHANGED <<kind, file, made, dialled, socket, open, rpc, sink, reader, writer>>

\* openRead awaits the file's stat, openWrite its descriptor.
RecvOpen ==
  /\ Delivered("open")
  /\ handle' = [handle EXCEPT !.state = "opening"]
  /\ UNCHANGED <<up, lapsed>>

\* The file is there: the stream is listed, whoever still wants it.
Opened ==
  /\ handle.state = "opening"
  /\ handle' = [handle EXCEPT !.state = "open", !.listed = TRUE]
  /\ Reply(<<Frame("ok", 0)>>)
  /\ Lapse(Mark("lateOpen", handle.cut))
  /\ UNCHANGED <<kind, file, made, dialled, socket, open, down, rpc, sink, reader, writer>>

\* It is not, or there are MAX_STREAMS already.
OpenFails ==
  /\ handle.state = "opening"
  /\ handle' = CloseHandle
  /\ Reply(<<Frame("err", 0)>>)
  /\ UNCHANGED <<kind, file, made, dialled, socket, open, down, rpc, sink, reader, writer, lapsed>>

Reading == kind = "read" /\ handle.state = "open" /\ ~handle.paused

\* "data": out of credit, the stream pauses.
ReadChunk ==
  /\ Reading /\ handle.next <= Len(file)
  /\ LET credit == handle.credit - file[handle.next]
     IN  handle' = [handle EXCEPT !.next = @ + 1, !.credit = credit, !.paused = credit <= 0]
  /\ Reply(<<Frame("data", handle.next)>>)
  /\ UNCHANGED <<kind, file, made, dialled, socket, open, down, rpc, sink, reader, writer, lapsed>>

\* "end" and "error".
ReadEnds ==
  /\ Reading /\ handle.next > Len(file)
  /\ handle' = CloseHandle
  /\ Reply(<<Frame("end", 0)>>)
  /\ UNCHANGED <<kind, file, made, dialled, socket, open, down, rpc, sink, reader, writer, lapsed>>

ReadFails ==
  /\ Reading
  /\ handle' = CloseHandle
  /\ Reply(<<Frame("error", 0)>>)
  /\ UNCHANGED <<kind, file, made, dialled, socket, open, down, rpc, sink, reader, writer, lapsed>>

\* credit(): more room, and the stream goes on.
RecvReadCreditBug ==
  /\ Delivered("credit")
  /\ handle' = IF handle.listed
               THEN [handle EXCEPT !.credit = @ + Head(down[dialled]).n] ELSE handle
  /\ UNCHANGED <<up, lapsed>>
RecvReadCredit ==
  /\ Delivered("credit")
  /\ LET credit == handle.credit + Head(down[dialled]).n
     IN  handle' = IF handle.listed
                   THEN [handle EXCEPT !.credit = credit, !.paused = @ /\ credit <= 0]
                   ELSE handle
  /\ UNCHANGED <<up, lapsed>>

\* release() of write(): credit for what was received since the last one.
Release(h) ==
  /\ handle' = [h EXCEPT !.since = 0]
  /\ IF h.since > 0 THEN Reply(<<Frame("credit", h.since)>>) ELSE UNCHANGED up

\* write(): credit at once while the file keeps up, and after "drain" otherwise.
RecvChunk ==
  /\ Delivered("data")
  /\ LET n == Head(down[dialled]).n
         h == [handle EXCEPT !.got = Append(@, n), !.since = @ + file[n]]
     IN  IF ~handle.listed THEN UNCHANGED <<handle, up>>
         ELSE IF Pending + file[n] < WriteMark THEN Release(h)
         ELSE handle' = [h EXCEPT !.draining = TRUE] /\ UNCHANGED up
  /\ UNCHANGED lapsed

\* end(): a cancelled download, or the whole of an upload.
RecvStreamEnd ==
  /\ Delivered("end")
  /\ handle' = CASE handle.listed /\ kind = "read" -> CloseHandle
                 [] handle.listed /\ kind = "write" -> [handle EXCEPT !.ending = TRUE]
                 [] OTHER -> handle
  /\ Lapse(Mark("cancelledOpen", handle.state = "opening"))
  /\ UNCHANGED up

FlushBug ==
  /\ kind = "write" /\ handle.state = "open" /\ handle.flushed <= Len(handle.got)
  /\ LET h == [handle EXCEPT !.flushed = @ + 1]
     IN  IF h.flushed = Len(h.got) /\ h.draining /\ ~h.ending
         THEN Release([h EXCEPT !.draining = FALSE])
         ELSE handle' = h /\ UNCHANGED up
  /\ UNCHANGED <<kind, file, made, dialled, socket, open, down, rpc, sink, reader, writer, lapsed>>
\* The disk takes a chunk; "drain" when that was the last and was waited for.
Flush ==
  /\ kind = "write" /\ handle.state = "open" /\ handle.flushed < Len(handle.got)
  /\ LET h == [handle EXCEPT !.flushed = @ + 1]
     IN  IF h.flushed = Len(h.got) /\ h.draining /\ ~h.ending
         THEN Release([h EXCEPT !.draining = FALSE])
         ELSE handle' = h /\ UNCHANGED up
  /\ UNCHANGED <<kind, file, made, dialled, socket, open, down, rpc, sink, reader, writer, lapsed>>

\* The callback of stream.end(), after the last byte.
FinishBug ==
  /\ kind = "write" /\ handle.state = "open" /\ handle.ending
  /\ handle' = CloseHandle
  /\ Reply(<<Frame("end", 0)>>)
  /\ UNCHANGED <<kind, file, made, dialled, socket, open, down, rpc, sink, reader, writer, lapsed>>
Finish ==
  /\ kind = "write" /\ handle.state = "open" /\ handle.ending
  /\ handle.flushed = Len(handle.got)
  /\ handle' = CloseHandle
  /\ Reply(<<Frame("end", 0)>>)
  /\ UNCHANGED <<kind, file, made, dialled, socket, open, down, rpc, sink, reader, writer, lapsed>>

\* A write fails.  Node calls the callback of stream.end() then too, before
\* "error": stream-end goes first.
WriteFails ==
  /\ kind = "write" /\ handle.state = "open" /\ handle.flushed < Len(handle.got)
  /\ handle' = CloseHandle
  /\ Reply(IF handle.ending THEN <<Frame("end", 0), Frame("error", 0)>>
                            ELSE <<Frame("error", 0)>>)
  /\ Lapse(Mark("lateWriteError", handle.ending))
  /\ UNCHANGED <<kind, file, made, dialled, socket, open, down, rpc, sink, reader, writer>>

-----------------------------------------------------------------------------
(* The connection.                                                           *)

\* onDisconnected: abortAll ends what is listed, which a stream still being
\* opened is not.
AgentSeesCloseBug ==
  /\ dialled # 0
  /\ dialled' = 0
  /\ down' = [down EXCEPT ![dialled] = <<>>]
  /\ handle' = handle
  /\ UNCHANGED <<kind, file, made, socket, open, up, rpc, sink, reader, writer, lapsed>>
AgentSeesClose ==
  /\ dialled # 0
  /\ dialled' = 0
  /\ down' = [down EXCEPT ![dialled] = <<>>]
  /\ handle' = IF handle.listed THEN CloseHandle
               ELSE [handle EXCEPT !.cut = @ \/ handle.state = "opening"]
  /\ UNCHANGED <<kind, file, made, socket, open, up, rpc, sink, reader, writer, lapsed>>

\* The machine is back: attach.  A connection that was not seen to close is
\* replaced, and what was transferred over it is not failed.
Reconnect ==
  /\ dialled = 0 /\ made < MaxConns
  /\ made' = made + 1 /\ dialled' = made + 1 /\ socket' = made + 1
  /\ open' = open \cup {made + 1}
  /\ Lapse(Mark("replaced", socket # 0 /\ sink))
  /\ UNCHANGED <<kind, file, up, down, rpc, sink, reader, writer, handle>>

\* The close event of a connection: detach, unless it was replaced.
GatewaySeesClose(c) ==
  /\ c \in open
  /\ open' = open \ {c}
  /\ up' = [up EXCEPT ![c] = <<>>]
  /\ IF socket = c
     THEN /\ socket' = 0
          /\ rpc' = IF rpc = "pending" THEN "rejected" ELSE rpc
          /\ FailSink
     ELSE UNCHANGED <<socket, rpc, sink, reader, writer>>
  /\ UNCHANGED <<kind, file, made, dialled, down, handle, lapsed>>

-----------------------------------------------------------------------------
(* The specification.                                                        *)

NewReader == [state |-> "active", buffer |-> <<>>, taken |-> <<>>, owed |-> 0, reading |-> FALSE]
NewWriter == [state |-> "idle", next |-> 1, credit |-> Window, failure |-> FALSE, destroyed |-> FALSE]
NewHandle == [state |-> "none", listed |-> FALSE, cut |-> FALSE,
              credit |-> Window, next |-> 1, paused |-> FALSE,
              got |-> <<>>, flushed |-> 0, since |-> 0, draining |-> FALSE, ending |-> FALSE]

\* createReadStream or createWriteStream: the channel is listed, the call sent.
StreamInit ==
  /\ kind \in {"read", "write"} /\ file \in Files
  /\ made = 1 /\ dialled = 1 /\ socket = 1 /\ open = {1}
  /\ up = [c \in Conns |-> <<>>]
  /\ down = [c \in Conns |-> IF c = 1 THEN <<Frame("open", 0)>> ELSE <<>>]
  /\ rpc = "pending" /\ sink = TRUE
  /\ reader = NewReader /\ writer = NewWriter /\ handle = NewHandle
  /\ lapsed = {}

Receive(c) ==
  \/ RecvOk(c) \/ RecvErr(c) \/ RecvData(c)
  \/ RecvEnd(c) \/ RecvError(c) \/ RecvCredit(c)

Deliver == RecvOpen \/ RecvReadCredit \/ RecvChunk \/ RecvStreamEnd

StreamNext ==
  \/ RpcTimesOut \/ WriteChunk \/ FinishWriting \/ SourceFails
  \/ Read \/ Take \/ TakeEnd \/ CancelRead
  \/ \E c \in Conns : Receive(c) \/ GatewaySeesClose(c)
  \/ Deliver \/ Opened \/ OpenFails
  \/ ReadChunk \/ ReadEnds \/ ReadFails
  \/ Flush \/ Finish \/ WriteFails
  \/ AgentSeesClose \/ Reconnect

StreamSpec == StreamInit /\ [][StreamNext]_streamVars

\* Both ends read what arrives, a call times out, the disk and the other party of
\* the pipeline go on, and the heartbeat finds a connection whose agent is gone.
\* Nothing obliges the agent to open the file, or a connection to break.
FairStreamSpec ==
  /\ StreamSpec
  /\ WF_streamVars(RpcTimesOut) /\ WF_streamVars(WriteChunk \/ FinishWriting)
  /\ WF_streamVars(Read) /\ WF_streamVars(Take \/ TakeEnd)
  /\ \A c \in Conns : WF_streamVars(Receive(c))
  /\ \A c \in Conns : WF_streamVars(dialled # c /\ GatewaySeesClose(c))
  /\ WF_streamVars(Deliver)
  /\ WF_streamVars(ReadChunk \/ ReadEnds \/ ReadFails)
  /\ WF_streamVars(Flush) /\ WF_streamVars(Finish)

-----------------------------------------------------------------------------
(* Properties.                                                               *)

\* Every variable has its type; the chunks a side has are chunks of the file, and
\* no more is flushed than was received.
StreamTypeOK ==
  /\ kind \in {"read", "write"} /\ file \in Files
  /\ made \in Conns /\ dialled \in 0 .. made /\ socket \in 0 .. made /\ open \subseteq 1 .. made
  /\ up \in [Conns -> Seq([t : ToGateway, n : Nat])]
  /\ down \in [Conns -> Seq([t : ToAgent, n : Nat])]
  /\ rpc \in {"pending", "resolved", "rejected"} /\ sink \in BOOLEAN
  /\ reader \in [state : {"active", "ended", "done", "failed", "cancelled"},
                 buffer : Seq(Chunks), taken : Seq(Chunks), owed : Nat, reading : BOOLEAN]
  /\ writer \in [state : PendingStates \cup {"idle", "done", "failed"}, next : Nat \ {0},
                 credit : Int, failure : BOOLEAN, destroyed : BOOLEAN]
  /\ handle \in [state : {"none", "opening", "open", "closed"}, listed : BOOLEAN, cut : BOOLEAN,
                 credit : Int, next : Nat \ {0}, paused : BOOLEAN,
                 got : Seq(Chunks), flushed : 0 .. Len(handle.got), since : Nat,
                 draining : BOOLEAN, ending : BOOLEAN]
  /\ lapsed \subseteq StreamRaces

\* The whole file, once and in order.
Whole(chunks) == chunks = [i \in Chunks |-> i]

\* A completed upload is on the machine's disk, as the comment on AgentWritable
\* says (file-transport.ts:136), unless a write failed after the gateway's
\* stream-end.
UploadIsOnDisk ==
  "lateWriteError" \in lapsed \/
    (writer.state = "done" => Whole(handle.got) /\ handle.flushed = Len(file))

\* A download that ends without an error is the whole file: it is failed rather
\* than cut short (registry.ts:271).  Unless the agent opened it after the
\* connection had gone: its first bytes are then sent to nobody.
DownloadIsWhole ==
  "lateOpen" \in lapsed \/ (reader.state = "done" => Whole(reader.taken))

\* A transfer that is said to be complete is, either way.
TransferIsWholeUnlessRaced == UploadIsOnDisk /\ DownloadIsWhole

Over == reader.state \in {"done", "failed", "cancelled"} \/ writer.state \in {"done", "failed"}
          \/ writer.destroyed

\* At rest, a machine holds no file open for a transfer that is over, and the
\* gateway lists none: unless the transfer was given up before the agent had
\* opened it or said so, or the source of an upload failed.
NoIdleHandle ==
  (/\ Over /\ socket = dialled /\ dialled # 0 /\ handle.state # "opening"
   /\ up[dialled] = <<>> /\ down[dialled] = <<>>
   /\ lapsed \cap {"cancelledOpen", "openTimeout", "lateOpen", "abandoned"} = {})
  => ~handle.listed /\ ~sink

\* A transfer ends, well or badly: unless the machine's connection was replaced
\* under it.
SettlesUnlessRaced == <>(Over \/ "replaced" \in lapsed)

============================================================================
