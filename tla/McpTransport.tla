----------------------------- MODULE McpTransport -----------------------------
(***************************************************************************)
(* The transport of the MCP proxy (runMcpProxy in src/mcp-proxy.js): lines *)
(* of the host and of the server, a child process, pass through one queue  *)
(* to the gate, whose frames are written to either side.  A side that does *)
(* not read blocks both inputs until it drains or its timer ends the       *)
(* session; ending it kills the child, by a second signal if need be.      *)
(*                                                                         *)
(* The gate is modelled in McpGate: here a line is a task that writes some *)
(* frames, or throws.  Sizes are units.                                    *)
(***************************************************************************)
EXTENDS Naturals, Sequences, FiniteSets

CONSTANTS Frames,      \* the lines: [from, size, writes], writes a sequence of sides
          Inputs,      \* for each side, the lines it sends, in order
          ExitTask,    \* the task that ends the session when the server has exited
          MaxLine,     \* MAX_LINE_BYTES
          QueueTasks, QueueBytes,
          HighWater,   \* unread frames from which a write asks to wait
          MaxUnread    \* unread frames that end the session

Sides == {"host", "server"}
Lines == DOMAIN Frames

ASSUME TransportAssumption ==
    /\ ExitTask \notin Lines /\ 0 \notin Lines \cup {ExitTask}    \* 0 is no task
    /\ \A t \in Lines : Frames[t].writes \in Seq(Sides) /\ Frames[t].size \in Nat
    /\ Inputs["host"] \in Seq(Lines) /\ Inputs["server"] \in Seq(Lines)
    /\ HighWater \in Nat \ {0} /\ MaxUnread \in Nat \ {0} /\ MaxLine \in Nat
    /\ QueueTasks \in Nat /\ QueueBytes \in Nat

VARIABLES
    proxy,      \* [settled, code, paused, ended, crashed]: the proxy's side of things
    server,     \* the child: [state, code, signals, escalate, cleaned]
    chunk,      \* lines still to be fed of the chunk at hand, and of which side
    fed,        \* lines each side has sent
    deaf,       \* sides whose feeder has failed
    unread,     \* frames written to each side and not read
    blocked,    \* sides whose timer is armed: blockedOutputs
    turn,       \* the handler at work: its task, whether it began, its writes
    written,    \* history: frames written, <<side, line>>
    tasks, executing, failing, running, count, bytes, closing, accepted, started

queueVars == <<tasks, executing, failing, running, count, bytes, closing, accepted, started>>
transportVars == <<proxy, server, chunk, fed, deaf, unread, blocked, turn, written, queueVars>>

Queue == INSTANCE BoundedQueue WITH
    Tasks <- Lines \cup {ExitTask},
    Bytes <- [t \in Lines \cup {ExitTask} |-> IF t = ExitTask THEN 0 ELSE Frames[t].size],
    Concurrency <- 1, MaxTasks <- QueueTasks, MaxBytes <- QueueBytes, Reactions <- {"close"},
    failed <- failing, closed <- closing

NoTurn == [task |-> 0, begun |-> FALSE, done |-> 0]

TransportInit ==
    /\ proxy = [settled |-> FALSE, code |-> "none", paused |-> {}, ended |-> FALSE, crashed |-> FALSE]
    /\ server = [state |-> "running", code |-> "none", signals |-> {}, escalate |-> FALSE, cleaned |-> FALSE]
    /\ chunk = [side |-> "host", left |-> 0]
    /\ fed = [s \in Sides |-> 0] /\ unread = [s \in Sides |-> 0]
    /\ deaf = {} /\ blocked = {} /\ turn = NoTurn /\ written = << >>
    /\ Queue!Init

\* No chunk is being fed, and the process is there.
Quiet == chunk.left = 0 /\ ~proxy.crashed

----------------------------------------------------------------------------
\* The end of the session.

\* killChild: SIGTERM to the group, and the timer of 500 ms.
Killed(c) == IF c.state # "running" THEN c
             ELSE [c EXCEPT !.signals = @ \cup {"SIGTERM"}, !.escalate = TRUE]

\* Mutant: the child is left to the end of its input.
SettleKindly(code, paused) ==
    /\ proxy' = IF proxy.settled THEN [proxy EXCEPT !.paused = paused]
                ELSE [proxy EXCEPT !.settled = TRUE, !.code = code, !.paused = paused \cup {"host"}]
    /\ blocked' = IF proxy.settled THEN blocked ELSE {}
    /\ UNCHANGED server
\* settle but for closing the queue, given the inputs that were paused before it.
Settle(code, paused) ==
    /\ proxy' = IF proxy.settled THEN [proxy EXCEPT !.paused = paused]
                ELSE [proxy EXCEPT !.settled = TRUE, !.code = code, !.paused = paused \cup {"host"}]
    /\ blocked' = IF proxy.settled THEN blocked ELSE {}
    /\ server' = IF proxy.settled THEN server ELSE Killed(server)

CloseQueue == Queue!Drops /\ UNCHANGED <<executing, failing, running, accepted, started>>

\* enqueue: nothing after the end, and the end without room.
Enqueue(t) ==
    \/ proxy.settled /\ UNCHANGED <<proxy, server, blocked, queueVars>>
    \/ ~proxy.settled /\ Queue!Accepts(t) /\ UNCHANGED <<proxy, server, blocked>>
    \/ ~proxy.settled /\ ~Queue!HasRoom(t) /\ Settle("1", proxy.paused) /\ CloseQueue

----------------------------------------------------------------------------
\* What arrives.

Sent(s) == fed[s] = Len(Inputs[s])
\* What a server wrote may still arrive when it has exited.
Flows(s) == s \notin proxy.paused /\ (s = "host" => ~proxy.settled /\ ~proxy.ended)

Chunk(s, n) ==
    /\ Quiet /\ Flows(s) /\ n \in 1 .. Len(Inputs[s]) - fed[s]
    /\ chunk' = [side |-> s, left |-> n]
    /\ UNCHANGED <<proxy, server, fed, deaf, unread, blocked, turn, written, queueVars>>

\* makeLineFeeder: the lines of a chunk are fed without a break; after one that is too long
\* the side is not listened to.
FeedLine ==
    LET s == chunk.side
        t == Inputs[s][fed[s] + 1]
    IN  /\ chunk.left > 0
        /\ chunk' = [chunk EXCEPT !.left = @ - 1]
        /\ fed' = [fed EXCEPT ![s] = @ + 1]
        /\ \/ s \in deaf /\ UNCHANGED <<proxy, server, deaf, blocked, queueVars>>
           \/ s \notin deaf /\ Frames[t].size <= MaxLine /\ Enqueue(t) /\ UNCHANGED deaf
           \/ /\ s \notin deaf /\ Frames[t].size > MaxLine
              /\ deaf' = deaf \cup {s}
              /\ Settle("1", Sides) /\ CloseQueue
        /\ UNCHANGED <<unread, turn, written>>

\* The host hangs up: the server's stdin ends and the server is killed.
HostEnds ==
    /\ Quiet /\ Flows("host") /\ Sent("host")
    /\ proxy' = [proxy EXCEPT !.ended = TRUE]
    /\ server' = Killed(server)
    /\ UNCHANGED <<chunk, fed, deaf, unread, blocked, turn, written, queueVars>>

----------------------------------------------------------------------------
\* What is written.

Writable(s) == s = "server" => server.state = "running" /\ ~proxy.ended

\* writeFrame, within the handler of the queue's running task.
WriteFrame(s, t) ==
    \/ /\ ~Writable(s) \/ unread[s] + 1 > MaxUnread
       /\ Settle("1", proxy.paused) /\ CloseQueue
       /\ UNCHANGED <<unread, written>>
    \/ /\ Writable(s) /\ unread[s] + 1 <= MaxUnread
       /\ unread' = [unread EXCEPT ![s] = @ + 1]
       /\ written' = Append(written, <<s, t>>)
       /\ IF unread'[s] >= HighWater /\ s \notin blocked
          THEN blocked' = blocked \cup {s} /\ proxy' = [proxy EXCEPT !.paused = Sides]
          ELSE UNCHANGED <<blocked, proxy>>
       /\ UNCHANGED <<server, queueVars>>

\* The handler's first step: nothing is done once the session has ended.
Begins(t) ==
    /\ Quiet /\ t \in executing /\ turn.task # t
    /\ turn' = [task |-> t, begun |-> ~proxy.settled, done |-> 0]
    /\ UNCHANGED <<proxy, server, chunk, fed, deaf, unread, blocked, written, queueVars>>

AtWork(t) == Quiet /\ t \in executing \ failing /\ turn.task = t

Writes(t) ==
    /\ AtWork(t) /\ t \in Lines /\ turn.begun /\ turn.done < Len(Frames[t].writes)
    /\ turn' = [turn EXCEPT !.done = @ + 1]
    /\ WriteFrame(Frames[t].writes[turn.done + 1], t)
    /\ UNCHANGED <<chunk, fed, deaf>>

\* The handler throws: onError ends the session.
Throws(t) ==
    /\ AtWork(t) /\ t \in Lines /\ turn.begun
    /\ Queue!Fails(t)
    /\ Settle("1", proxy.paused)
    /\ UNCHANGED <<chunk, fed, deaf, unread, turn, written>>

\* The exit's turn has come.
ExitSettles ==
    /\ AtWork(ExitTask) /\ turn.begun /\ turn.done = 0
    /\ turn' = [turn EXCEPT !.done = 1]
    /\ Settle(server.code, proxy.paused) /\ CloseQueue
    /\ UNCHANGED <<chunk, fed, deaf, unread, written>>

Through(t) ==
    \/ ~turn.begun
    \/ t \in failing
    \/ turn.done = IF t = ExitTask THEN 1 ELSE Len(Frames[t].writes)
HandlerEnds(t) ==
    /\ Quiet /\ t \in executing /\ turn.task = t /\ Through(t)
    /\ Queue!Finally(t)
    /\ turn' = NoTurn
    /\ UNCHANGED <<proxy, server, chunk, fed, deaf, unread, blocked, written>>

\* A side reads a frame.  With the last one its output drains, and both inputs flow again
\* unless the other output is blocked.
Reads(s) ==
    LET free == blocked \ {s}
    IN  /\ Quiet /\ unread[s] > 0 /\ (s = "server" => server.state = "running")
        /\ unread' = [unread EXCEPT ![s] = @ - 1]
        /\ blocked' = IF unread[s] = 1 THEN free ELSE blocked
        /\ proxy' = IF unread[s] = 1 /\ s \in blocked /\ ~proxy.settled /\ free = {}
                    THEN [proxy EXCEPT !.paused = {}] ELSE proxy
        /\ UNCHANGED <<server, chunk, fed, deaf, turn, written, queueVars>>

\* A blocked output has not drained for ten seconds.
WriteTimesOut(s) ==
    /\ Quiet /\ s \in blocked
    /\ Settle("1", proxy.paused)
    /\ IF proxy.settled THEN UNCHANGED queueVars ELSE CloseQueue
    /\ UNCHANGED <<chunk, fed, deaf, unread, turn, written>>

----------------------------------------------------------------------------
\* The child.

\* Mutant: the exit ends the session at once.
ExitsAtOnce(code) ==
    /\ Quiet /\ server.state = "running"
    /\ server' = [server EXCEPT !.state = "exited", !.code = code, !.escalate = FALSE]
    /\ proxy' = [proxy EXCEPT !.settled = TRUE, !.code = IF proxy.settled THEN @ ELSE code,
                              !.paused = {"host"}]
    /\ blocked' = {} /\ CloseQueue
    /\ UNCHANGED <<chunk, fed, deaf, unread, turn, written>>
\* The server exits, and the end is queued behind the frames that wait.  Its output flows again.
Exits(code) ==
    LET room == ~proxy.settled /\ Queue!HasRoom(ExitTask)
    IN  /\ Quiet /\ server.state = "running"
        /\ server' = [server EXCEPT !.state = "exited", !.code = code, !.escalate = FALSE]
        /\ \/ room /\ Queue!Accepts(ExitTask)
           \/ ~room /\ ~proxy.settled /\ CloseQueue
           \/ proxy.settled /\ UNCHANGED queueVars
        /\ proxy' = IF room \/ proxy.settled THEN [proxy EXCEPT !.paused = @ \ {"server"}]
                    ELSE [proxy EXCEPT !.settled = TRUE, !.code = "1", !.paused = {"host"}]
        /\ blocked' = IF room \/ proxy.settled THEN blocked ELSE {}
        /\ UNCHANGED <<chunk, fed, deaf, unread, turn, written>>

\* It could not be spawned.
SpawnError ==
    /\ Quiet /\ server.state = "running" /\ fed["server"] = 0
    /\ server' = [server EXCEPT !.state = "unspawned"]
    /\ proxy' = [proxy EXCEPT !.settled = TRUE, !.code = IF @ = "none" THEN "1" ELSE @,
                              !.paused = @ \cup {"host"}]
    /\ blocked' = {} /\ CloseQueue
    /\ UNCHANGED <<chunk, fed, deaf, unread, turn, written>>

\* 'close': it is gone and its output read.  The sandbox's directory is removed.
ServerCloses ==
    /\ Quiet /\ server.state # "running" /\ ~server.cleaned
    /\ server.state = "unspawned" \/ Sent("server")
    /\ server' = [server EXCEPT !.cleaned = TRUE]
    /\ UNCHANGED <<proxy, chunk, fed, deaf, unread, blocked, turn, written, queueVars>>

ChildKilled ==
    /\ Quiet /\ server.state = "running" /\ server.escalate
    /\ server' = [server EXCEPT !.signals = @ \cup {"SIGKILL"}, !.escalate = FALSE]
    /\ UNCHANGED <<proxy, chunk, fed, deaf, unread, blocked, turn, written, queueVars>>

\* A side closed the pipe it was written to: the stream's error has no listener.
PipeBreaks(s) ==
    /\ Quiet /\ unread[s] > 0
    /\ proxy' = [proxy EXCEPT !.crashed = TRUE]
    /\ UNCHANGED <<server, chunk, fed, deaf, unread, blocked, turn, written, queueVars>>

TransportNext ==
    \/ \E s \in Sides : \/ \E n \in 1 .. Len(Inputs[s]) : Chunk(s, n)
                        \/ Reads(s) \/ WriteTimesOut(s) \/ PipeBreaks(s)
    \/ FeedLine \/ HostEnds
    \/ \E t \in Lines : Writes(t) \/ Throws(t)
    \/ \E t \in Lines \cup {ExitTask} : Begins(t) \/ HandlerEnds(t)
    \/ ExitSettles
    \/ \E code \in {"0", "1"} : Exits(code)
    \/ SpawnError \/ ServerCloses \/ ChildKilled

TransportSpec == TransportInit /\ [][TransportNext]_transportVars

\* The event loop feeds, runs handlers and fires timers; a killed process exits, and what it
\* wrote arrives.
TransportFair ==
    /\ WF_transportVars(FeedLine) /\ WF_transportVars(ChildKilled) /\ WF_transportVars(ServerCloses)
    /\ WF_transportVars("SIGKILL" \in server.signals /\ Exits("1"))
    /\ WF_transportVars(server.state = "exited" /\ Chunk("server", 1))
----------------------------------------------------------------------------
\* However a session ends, also with a server that ignores SIGTERM, with outputs nobody reads and
\* with frames still in the queue, its server is gone at last and its sandbox removed, unless the
\* proxy itself broke down, or paused for good an output that the server left unread.
EndedServersAreGone ==
    proxy.settled ~> \/ server.state # "running" /\ (server.cleaned \/ "server" \in proxy.paused)
                     \/ proxy.crashed

\* A session that ends because its server exited has handled every frame that had arrived by
\* then; and frames are written in the order in which their lines came, over both directions.
LastFramesGetThrough ==
    LET place(t)  == CHOOSE n \in DOMAIN started : started[n] = t
        frames(t) == {<<Frames[t].writes[k], t>> : k \in DOMAIN Frames[t].writes}
    IN  /\ \A i, j \in DOMAIN written : i < j => place(written[i][2]) <= place(written[j][2])
        /\ proxy.settled /\ proxy.code = "0" =>
              \A n \in DOMAIN accepted :
                 (\A m \in 1 .. n : accepted[m] # ExitTask) =>
                    frames(accepted[n]) \subseteq {written[i] : i \in DOMAIN written}
==============================================================================
