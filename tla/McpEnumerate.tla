---------------------------- MODULE McpEnumerate ----------------------------
(***************************************************************************)
(* One enumeration of an MCP server's tools (src/mcp-client.js): the       *)
(* client initializes, follows tools/list page by page and returns the     *)
(* manifest.  Over stdio the server is a child process which answers when  *)
(* and as it likes and is killed at the end; over HTTP every request has   *)
(* an answer or an error, and the session is deleted at the end.  Sizes    *)
(* are units of output, and a frame is an id, a kind and a size.           *)
(***************************************************************************)
EXTENDS Naturals, Sequences, FiniteSets

CONSTANTS Transports,    \* a subset of {"stdio", "http"}
          MaxListPages,  \* MAX_LIST_PAGES
          MaxOutput,     \* MAX_OUTPUT_BYTES
          FrameSizes     \* the sizes of the frames a server sends

ASSUME EnumerateAssumption ==
    /\ Transports \subseteq {"stdio", "http"}
    /\ MaxListPages \in Nat \ {0}
    /\ MaxOutput \in Nat
    /\ FrameSizes \subseteq Nat \ {0}

VARIABLES transport,
          enum,     \* the async function: where it waits and what it collected
          pending,  \* ids of requests without an answer
          nextId,
          answer,   \* how the awaited request settled, until its continuation runs
          output,   \* stdoutBytes, or the bytes of the pages
          settled,
          child,    \* the server process
          signals,  \* the signals sent to its group
          timers,   \* the timers that are armed
          session,  \* whether the server has named an HTTP session
          caller,   \* enumerateMcpServer as its caller sees it
          result

vars == <<transport, enum, pending, nextId, answer, output, settled, child,
          signals, timers, session, caller, result>>

Kinds == {"more", "last", "error"}
Answers == [id : Nat, kind : Kinds]
None == [id |-> 0, kind |-> "none"]

TypeOK ==
    /\ transport \in Transports
    /\ enum \in [at : {"init", "notify", "list", "done"},
                 pages : Seq(Nat), whole : BOOLEAN, warned : BOOLEAN]
    /\ pending \subseteq Nat /\ Cardinality(pending) <= 1
    /\ nextId \in 1..(MaxListPages + 2)
    /\ answer \in Answers \cup {None}
    /\ output \in 0..(MaxOutput + 1)
    /\ settled \in BOOLEAN
    /\ child \in {"running", "exited", "unspawned", "none"}
    /\ signals \subseteq {"SIGTERM", "SIGKILL"}
    /\ timers \subseteq {"timeout", "escalate", "kill", "deadline"}
    /\ session \in BOOLEAN
    /\ caller \in {"racing", "closing", "returned", "crashed"}
    /\ result \in {"none", "ok", "failed"}

Init ==
    /\ transport \in Transports
    /\ enum = [at |-> "init", pages |-> <<>>, whole |-> FALSE, warned |-> FALSE]
    /\ pending = {1} /\ nextId = 2
    /\ answer = None /\ output = 0 /\ settled = FALSE
    /\ child = IF transport = "stdio" THEN "running" ELSE "none"
    /\ signals = {} /\ timers = {"timeout"}
    /\ session = FALSE /\ caller = "racing" /\ result = "none"

Working == caller \in {"racing", "closing"}
\* Between two macrotasks no continuation is waiting to run.
Idle == Working /\ answer = None

-----------------------------------------------------------------------------
(* What both transports share: the loop over the pages. *)

\* request(toolsListRequest(nextId++, cursor))
Ask == pending' = {nextId} /\ nextId' = nextId + 1

WithPage(id, last) ==
    [enum EXCEPT !.pages = Append(@, id), !.whole = last,
                 !.at = IF last THEN "done" ELSE "list"]

AtLimit == Len(enum.pages) + 1 = MaxListPages
Finished(e) == [e EXCEPT !.at = "done"]

-----------------------------------------------------------------------------
(* enumerateStdio *)

Stdio == transport = "stdio"

\* killChild: SIGTERM, and a timer for SIGKILL.
KillChild ==
    \/ child = "exited" /\ UNCHANGED <<signals, timers>>
    \/ /\ child # "exited"
       /\ signals' = signals \cup {"SIGTERM"}
       /\ timers' = timers \cup {"escalate"}

FailAll ==
    /\ answer' = IF pending = {} THEN answer
                 ELSE [id |-> CHOOSE i \in pending : TRUE, kind |-> "error"]
    /\ pending' = {}

\* Mutant: the timer for SIGKILL does not outlive the enumeration.
CloseWithoutKill(outcome) ==
    /\ settled' = TRUE /\ result' = outcome
    /\ caller' = IF child = "running" THEN "closing" ELSE "returned"
    /\ signals' = signals \cup {"SIGTERM"}
    /\ timers' = IF child = "running" THEN {"deadline"} ELSE {}
\* Mutant: only the exit of the server ends the wait.
CloseUntilExit(outcome) ==
    /\ settled' = TRUE /\ result' = outcome
    /\ caller' = IF child = "running" THEN "closing" ELSE "returned"
    /\ signals' = signals \cup {"SIGTERM"}
    /\ timers' = IF child = "running" THEN {"kill"} ELSE {}
\* The `finally' of the race: killChildAndWait returns at once for a child
\* that is gone.
Close(outcome) ==
    /\ settled' = TRUE
    /\ result' = outcome
    /\ \/ /\ child = "running"
          /\ caller' = "closing"
          /\ signals' = signals \cup {"SIGTERM"}
          /\ timers' = (timers \ {"timeout"}) \cup {"kill", "deadline"}
       \/ /\ child # "running"
          /\ caller' = "returned"
          /\ timers' = timers \ {"timeout"}
          /\ UNCHANGED signals

\* A line of the server's stdout.  Answers nobody waits for are ignored, and
\* so are those to a request that is only made by a continuation to come.
Frame(id, kind, n) ==
    /\ Stdio /\ Working /\ child \in {"running", "exited"}
    /\ output + n <= MaxOutput
    /\ output' = output + n
    /\ \/ /\ id \in pending
          /\ pending' = pending \ {id}
          /\ answer' = [id |-> id, kind |-> kind]
       \/ id \notin pending /\ UNCHANGED <<pending, answer>>
    /\ UNCHANGED <<transport, enum, nextId, settled, child, signals, timers,
                   session, caller, result>>

\* A chunk beyond the cap: the enumeration fails and the server is killed.
OverCap ==
    /\ Stdio /\ Idle /\ child \in {"running", "exited"}
    /\ \E n \in FrameSizes : output + n > MaxOutput
    /\ output' = MaxOutput + 1
    /\ FailAll
    /\ settled' = TRUE
    /\ KillChild
    /\ UNCHANGED <<transport, enum, nextId, child, session, caller, result>>

\* The continuation of `await request(...)'; the caller's race is decided in
\* the same microtasks, unless the timeout had decided it.
Proceeds(e) ==
    /\ enum' = e
    /\ \/ /\ e.at # "done" \/ caller # "racing"
          /\ UNCHANGED <<settled, signals, timers, caller, result>>
       \/ /\ e.at = "done" /\ caller = "racing"
          /\ Close(IF answer.kind = "error" THEN "failed" ELSE "ok")

StopsAtLimit(e) == [e EXCEPT !.at = "done", !.warned = TRUE]

Continue ==
    /\ Stdio /\ Working /\ answer # None
    /\ answer' = None
    /\ \/ /\ answer.kind = "error"
          /\ Proceeds(Finished(enum))
          /\ UNCHANGED <<pending, nextId>>
       \/ /\ answer.kind # "error" /\ enum.at = "init"
          /\ Proceeds([enum EXCEPT !.at = "list"])
          /\ Ask
       \/ /\ answer.kind = "last" /\ enum.at = "list"
          /\ Proceeds(WithPage(answer.id, TRUE))
          /\ UNCHANGED <<pending, nextId>>
       \/ /\ answer.kind = "more" /\ enum.at = "list" /\ ~AtLimit
          /\ Proceeds(WithPage(answer.id, FALSE))
          /\ Ask
       \/ /\ answer.kind = "more" /\ enum.at = "list" /\ AtLimit
          /\ Proceeds(StopsAtLimit(WithPage(answer.id, FALSE)))
          /\ UNCHANGED <<pending, nextId>>
    /\ UNCHANGED <<transport, output, child, session>>

\* The spawned command does not exist: 'error' instead of any output.
SpawnFails ==
    /\ Stdio /\ Idle /\ child = "running" /\ caller = "racing"
    /\ output = 0 /\ nextId = 2
    /\ child' = "unspawned"
    /\ FailAll
    /\ UNCHANGED <<transport, enum, nextId, output, settled, signals, timers,
                   session, caller, result>>

ExitFails ==
    \/ settled /\ UNCHANGED <<pending, answer>>
    \/ ~settled /\ FailAll

\* 'exit': the requests without an answer fail unless the race was decided,
\* and killChildAndWait has what it waits for.
ChildExits ==
    /\ Stdio /\ Idle /\ child = "running"
    /\ child' = "exited"
    /\ ExitFails
    /\ timers' = timers \ {"escalate", "kill", "deadline"}
    /\ caller' = IF caller = "closing" THEN "returned" ELSE caller
    /\ UNCHANGED <<transport, enum, nextId, output, settled, signals, session,
                   result>>

\* A server that closed its stdin: the stream's 'error' has no listener.
StdinBreaks ==
    /\ Stdio /\ Idle /\ child = "running" /\ pending # {}
    /\ caller' = "crashed"
    /\ UNCHANGED <<transport, enum, pending, nextId, answer, output, settled,
                   child, signals, timers, session, result>>

Timeout ==
    /\ Stdio /\ Idle /\ caller = "racing" /\ "timeout" \in timers
    /\ Close("failed")
    /\ UNCHANGED <<transport, enum, pending, nextId, answer, output, child, session>>

\* The two timers of 500 ms.
Escalate(t) ==
    /\ Stdio /\ Idle /\ t \in timers \cap {"escalate", "kill"}
    /\ timers' = timers \ {t}
    /\ signals' = signals \cup {"SIGKILL"}
    /\ UNCHANGED <<transport, enum, pending, nextId, answer, output, settled,
                   child, session, caller, result>>

\* The ceiling of 2 s, reached after the timer of 500 ms armed with it.
GivesUp ==
    /\ Stdio /\ Idle /\ "deadline" \in timers /\ "kill" \notin timers
    /\ timers' = timers \ {"deadline"}
    /\ caller' = "returned"
    /\ UNCHANGED <<transport, enum, pending, nextId, answer, output, settled,
                   child, signals, session, result>>

-----------------------------------------------------------------------------
(* enumerateHttp *)

Http == transport = "http" /\ Working

\* The `finally': a session is deleted while the deadline allows.
CloseHttp(outcome, s) ==
    /\ result' = outcome
    /\ caller' = IF s THEN "closing" ELSE "returned"

HttpFails ==
    /\ Http /\ caller = "racing"
    /\ pending' = {}
    /\ enum' = Finished(enum)
    /\ CloseHttp("failed", session)
    /\ UNCHANGED <<transport, nextId, answer, output, settled, child, signals,
                   timers, session>>

\* The answer to initialize may name a session; the notification is sent next.
HttpInitialized ==
    /\ Http /\ caller = "racing" /\ enum.at = "init"
    /\ enum' = [enum EXCEPT !.at = "notify"]
    /\ pending' = {}
    /\ session' \in BOOLEAN
    /\ UNCHANGED <<transport, nextId, answer, output, settled, child, signals,
                   timers, caller, result>>

HttpNotified ==
    /\ Http /\ caller = "racing" /\ enum.at = "notify"
    /\ enum' = [enum EXCEPT !.at = "list"]
    /\ Ask
    /\ UNCHANGED <<transport, answer, output, settled, child, signals, timers,
                   session, caller, result>>

HttpAccepts(last) == last \/ ~AtLimit

HttpPage(last, n) ==
    /\ Http /\ caller = "racing" /\ enum.at = "list"
    /\ output + n <= MaxOutput
    /\ output' = output + n
    /\ HttpAccepts(last)
    /\ enum' = WithPage(nextId - 1, last)
    /\ \/ last /\ pending' = {} /\ CloseHttp("ok", session) /\ UNCHANGED nextId
       \/ ~last /\ Ask /\ UNCHANGED <<caller, result>>
    /\ UNCHANGED <<transport, answer, settled, child, signals, timers, session>>

\* The total deadline fails what is outstanding, and the DELETE with it.
HttpExpires ==
    /\ Http /\ "timeout" \in timers
    /\ timers' = timers \ {"timeout"}
    /\ pending' = {}
    /\ enum' = Finished(enum)
    /\ result' = IF caller = "racing" THEN "failed" ELSE result
    /\ caller' = "returned"
    /\ UNCHANGED <<transport, nextId, answer, output, settled, child, signals,
                   session>>

\* The DELETE is answered, or fails unnoticed.
HttpDeleted ==
    /\ Http /\ caller = "closing"
    /\ caller' = "returned"
    /\ session' \in BOOLEAN
    /\ UNCHANGED <<transport, enum, pending, nextId, answer, output, settled,
                   child, signals, timers, result>>

-----------------------------------------------------------------------------
Next ==
    \/ \E id \in 1..nextId, kind \in Kinds, n \in FrameSizes : Frame(id, kind, n)
    \/ OverCap \/ Continue \/ SpawnFails \/ ChildExits \/ StdinBreaks
    \/ Timeout \/ (\E t \in {"escalate", "kill"} : Escalate(t)) \/ GivesUp
    \/ HttpFails \/ HttpInitialized \/ HttpNotified
    \/ \E last \in BOOLEAN, n \in FrameSizes : HttpPage(last, n)
    \/ HttpExpires \/ HttpDeleted

Spec == Init /\ [][Next]_vars

-----------------------------------------------------------------------------
(* When enumerateMcpServer has returned over stdio, its server has exited    *)
(* or was sent SIGKILL: on no path, an answer, an error, the output cap or   *)
(* the timeout, is a server left that ignores SIGTERM.                       *)
NoServerLeft ==
    Stdio /\ caller = "returned" => child # "running" \/ "SIGKILL" \in signals

(* A manifest that is returned holds each page the server listed once and in *)
(* order, whatever other frames arrived; it stops short of the server's last *)
(* page only over stdio, and then it says so.                                *)
ManifestIsTheList ==
    result = "ok" =>
        /\ enum.pages = [i \in 1..Len(enum.pages) |-> i + 1]
        /\ enum.whole \/ (Stdio /\ enum.warned)
        /\ enum.warned => Len(enum.pages) = MaxListPages

(* An enumeration fails or succeeds but never takes the process down: what   *)
(* the comment at src/mcp-client.js:472 takes for granted, and StdinBreaks   *)
(* does not give.                                                            *)
NeverCrashes == caller # "crashed"

=============================================================================
