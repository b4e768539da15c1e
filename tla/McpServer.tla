------------------------------- MODULE McpServer -------------------------------
(***************************************************************************)
(* The MCP server of bin/mcp-server.js: lines arrive on stdin in chunks    *)
(* that end anywhere, are framed, queued (bounded-queue.js), handled four  *)
(* at a time and answered on stdout, which the client reads at its pace.   *)
(* A call's arguments are a function from names to values; a value is a    *)
(* kind ("boolean", "object", "array", "null", "number") or a string.      *)
(***************************************************************************)
EXTENDS BoundedQueue

CONSTANTS Lines,      \* what may be on a line: [size, kind, tool, args]
          Orders,     \* the inputs: sequences of lines, each a task once
          MaxFrame,   \* MAX_BUFFER_BYTES
          MaxOut,     \* bytes of unread output (here: replies) that end the session
          Exposed,    \* the tools the configuration exposes
          Inside      \* the paths whose canonical form lies within the operator's roots

ASSUME ServerAssumption ==
    /\ DOMAIN Lines = Tasks /\ \A t \in Tasks : Bytes[t] = Lines[t].size
    /\ Orders \subseteq Seq(Tasks) /\ \A o \in Orders : Len(o) = Cardinality(ToSet(o))
    /\ 0 \notin Tasks    \* a task stands for its id, 0 for null
    /\ MaxFrame \in Nat \ {0} /\ MaxOut \in Nat

VARIABLES
    order,       \* the input
    line,        \* the line being received,
    offset,      \* and how much of it was received
    left,        \* what is left of the chunk at hand, a newline counting one
    buffer, overflowed,
    input,       \* "open", "ended" (end of stdin), "destroyed"
    begun,       \* requests whose handler passed its checks and awaits the tool
    answered,    \* requests whose handler is through
    replies,     \* history: the replies written, <<id, what>>, with id 0 for null
    unread       \* replies the client has not read

streams == <<order, line, offset, left, buffer, overflowed, input>>
handlers == <<begun, answered, replies, unread>>
serverVars == <<streams, handlers, vars>>

ServerInit ==
    /\ Init
    /\ order \in Orders
    /\ line = 1 /\ offset = 0 /\ left = 0
    /\ buffer = 0 /\ overflowed = FALSE /\ input = "open"
    /\ begun = {} /\ answered = {} /\ replies = << >> /\ unread = 0

\* send: a reply over the limit is dropped, and no more is read from stdin.
Send(id, what, ending) ==
    IF unread > MaxOut
    THEN input' = "destroyed" /\ UNCHANGED <<replies, unread>>
    ELSE /\ replies' = Append(replies, <<id, what>>)
         /\ unread' = unread + 1
         /\ input' = IF ending THEN "destroyed" ELSE input

ClientReads == unread > 0 /\ unread' = unread - 1
               /\ UNCHANGED <<streams, begun, answered, replies, vars>>

----------------------------------------------------------------------------
\* Framing.

More == line <= Len(order)
Size == Lines[order[line]].size

\* A chunk arrives when the one before is dealt with.
Chunk ==
    /\ input = "open" /\ left = 0 /\ More
    /\ left' \in 1 .. Size - offset + 3
    /\ UNCHANGED <<order, line, offset, buffer, overflowed, input, handlers, vars>>

Taken == IF left > Size - offset THEN Size - offset ELSE left
EndsLine == left > Size - offset
Blank(t) == Lines[t].kind = "blank"

\* Mutant: what follows in the line is taken for a new one.
OverflowForgets ==
    /\ More /\ left > 0 /\ ~closed
    /\ ~overflowed /\ buffer + Taken > MaxFrame
    /\ Send(0, "frame", FALSE)
    /\ buffer' = 0
    /\ overflowed' = FALSE
    /\ left' = IF EndsLine THEN left - Taken - 1 ELSE 0
    /\ line' = IF EndsLine THEN line + 1 ELSE line
    /\ offset' = IF EndsLine THEN 0 ELSE offset + Taken
    /\ UNCHANGED <<order, begun, answered, vars>>
\* The part overflows the frame: one error, and the rest of the line is dropped.
Overflow ==
    /\ More /\ left > 0 /\ ~closed
    /\ ~overflowed /\ buffer + Taken > MaxFrame
    /\ Send(0, "frame", FALSE)
    /\ buffer' = 0
    /\ overflowed' = ~EndsLine
    /\ left' = IF EndsLine THEN left - Taken - 1 ELSE 0
    /\ line' = IF EndsLine THEN line + 1 ELSE line
    /\ offset' = IF EndsLine THEN 0 ELSE offset + Taken
    /\ UNCHANGED <<order, begun, answered, vars>>

\* The part does not end the line.
Gather ==
    /\ More /\ left > 0 /\ ~closed /\ ~EndsLine
    /\ overflowed \/ buffer + Taken <= MaxFrame
    /\ buffer' = IF overflowed THEN buffer ELSE buffer + Taken
    /\ offset' = offset + Taken
    /\ left' = 0
    /\ UNCHANGED <<order, line, overflowed, input, handlers, vars>>

\* submit: a blank line is ignored; without room the session is closed.
Submit(t, after) ==
    \/ /\ Blank(t) \/ buffer + Taken = 0
       /\ input' = after /\ UNCHANGED <<replies, unread, vars>>
    \/ /\ ~Blank(t) /\ buffer + Taken > 0
       /\ Accepts(t)
       /\ input' = after /\ UNCHANGED <<replies, unread>>
    \/ /\ ~Blank(t) /\ buffer + Taken > 0
       /\ ~HasRoom(t)
       /\ Send(0, "capacity", TRUE)
       /\ Drops
       /\ UNCHANGED <<executing, failed, running, accepted, started>>

\* The part ends the line.
EndOfLine ==
    /\ More /\ left > 0 /\ ~closed /\ EndsLine
    /\ overflowed \/ buffer + Taken <= MaxFrame
    /\ \/ overflowed /\ UNCHANGED <<input, replies, unread, vars>>
       \/ ~overflowed /\ Submit(order[line], input)
    /\ buffer' = 0 /\ overflowed' = FALSE
    /\ line' = line + 1 /\ offset' = 0
    /\ left' = left - Taken - 1
    /\ UNCHANGED <<order, begun, answered>>

\* The session was closed while a chunk was dealt with: the rest of it is lost.
DropChunk == closed /\ left > 0 /\ left' = 0
             /\ UNCHANGED <<order, line, offset, buffer, overflowed, input, handlers, vars>>

\* A chunk that runs past the input.
PastInput == ~More /\ left > 0 /\ left' = 0
             /\ UNCHANGED <<order, line, offset, buffer, overflowed, input, handlers, vars>>

----------------------------------------------------------------------------
\* The requests.

Kinds == {"boolean", "object", "array", "null", "number"}
TypeOf(v) == IF v \in Kinds THEN v ELSE "string"
OfType(type) == [type |-> {type}, enum |-> {}]
Untyped == [type |-> Kinds \cup {"string"}, enum |-> {}]
OneOf(values) == [type |-> {"string"}, enum |-> values]
Format == OneOf({"markdown", "json"})

\* The advertised arguments of each tool.
Schema ==
    [audit  |-> [packageName |-> OfType("string"), npmMetadata |-> Untyped, githubMetadata |-> Untyped,
                 webPresence |-> Untyped, knownVulnerabilities |-> OfType("array"),
                 provenanceAttestation |-> OfType("object"), npmVsGithubDiff |-> OfType("object"),
                 sourceFiles |-> [type |-> {"object", "array"}, enum |-> {}], outputFormat |-> Format],
     guard  |-> [reference |-> OfType("string"), quarantineRoot |-> OfType("string"),
                 promoteTo |-> OfType("string"), policy |-> OneOf({"safe-only", "allow-review"}),
                 force |-> OfType("boolean"), sourceScan |-> OfType("boolean"),
                 vulnerabilityCheck |-> OfType("boolean"), githubMetadata |-> OfType("boolean"),
                 githubDiff |-> OfType("boolean"), deep |-> OfType("boolean"), outputFormat |-> Format],
     lockfileAudit |-> [lockfilePath |-> OfType("string"), deep |-> OfType("boolean"),
                 deepAll |-> OfType("boolean"), vulnerabilityCheck |-> OfType("boolean"),
                 outputFormat |-> Format],
     triage |-> [lockfilePath |-> OfType("string"), auto |-> OneOf({"allow", "block"}),
                 includeSafe |-> OfType("boolean"), vulnerabilityCheck |-> OfType("boolean"),
                 outputFormat |-> Format]]
Required == [audit |-> {"sourceFiles"}, guard |-> {"reference"},
             lockfileAudit |-> {"lockfilePath"}, triage |-> {"lockfilePath", "auto"}]
PathArguments == {"reference", "quarantineRoot", "promoteTo", "lockfilePath"}
Paths == {"inside", "outside"}      \* path values; a reference may also name a package
Malformed == {"", "nul"}

\* The generic part of validateToolCall: sourceFiles has no type of its own in the schema's table.
Declared(tool, args) ==
    \A k \in DOMAIN args :
        /\ k \in DOMAIN Schema[tool]
        /\ k # "sourceFiles" => TypeOf(args[k]) \in Schema[tool][k].type
        /\ Schema[tool][k].enum # {} => args[k] \in Schema[tool][k].enum

Readable(path) == path \in Inside
\* The checks of each tool.  A path that cannot be resolved is refused like one outside the roots.
ChecksOf(tool, args) ==
    CASE tool = "guard" ->
           /\ "reference" \in DOMAIN args /\ args.reference \notin Malformed
           /\ args.reference \in Paths => Readable(args.reference)
           /\ \A k \in {"quarantineRoot", "promoteTo"} \cap DOMAIN args : Readable(args[k])
      [] tool = "audit" ->
           "sourceFiles" \in DOMAIN args /\ TypeOf(args.sourceFiles) \in {"object", "array"}
      [] OTHER ->
           /\ "lockfilePath" \in DOMAIN args /\ Readable(args.lockfilePath)
           /\ tool = "triage" => "auto" \in DOMAIN args

ValidateToolCall(tool, args) == Declared(tool, args) /\ ChecksOf(tool, args)

Ready(t) == t \in executing /\ t \notin begun \cup answered
Call(t) == Lines[t].kind = "call"
Runs(t) == Call(t) /\ Lines[t].tool \in Exposed \cap DOMAIN Schema
           /\ ValidateToolCall(Lines[t].tool, Lines[t].args)

\* A line that is no request, or that asks for nothing that takes time.
Immediate(t) ==
    /\ Ready(t) /\ ~Runs(t) /\ left = 0
    /\ answered' = answered \cup {t}
    /\ \/ Lines[t].kind = "notification" /\ UNCHANGED <<input, replies, unread>>
       \/ Lines[t].kind \in {"garbage", "value"} /\ Send(0, "error", FALSE)
       \/ Lines[t].kind \in {"ping", "list", "initialize"} /\ Send(t, "result", FALSE)
       \/ Lines[t].kind \in {"call", "unknown"} /\ Send(t, "error", FALSE)
    /\ UNCHANGED <<order, line, offset, left, buffer, overflowed, begun, vars>>

Begin(t) ==
    /\ Ready(t) /\ Runs(t) /\ left = 0
    /\ begun' = begun \cup {t}
    /\ UNCHANGED <<streams, answered, replies, unread, vars>>

\* The tool is through: its report, an error, or for a lockfile scan the verdict the
\* configuration has for a scan that failed.
Answer(t) ==
    /\ t \in begun \ answered /\ left = 0
    /\ answered' = answered \cup {t}
    /\ \/ Send(t, "result", FALSE)
       \/ Lines[t].tool = "lockfileAudit" /\ Send(t, "scan error", FALSE)
       \/ Lines[t].tool # "lockfileAudit" /\ Send(t, "error", FALSE)
    /\ UNCHANGED <<order, line, offset, left, buffer, overflowed, begun, vars>>

\* The promise is settled.
Settle(t) ==
    /\ t \in answered /\ left = 0
    /\ Finally(t)
    /\ UNCHANGED <<streams, handlers>>

\* stdin ends, perhaps without a last newline: what there is of a line is submitted.
EndOfInput ==
    /\ input = "open" /\ left = 0
    /\ buffer' = 0
    /\ \/ /\ More /\ offset = Size /\ ~overflowed
          /\ Submit(order[line], "ended")
       \/ /\ ~More \/ overflowed
          /\ input' = "ended"
          /\ UNCHANGED <<replies, unread, vars>>
    /\ UNCHANGED <<order, line, offset, left, overflowed, begun, answered>>

ServerNext ==
    \/ Chunk \/ Overflow \/ Gather \/ EndOfLine \/ DropChunk \/ PastInput \/ EndOfInput \/ ClientReads
    \/ \E t \in Tasks : Immediate(t) \/ Begin(t) \/ Answer(t) \/ Settle(t)

\* Microtasks run and the tools end, each by its own timeouts.
ServerSpec ==
    /\ ServerInit /\ [][ServerNext]_serverVars
    /\ \A t \in Tasks : WF_serverVars(Immediate(t) \/ Begin(t)) /\ WF_serverVars(Answer(t))
                        /\ WF_serverVars(Settle(t))
    /\ WF_serverVars(Overflow \/ Gather \/ EndOfLine \/ DropChunk \/ PastInput)
----------------------------------------------------------------------------
\* Whatever the chunks, what is queued is one whole line of the input, and never one over the
\* limit: an overlong line costs one error and leaves the lines after it alone.
FramesAreWhole ==
    [][\A t \in ToSet(accepted') \ ToSet(accepted) :
          t = order[line] /\ buffer + Taken = Lines[t].size /\ Lines[t].size <= MaxFrame]_serverVars

RepliesTo(id, what) == {n \in DOMAIN replies : replies[n][1] = id /\ replies[n][2] \in what}
Quiet == executing = {} /\ tasks = << >> /\ left = 0 /\ input # "destroyed"
Overlong == {n \in 1 .. line - 1 : Lines[order[n]].size > MaxFrame}
NoRequest == {t \in ToSet(accepted) : Lines[t].kind \in {"garbage", "value"}}

Answers(t) == Cardinality(RepliesTo(t, {"result", "error", "scan error"}))
Owed(t) == IF Lines[t].kind = "notification" THEN 0 ELSE 1

\* Requests start in the order they came in, also those that waited for a slot.  Each is answered at
\* most once, and when it is quiet exactly once, unless the session ended: a reply that cannot be
\* written ends it.  Notifications are not answered; what cannot be parsed and what is too long
\* costs one error each.
RepliesAreComplete ==
    /\ IsPrefix(started, accepted)
    /\ \A t \in Tasks : Answers(t) <= 1
    /\ Quiet => \A t \in ToSet(accepted) \ NoRequest : Answers(t) = Owed(t)
    /\ Quiet => Answers(0) = Cardinality(NoRequest)
    /\ Quiet /\ ~overflowed => Cardinality(RepliesTo(0, {"frame"})) = Cardinality(Overlong)

\* An accepted request is dealt with, or the session was closed before it started.
RequestsAreHandled == \A t \in Tasks : t \in ToSet(accepted) ~> (t \in answered \/ closed)
=============================================================================
