---------------------------- MODULE BoundedQueue ----------------------------
(***************************************************************************)
(* The bounded task queue of src/bounded-queue.js, behind which the MCP    *)
(* proxy puts the frames of both directions (concurrency 1) and the MCP    *)
(* server its requests (concurrency 4).                                    *)
(*                                                                         *)
(* A task's function runs as a promise: its failure reaches onError in one *)
(* microtask and the counters only in the next, `finally'.  The callers'   *)
(* onError ignores the failure or closes the queue (mcp-proxy.js:841).     *)
(***************************************************************************)
EXTENDS Integers, Sequences, FiniteSets, SequencesExt

CONSTANTS Tasks,          \* the tasks ever handed to enqueue, each once
          Bytes,          \* the bytes each retains
          Concurrency, MaxTasks, MaxBytes,
          Reactions       \* what onError does: "ignore", "close"

ASSUME QueueAssumption ==
    /\ Bytes \in [Tasks -> Nat]
    /\ Concurrency \in Nat \ {0} /\ MaxTasks \in Nat /\ MaxBytes \in Nat
    /\ Reactions \subseteq {"ignore", "close"}

VARIABLES
    tasks,       \* accepted, not started
    executing,   \* promises started and not past `finally'
    failed,      \* those whose function threw
    running, count, bytes, closed,
    accepted,    \* history: every accepted task, in order
    started      \* history: every started task, in order

vars == <<tasks, executing, failed, running, count, bytes, closed, accepted, started>>

Init ==
    /\ tasks = << >> /\ executing = {} /\ failed = {}
    /\ running = 0 /\ count = 0 /\ bytes = 0 /\ closed = FALSE
    /\ accepted = << >> /\ started = << >>

BytesOf(S) == MapThenSumSet(LAMBDA t : Bytes[t], S)

HasRoom(t) == ~closed /\ count < MaxTasks /\ bytes + Bytes[t] <= MaxBytes

\* How many tasks of q the drain loop starts when r are running.
Slots(q, r) ==
    IF closed THEN 0 ELSE IF Concurrency - r < Len(q) THEN Concurrency - r ELSE Len(q)

\* Mutant: the newest tasks start first.
DrainNewest(q, r, ex) ==
    LET n     == Slots(q, r)
        batch == SubSeq(q, Len(q) - n + 1, Len(q))
    IN  /\ tasks' = SubSeq(q, 1, Len(q) - n)
        /\ running' = r + n
        /\ executing' = ex \cup ToSet(batch)
        /\ started' = started \o batch
\* drain, called with the queue, the running count and the promises at hand.
Drain(q, r, ex) ==
    LET n     == Slots(q, r)
        batch == SubSeq(q, 1, n)
    IN  /\ tasks' = SubSeq(q, n + 1, Len(q))
        /\ running' = r + n
        /\ executing' = ex \cup ToSet(batch)
        /\ started' = started \o batch

Accepts(t) ==
    /\ t \notin ToSet(accepted)
    /\ HasRoom(t)
    /\ count' = count + 1
    /\ bytes' = bytes + Bytes[t]
    /\ accepted' = Append(accepted, t)
    /\ Drain(Append(tasks, t), running, executing)
    /\ UNCHANGED <<failed, closed>>

\* Mutant: what is dropped stays in the counters.
DropsUncounted ==
    closed' = TRUE /\ tasks' = << >> /\ UNCHANGED <<count, bytes>>
\* close: drop what waits; what runs is left to its `finally'.
Drops ==
    /\ closed' = TRUE
    /\ count' = count - Len(tasks)
    /\ bytes' = bytes - BytesOf(ToSet(tasks))
    /\ tasks' = << >>

Close ==
    /\ ~closed
    /\ Drops
    /\ UNCHANGED <<executing, failed, running, accepted, started>>

\* The function throws; onError runs, before `finally'.
Fails(t) ==
    /\ t \in executing \ failed
    /\ failed' = failed \cup {t}
    /\ \/ "close" \in Reactions /\ Drops
       \/ "ignore" \in Reactions /\ UNCHANGED <<closed, count, bytes, tasks>>
    /\ UNCHANGED <<executing, running, accepted, started>>

\* Mutant: the waiting tasks are left to the next enqueue.
FinallyWithoutDrain(t) ==
    /\ t \in executing
    /\ failed' = failed \ {t}
    /\ count' = count - 1 /\ running' = running - 1
    /\ bytes' = bytes - Bytes[t]
    /\ executing' = executing \ {t}
    /\ UNCHANGED <<tasks, closed, accepted, started>>
Finally(t) ==
    /\ t \in executing
    /\ failed' = failed \ {t}
    /\ count' = count - 1
    /\ bytes' = bytes - Bytes[t]
    /\ Drain(tasks, running - 1, executing \ {t})
    /\ UNCHANGED <<closed, accepted>>

Next ==
    \/ Close
    \/ \E t \in Tasks : Accepts(t) \/ Fails(t) \/ Finally(t)

Spec == Init /\ [][Next]_vars

\* The queue's owner sees to it that every task function ends.
FairSpec == Spec /\ \A t \in Tasks : WF_vars(Finally(t))

----------------------------------------------------------------------------
TypeOK ==
    /\ tasks \in Seq(Tasks) /\ accepted \in Seq(Tasks) /\ started \in Seq(Tasks)
    /\ executing \subseteq Tasks /\ failed \subseteq executing
    /\ running \in Nat /\ count \in Nat /\ bytes \in Nat /\ closed \in BOOLEAN

\* The counters count queued and executing work and its bytes and nothing else, in
\* whatever order tasks are accepted, fail, end and are dropped (bounded-queue.js:3).
CountsAreExact ==
    /\ running = Cardinality(executing)
    /\ count = Len(tasks) + running
    /\ bytes = BytesOf(ToSet(tasks) \cup executing)

\* The work queued and executing at any time stays within its three limits.
WithinLimits ==
    /\ Cardinality(executing) <= Concurrency
    /\ Len(tasks) + Cardinality(executing) <= MaxTasks
    /\ BytesOf(ToSet(tasks) \cup executing) <= MaxBytes

\* No task waits while there is a free slot: each end of a task starts the next.
NoSlotIsWasted == tasks # << >> => running = Concurrency

============================================================================
