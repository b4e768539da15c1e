------------------------- MODULE BoundedQueueProofs -------------------------
(* Theorems about BoundedQueue and about McpServer, which drives that      *)
(* queue, for every value of their constants.                              *)
EXTENDS McpServer, FoldTheorems

\* A queue of distinct tasks, none of them executing, r of which are running.
Consistent(q, r, ex) ==
    /\ q \in Seq(Tasks) /\ ex \subseteq Tasks /\ IsFiniteSet(ex)
    /\ \A i, j \in 1..Len(q) : q[i] = q[j] => i = j
    /\ \A i \in 1..Len(q) : q[i] \notin ex
    /\ r = Cardinality(ex) /\ r <= Concurrency

\* The number of tasks the drain loop starts fits the queue and the free slots.
LEMMA SlotsBounded ==
    ASSUME NEW q \in Seq(Tasks), NEW r \in Nat, r <= Concurrency
    PROVE  /\ Slots(q, r) \in 0..Len(q)
           /\ r + Slots(q, r) <= Concurrency
           /\ ~closed /\ Slots(q, r) < Len(q) => r + Slots(q, r) = Concurrency
  BY QueueAssumption DEF Slots

\* A prefix of distinct elements has as many elements as its length.
LEMMA PrefixCardinality ==
    ASSUME NEW q \in Seq(Tasks), NEW n \in 0..Len(q),
           \A i, j \in 1..Len(q) : q[i] = q[j] => i = j
    PROVE  /\ ToSet(SubSeq(q, 1, n)) = {q[i] : i \in 1..n}
           /\ IsFiniteSet(ToSet(SubSeq(q, 1, n)))
           /\ Cardinality(ToSet(SubSeq(q, 1, n))) = n
  <1> DEFINE batch == SubSeq(q, 1, n)
  <1>1. n \in Nat /\ n <= Len(q)
    OBVIOUS
  <1>2. Len(batch) = n /\ \A i \in 1..n : batch[i] = q[i]
    BY <1>1
  <1>3. ToSet(batch) = {q[i] : i \in 1..n}
    <2>1. batch \in Seq(Tasks)
      BY <1>1
    <2>2. DOMAIN batch = 1..n
      BY <1>2, <2>1
    <2> HIDE DEF batch
    <2> QED BY <1>2, <2>2 DEF ToSet
  <1> DEFINE f == [i \in 1..n |-> q[i]]
  <1>4. f \in Bijection(1..n, ToSet(batch))
    BY <1>1, <1>3 DEF Bijection, Injection, Surjection, IsInjective
  <1>5. ExistsBijection(1..n, ToSet(batch))
    BY <1>4 DEF ExistsBijection
  <1>6. IsFiniteSet(ToSet(batch))
    BY <1>1, <1>5, FS_NatBijection
  <1> QED BY <1>1, <1>3, <1>5, <1>6, FS_CountingElements

\* drain keeps the queue consistent, moves tasks without losing any, and
\* leaves something waiting only when every slot is taken.
LEMMA DrainKeeps ==
    ASSUME NEW q, NEW r, NEW ex, Consistent(q, r, ex), Drain(q, r, ex)
    PROVE  /\ Consistent(tasks', running', executing')
           /\ Len(tasks') + running' = Len(q) + r
           /\ ~closed => (tasks' # << >> => running' = Concurrency)
           /\ closed /\ q = << >> => tasks' = << >>
           /\ ToSet(tasks') \cup executing' = ToSet(q) \cup ex
  <1> DEFINE n == Slots(q, r)
             batch == SubSeq(q, 1, n)
  <1>1. q \in Seq(Tasks) /\ r \in Nat /\ r <= Concurrency
    BY FS_CardinalityType DEF Consistent
  <1>2. /\ n \in 0..Len(q) /\ r + n <= Concurrency
        /\ ~closed /\ n < Len(q) => r + n = Concurrency
    BY <1>1, SlotsBounded
  <1>3. /\ tasks' = SubSeq(q, n + 1, Len(q))
        /\ running' = r + n
        /\ executing' = ex \cup ToSet(batch)
    BY DEF Drain
  <1>4. /\ ToSet(batch) = {q[i] : i \in 1..n}
        /\ IsFiniteSet(ToSet(batch)) /\ Cardinality(ToSet(batch)) = n
    BY <1>1, <1>2, PrefixCardinality DEF Consistent
  <1> HIDE DEF n, batch
  <1>5. n \in Nat /\ n <= Len(q) /\ Len(q) \in Nat
    BY <1>1, <1>2
  <1>6. /\ tasks' \in Seq(Tasks) /\ Len(tasks') = Len(q) - n
        /\ \A i \in 1..Len(tasks') : tasks'[i] = q[n + i] /\ n + i \in 1..Len(q)
    BY <1>1, <1>3, <1>5
  <1>7. ex \cap ToSet(batch) = {}
    BY <1>4, <1>5 DEF Consistent
  <1>8. IsFiniteSet(executing') /\ running' = Cardinality(executing')
    <2>1. IsFiniteSet(ex) /\ r = Cardinality(ex)
      BY DEF Consistent
    <2>2. Cardinality(ex \cap ToSet(batch)) = 0
      BY <1>7, FS_EmptySet
    <2>3. /\ IsFiniteSet(ex \cup ToSet(batch))
          /\ Cardinality(ex \cup ToSet(batch))
               = Cardinality(ex) + Cardinality(ToSet(batch)) - Cardinality(ex \cap ToSet(batch))
      BY <1>4, <2>1, FS_Union
    <2> QED BY <1>1, <1>3, <1>4, <1>5, <2>1, <2>2, <2>3
  <1>9. executing' \subseteq Tasks
    BY <1>1, <1>3, <1>4, <1>5 DEF Consistent
  <1>10. \A i, j \in 1..Len(tasks') : tasks'[i] = tasks'[j] => i = j
    BY <1>5, <1>6 DEF Consistent
  <1>11. \A i \in 1..Len(tasks') : tasks'[i] \notin executing'
    <2> SUFFICES ASSUME NEW i \in 1..Len(tasks') PROVE tasks'[i] \notin executing'
      OBVIOUS
    <2>1. q[n + i] \notin ex
      BY <1>6 DEF Consistent
    <2>2. ASSUME NEW j \in 1..n PROVE q[n + i] # q[j]
      BY <1>5, <1>6 DEF Consistent
    <2> QED BY <1>3, <1>4, <1>6, <2>1, <2>2
  <1>12. Consistent(tasks', running', executing')
    BY <1>2, <1>3, <1>6, <1>8, <1>9, <1>10, <1>11 DEF Consistent
  <1>13. Len(tasks') + running' = Len(q) + r
    <2>1. Len(tasks') = Len(q) - n
      BY <1>6
    <2>2. running' = r + n
      BY <1>3
    <2>3. n \in Nat /\ Len(q) \in Nat /\ r \in Nat
      BY <1>1, <1>5
    <2> QED BY <2>1, <2>2, <2>3
  <1>14. ~closed => (tasks' # << >> => running' = Concurrency)
    BY <1>2, <1>3, <1>5, <1>6
  <1>15. closed /\ q = << >> => tasks' = << >>
    BY <1>5, <1>6
  <1>16. ToSet(tasks') \cup executing' = ToSet(q) \cup ex
    <2>1. ASSUME NEW t, t \in ToSet(tasks') PROVE t \in ToSet(q)
      <3>1. PICK i \in 1..Len(tasks') : tasks'[i] = t
        BY <1>6, <2>1 DEF ToSet
      <3>2. q[n + i] = t /\ n + i \in 1..Len(q)
        BY <1>6, <3>1
      <3> QED BY <1>1, <3>2 DEF ToSet
    <2>2. \A t : t \in ToSet(batch) => t \in ToSet(q)
      BY <1>1, <1>4, <1>5 DEF ToSet
    <2>3. ASSUME NEW t, t \in ToSet(q) PROVE t \in ToSet(tasks') \cup ToSet(batch)
      <3>1. PICK i \in 1..Len(q) : q[i] = t
        BY <1>1, <2>3 DEF ToSet
      <3>2. CASE i <= n
        BY <1>4, <1>5, <3>1, <3>2
      <3>3. CASE i > n
        <4>1. i - n \in 1..Len(tasks') /\ n + (i - n) = i
          BY <1>5, <1>6, <3>3
        <4>2. tasks'[i - n] = t
          BY <1>6, <3>1, <4>1
        <4> QED BY <1>6, <4>1, <4>2 DEF ToSet
      <3> QED BY <1>5, <3>2, <3>3
    <2> QED BY <1>3, <2>1, <2>2, <2>3
  <1> QED BY <1>12, <1>13, <1>14, <1>15, <1>16

----------------------------------------------------------------------------
\* What is queued and executing, and the bytes it retains.
Held == ToSet(tasks) \cup executing

LEMMA BytesAreSums == \A S : BytesOf(S) = SumOf(Bytes, S)
  BY DEF BytesOf, SumOf

LEMMA BytesTaken ==
    ASSUME NEW S \in SUBSET Tasks, IsFiniteSet(S)
    PROVE  /\ BytesOf(S) \in Nat
           /\ S = {} => BytesOf(S) = 0
           /\ \A t \in S : BytesOf(S) = Bytes[t] + BytesOf(S \ {t})
  <1>1. \A t \in S : Bytes[t] \in Nat
    BY QueueAssumption
  <1> QED BY <1>1, SumTaken, BytesAreSums

LEMMA QueuedAreFinite ==
    ASSUME NEW q, NEW r, NEW ex, Consistent(q, r, ex)
    PROVE  /\ ToSet(q) \subseteq Tasks /\ IsFiniteSet(ToSet(q)) /\ ex \subseteq Tasks /\ IsFiniteSet(ex)
           /\ ToSet(q) \cap ex = {} /\ IsFiniteSet(ToSet(q) \cup ex)
  <1>1. q \in Seq(Tasks) /\ Len(q) \in 0..Len(q) /\ \A i, j \in 1..Len(q) : q[i] = q[j] => i = j
    BY DEF Consistent
  <1>2. ToSet(q) = {q[i] : i \in 1..Len(q)}
    BY <1>1 DEF ToSet
  <1>3. IsFiniteSet(ToSet(q))
    BY <1>1, <1>2, PrefixCardinality
  <1>4. ToSet(q) \subseteq Tasks /\ ToSet(q) \cap ex = {}
    BY <1>1, <1>2 DEF Consistent
  <1> QED BY <1>3, <1>4, FS_Union DEF Consistent

\* Inductive: the queue is consistent, its counters are exact, and every task
\* in it was accepted, so that no task is in it twice.
QueueInv ==
    /\ Consistent(tasks, running, executing)
    /\ count = Len(tasks) + running /\ count <= MaxTasks
    /\ bytes = BytesOf(Held) /\ bytes <= MaxBytes
    /\ ~closed /\ tasks # << >> => running = Concurrency
    /\ closed => tasks = << >>
    /\ accepted \in Seq(Tasks)
    /\ Held \subseteq ToSet(accepted)

LEMMA AcceptKeeps == ASSUME QueueInv, NEW t \in Tasks, Accepts(t) PROVE QueueInv'
  <1> DEFINE q == Append(tasks, t)
  <1>1. /\ tasks \in Seq(Tasks) /\ q \in Seq(Tasks) /\ Len(q) = Len(tasks) + 1
        /\ running \in Nat /\ count \in Nat
    BY FS_CardinalityType DEF QueueInv, Consistent
  <1>2. \A i \in 1..Len(tasks) : q[i] = tasks[i] /\ q[i] \in ToSet(accepted)
    <2>1. \A i \in 1..Len(tasks) : q[i] = tasks[i]
      BY <1>1
    <2>2. \A i \in 1..Len(tasks) : tasks[i] \in ToSet(tasks)
      BY <1>1 DEF ToSet
    <2> QED BY <2>1, <2>2 DEF QueueInv, Held
  <1>3. q[Len(q)] = t /\ t \notin ToSet(accepted) /\ t \notin executing
    BY <1>1 DEF Accepts, QueueInv, Held
  <1> HIDE DEF q
  <1>4. Consistent(q, running, executing)
    <2>1. \A i \in 1..Len(q) : i \in 1..Len(tasks) \/ i = Len(q)
      BY <1>1
    <2>2. \A i, j \in 1..Len(q) : q[i] = q[j] => i = j
      BY <1>2, <1>3, <2>1 DEF QueueInv, Consistent
    <2>3. \A i \in 1..Len(q) : q[i] \notin executing
      BY <1>2, <1>3, <2>1 DEF QueueInv, Consistent
    <2> QED BY <1>1, <2>2, <2>3 DEF QueueInv, Consistent
  <1>5. Drain(q, running, executing) /\ ~closed /\ UNCHANGED closed
        /\ count < MaxTasks /\ count' = count + 1 /\ accepted' = Append(accepted, t)
    BY DEF Accepts, HasRoom, q
  <1>6. /\ Consistent(tasks', running', executing')
        /\ Len(tasks') + running' = Len(q) + running
        /\ tasks' # << >> => running' = Concurrency
        /\ Held' = ToSet(q) \cup executing
    BY <1>4, <1>5, DrainKeeps DEF Held
  <1>7. count' = Len(tasks') + running' /\ count' <= MaxTasks
    BY <1>1, <1>5, <1>6, QueueAssumption DEF QueueInv
  <1>8. accepted' \in Seq(Tasks) /\ ToSet(accepted') = ToSet(accepted) \cup {t}
    BY <1>5 DEF QueueInv, ToSet
  <1>9. ToSet(q) = ToSet(tasks) \cup {t}
    BY <1>1, ToSetAppend DEF q
  <1>10. Held' = Held \cup {t} /\ t \notin Held
    BY <1>3, <1>6, <1>9 DEF Held, QueueInv
  <1>11. bytes' = BytesOf(Held') /\ bytes' <= MaxBytes
    <2>1. /\ Held' \subseteq Tasks /\ IsFiniteSet(Held') /\ Held \subseteq Tasks /\ IsFiniteSet(Held)
      <3>1. Held \subseteq Tasks /\ IsFiniteSet(Held)
        BY QueuedAreFinite DEF QueueInv, Held
      <3> QED BY <1>10, <3>1, FS_AddElement
    <2>2. BytesOf(Held') = Bytes[t] + BytesOf(Held' \ {t}) /\ Held' \ {t} = Held
      BY <1>10, <2>1, BytesTaken
    <2>3. BytesOf(Held) \in Nat /\ Bytes[t] \in Nat
      BY <2>1, BytesTaken, QueueAssumption
    <2>4. bytes' = bytes + Bytes[t] /\ bytes + Bytes[t] <= MaxBytes /\ bytes = BytesOf(Held)
      BY DEF Accepts, HasRoom, QueueInv
    <2> QED BY <2>2, <2>3, <2>4
  <1>12. Held' \subseteq ToSet(accepted')
    BY <1>8, <1>10 DEF QueueInv
  <1> QED BY <1>5, <1>6, <1>7, <1>8, <1>11, <1>12 DEF QueueInv

LEMMA DropKeeps ==
    ASSUME QueueInv, Drops, UNCHANGED <<executing, running, accepted>>
    PROVE  QueueInv'
  <1>1. tasks' = << >> /\ closed' = TRUE /\ count' = count - Len(tasks)
    BY DEF Drops
  <1>2. tasks \in Seq(Tasks) /\ running \in Nat
    BY FS_CardinalityType DEF QueueInv, Consistent
  <1>3. count' = Len(tasks') + running' /\ count' <= MaxTasks
    BY <1>1, <1>2, QueueAssumption DEF QueueInv
  <1>4. Consistent(tasks', running', executing')
    BY <1>1 DEF QueueInv, Consistent
  <1>5. ToSet(tasks') = {}
    BY <1>1 DEF ToSet
  <1>6. Held' = executing /\ Held = ToSet(tasks) \cup executing
    BY <1>5 DEF Held
  <1>7. bytes' = BytesOf(Held') /\ bytes' <= MaxBytes
    <2>1. /\ ToSet(tasks) \subseteq Tasks /\ IsFiniteSet(ToSet(tasks))
          /\ executing \subseteq Tasks /\ IsFiniteSet(executing) /\ ToSet(tasks) \cap executing = {}
      BY QueuedAreFinite DEF QueueInv
    <2>2. BytesOf(Held) = BytesOf(ToSet(tasks)) + BytesOf(executing)
      <3>1. \A t \in ToSet(tasks) \cup executing : Bytes[t] \in Nat
        BY <2>1, QueueAssumption
      <3> QED BY <1>6, <2>1, <3>1, SumOfTwo, BytesAreSums
    <2>3. BytesOf(ToSet(tasks)) \in Nat /\ BytesOf(executing) \in Nat
      BY <2>1, BytesTaken
    <2>4. bytes' = bytes - BytesOf(ToSet(tasks)) /\ bytes = BytesOf(Held) /\ bytes <= MaxBytes
      BY DEF Drops, QueueInv
    <2>5. MaxBytes \in Nat
      BY QueueAssumption
    <2> QED BY <1>6, <2>2, <2>3, <2>4, <2>5
  <1>8. Held' \subseteq ToSet(accepted')
    BY <1>6 DEF QueueInv
  <1> QED BY <1>1, <1>3, <1>4, <1>7, <1>8 DEF QueueInv

LEMMA FinallyKeeps == ASSUME QueueInv, NEW t \in Tasks, Finally(t) PROVE QueueInv'
  <1>1. /\ t \in executing /\ count' = count - 1 /\ UNCHANGED <<closed, accepted>>
        /\ Drain(tasks, running - 1, executing \ {t})
    BY DEF Finally
  <1>2. /\ IsFiniteSet(executing \ {t}) /\ Cardinality(executing \ {t}) = running - 1
        /\ running \in Nat /\ running <= Concurrency
    <2>1. /\ executing \subseteq Tasks /\ IsFiniteSet(executing)
          /\ running = Cardinality(executing) /\ running <= Concurrency
      BY DEF QueueInv, Consistent
    <2>2. Cardinality(executing \ {t}) = Cardinality(executing) - 1 /\ IsFiniteSet(executing \ {t})
      BY <1>1, <2>1, FS_RemoveElement
    <2> QED BY <2>1, <2>2, FS_CardinalityType
  <1>3. Consistent(tasks, running - 1, executing \ {t})
    BY <1>2, QueueAssumption DEF QueueInv, Consistent
  <1>4. /\ Consistent(tasks', running', executing')
        /\ Len(tasks') + running' = Len(tasks) + (running - 1)
        /\ ~closed => (tasks' # << >> => running' = Concurrency)
        /\ closed /\ tasks = << >> => tasks' = << >>
        /\ Held' = ToSet(tasks) \cup (executing \ {t})
    BY <1>1, <1>3, DrainKeeps DEF Held
  <1>5. count' = Len(tasks') + running' /\ count' <= MaxTasks
    <2>1. tasks \in Seq(Tasks) /\ Len(tasks) \in Nat /\ running \in Nat
      BY <1>2 DEF QueueInv, Consistent
    <2>2. tasks' \in Seq(Tasks) /\ Len(tasks') \in Nat
      BY <1>4 DEF Consistent
    <2>3. running' \in Nat
      BY <1>4, FS_CardinalityType DEF Consistent
    <2> QED BY <1>1, <1>4, <2>1, <2>2, <2>3, QueueAssumption DEF QueueInv
  <1>6. Held' = Held \ {t} /\ t \in Held
    <2>1. ToSet(tasks) \cap executing = {}
      BY QueuedAreFinite DEF QueueInv
    <2> QED BY <1>1, <1>4, <2>1 DEF Held
  <1>7. bytes' = BytesOf(Held') /\ bytes' <= MaxBytes
    <2>1. Held \subseteq Tasks /\ IsFiniteSet(Held)
      BY QueuedAreFinite DEF QueueInv, Held
    <2>2. BytesOf(Held) = Bytes[t] + BytesOf(Held')
      BY <1>6, <2>1, BytesTaken
    <2>3. Held' \subseteq Tasks /\ IsFiniteSet(Held')
      BY <1>6, <2>1, FS_RemoveElement
    <2>4. BytesOf(Held') \in Nat /\ Bytes[t] \in Nat
      BY <2>3, BytesTaken, QueueAssumption
    <2>5. bytes' = bytes - Bytes[t] /\ bytes = BytesOf(Held) /\ bytes <= MaxBytes
      BY DEF Finally, QueueInv
    <2>6. MaxBytes \in Nat
      BY QueueAssumption
    <2> QED BY <2>2, <2>4, <2>5, <2>6
  <1> QED BY <1>1, <1>4, <1>5, <1>6, <1>7 DEF QueueInv

LEMMA QueueInvariant == Spec => []QueueInv
  <1>1. Init => QueueInv
    <2> SUFFICES ASSUME Init PROVE QueueInv
      OBVIOUS
    <2>1. Consistent(tasks, running, executing)
      <3>1. tasks = << >> /\ executing = {} /\ running = 0
        BY DEF Init
      <3>2. IsFiniteSet({}) /\ Cardinality({}) = 0
        BY FS_EmptySet
      <3> QED BY <3>1, <3>2, QueueAssumption DEF Consistent
    <2>2. /\ tasks = << >> /\ accepted = << >> /\ executing = {}
          /\ running = 0 /\ count = 0 /\ closed = FALSE
      BY DEF Init
    <2>3. ToSet(tasks) = {}
      BY <2>2 DEF ToSet
    <2>4. count = Len(tasks) + running /\ count <= MaxTasks
      BY <2>2, QueueAssumption
    <2>5. accepted \in Seq(Tasks)
      BY <2>2
    <2>6. Held = {} /\ bytes = BytesOf(Held) /\ bytes <= MaxBytes
      <3>1. Held = {} /\ bytes = 0
        BY <2>2, <2>3 DEF Held, Init
      <3>2. BytesOf({}) = 0
        <4>1. IsFiniteSet({})
          BY FS_EmptySet
        <4> QED BY <4>1, BytesTaken
      <3> QED BY <3>1, <3>2, QueueAssumption
    <2> QED BY <2>1, <2>2, <2>4, <2>5, <2>6 DEF QueueInv
  <1>2. QueueInv /\ [Next]_vars => QueueInv'
    <2> SUFFICES ASSUME QueueInv, [Next]_vars PROVE QueueInv'
      OBVIOUS
    <2>1. CASE Close
      BY <2>1, DropKeeps DEF Close
    <2>2. ASSUME NEW t \in Tasks, Fails(t) PROVE QueueInv'
      <3>1. CASE Drops
        BY <2>2, <3>1, DropKeeps DEF Fails
      <3>2. CASE UNCHANGED <<closed, count, bytes, tasks>>
        <4>1. UNCHANGED <<tasks, running, executing, count, closed, accepted>>
          BY <2>2, <3>2 DEF Fails
        <4>2. bytes' = bytes /\ Held' = Held
          BY <3>2, <4>1 DEF Held
        <4> QED BY <4>1, <4>2 DEF QueueInv, Consistent
      <3> QED BY <2>2, <3>1, <3>2 DEF Fails
    <2>3. CASE UNCHANGED vars
      BY <2>3 DEF QueueInv, Consistent, Held, vars
    <2> QED BY <2>1, <2>2, <2>3, AcceptKeeps, FinallyKeeps DEF Next
  <1> QED BY <1>1, <1>2, PTL DEF Spec

\* The three counters are exact in every reachable state.
THEOREM CountersCount == Spec => []CountsAreExact
  <1>1. QueueInv => CountsAreExact
    BY DEF QueueInv, Consistent, Held, CountsAreExact
  <1> QED BY <1>1, QueueInvariant, PTL

\* What is queued and executing never exceeds Concurrency, MaxTasks and MaxBytes.
THEOREM LimitsHold == Spec => []WithinLimits
  <1>1. QueueInv => WithinLimits
    BY DEF QueueInv, Consistent, Held, WithinLimits
  <1> QED BY <1>1, QueueInvariant, PTL

\* No accepted task waits beside a free slot.
THEOREM SlotsAreUsed == Spec => []NoSlotIsWasted
  <1>1. QueueInv => NoSlotIsWasted
    BY DEF QueueInv, NoSlotIsWasted
  <1> QED BY <1>1, QueueInvariant, PTL

-----------------------------------------------------------------------------
(* The MCP server.                                                         *)

\* Unless a line overflowed the frame, the buffer holds what was received of
\* it, for as long as anything of it is still to be dealt with.
FrameTypes ==
    /\ order \in Orders /\ line \in Nat \ {0} /\ offset \in Nat /\ left \in Nat
    /\ buffer \in 0 .. MaxFrame /\ overflowed \in BOOLEAN
    /\ input \in {"open", "ended", "destroyed"}
    /\ More => offset <= Size
Gathered == More /\ ~overflowed /\ (left > 0 \/ input = "open") => buffer = offset
DroppedIsOverlong == More /\ overflowed => Size > MaxFrame
ClosedEndsInput == closed => input = "destroyed"

FrameInv == FrameTypes /\ Gathered /\ DroppedIsOverlong /\ ClosedEndsInput

LEMMA LineIsTask ==
    ASSUME QueueAssumption, ServerAssumption, order \in Orders, line \in Nat \ {0}, More
    PROVE  order[line] \in Tasks /\ Size \in Nat /\ Size = Lines[order[line]].size
  <1>1. order \in Seq(Tasks)
    BY DEF ServerAssumption
  <1>2. line \in 1 .. Len(order)
    BY <1>1 DEF More
  <1>3. order[line] \in Tasks
    BY <1>1, <1>2
  <1> QED BY <1>3 DEF Size, QueueAssumption, ServerAssumption

\* What is taken of a chunk ends at the end of the line at the latest.
LEMMA TakenFits ==
    ASSUME Size \in Nat, offset \in Nat, left \in Nat, offset <= Size
    PROVE  /\ Taken \in Nat /\ offset + Taken <= Size /\ Taken <= left
           /\ EndsLine => offset + Taken = Size /\ left - Taken - 1 \in Nat
           /\ ~EndsLine => Taken = left
  BY DEF Taken, EndsLine

\* A reply, written or not, opens no input.
LEMMA SendEnds ==
    ASSUME NEW id, NEW what, NEW ending \in BOOLEAN, Send(id, what, ending),
           input \in {"open", "ended", "destroyed"}
    PROVE  /\ input' \in {input, "destroyed"} /\ (ending => input' = "destroyed")
           /\ input = "destroyed" => input' = "destroyed"
  BY DEF Send

LEMMA SubmitEnds ==
    ASSUME NEW t, NEW after \in {"open", "ended", "destroyed"}, Submit(t, after),
           input \in {"open", "ended", "destroyed"}
    PROVE  /\ input' \in {"open", "ended", "destroyed"}
           /\ after = "ended" => input' # "open"
           /\ input = "destroyed" /\ after = input => input' = "destroyed"
           /\ closed' /\ ~closed => input' = "destroyed"
           /\ input' \in {after, input, "destroyed"}
  <1>1. CASE input' = after /\ UNCHANGED vars
    BY <1>1 DEF vars
  <1>2. CASE input' = after /\ Accepts(t)
    BY <1>2 DEF Accepts
  <1>3. CASE Send(0, "capacity", TRUE)
    BY <1>3 DEF Send
  <1> QED BY <1>1, <1>2, <1>3 DEF Submit

LEMMA FrameInit == ASSUME QueueAssumption, ServerAssumption, ServerInit PROVE FrameInv
  <1>1. /\ order \in Orders /\ line = 1 /\ offset = 0 /\ left = 0 /\ buffer = 0
        /\ overflowed = FALSE /\ input = "open" /\ closed = FALSE
    BY DEF ServerInit, Init
  <1>2. FrameTypes
    <2>1. More => offset <= Size
      BY <1>1, LineIsTask
    <2>2. buffer \in 0 .. MaxFrame
      BY <1>1 DEF ServerAssumption
    <2>3. overflowed \in BOOLEAN
      BY <1>1
    <2> QED BY <1>1, <2>1, <2>2, <2>3 DEF FrameTypes
  <1>3. ~overflowed /\ ~closed
    BY <1>1
  <1> QED BY <1>1, <1>2, <1>3 DEF FrameInv, Gathered, DroppedIsOverlong, ClosedEndsInput

USE DEF streams, handlers

LEMMA ChunkFrames ==
    ASSUME QueueAssumption, ServerAssumption, FrameInv, Chunk PROVE FrameInv'
  <1>1. UNCHANGED <<order, line, offset, buffer, overflowed, input, closed>> /\ input = "open" /\ More
    BY DEF Chunk, vars
  <1>2. Size \in Nat /\ offset \in Nat /\ offset <= Size
    BY <1>1, LineIsTask DEF FrameInv, FrameTypes
  <1>3. left' \in Nat
    BY <1>2 DEF Chunk
  <1>4. FrameTypes'
    BY <1>1, <1>3 DEF FrameInv, FrameTypes, More, Size
  <1> QED BY <1>1, <1>4 DEF FrameInv, Gathered, DroppedIsOverlong, ClosedEndsInput, More, Size

\* The next line starts empty.
LEMMA NextLineFrames ==
    ASSUME QueueAssumption, ServerAssumption, FrameInv,
           UNCHANGED order, line' = line + 1, offset' = 0, buffer' = 0, overflowed' = FALSE,
           left' \in Nat, input' \in {"open", "ended", "destroyed"}, ClosedEndsInput'
    PROVE  FrameInv'
  <1>1. line' \in Nat \ {0} /\ order' \in Orders
    BY DEF FrameInv, FrameTypes
  <1>2. More' => Size' \in Nat
    <2>1. ASSUME More' PROVE order'[line'] \in Tasks
      <3>1. order' \in Seq(Tasks)
        BY <1>1 DEF ServerAssumption
      <3>2. line' \in 1 .. Len(order')
        BY <1>1, <2>1, <3>1 DEF More
      <3> QED BY <3>1, <3>2
    <2> QED BY <2>1 DEF Size, QueueAssumption, ServerAssumption
  <1>3. FrameTypes'
    <2>1. More' => offset' <= Size'
      BY <1>2
    <2>2. buffer' \in 0 .. MaxFrame
      BY DEF ServerAssumption
    <2>3. overflowed' \in BOOLEAN
      OBVIOUS
    <2> QED BY <1>1, <2>1, <2>2, <2>3 DEF FrameTypes
  <1>4. ~overflowed'
    OBVIOUS
  <1> QED BY <1>3, <1>4 DEF FrameInv, Gathered, DroppedIsOverlong

LEMMA OverflowFrames ==
    ASSUME QueueAssumption, ServerAssumption, FrameInv, Overflow
    PROVE  FrameInv' /\ Size > MaxFrame
  <1>1. /\ More /\ left > 0 /\ ~overflowed /\ buffer + Taken > MaxFrame
        /\ Send(0, "frame", FALSE) /\ UNCHANGED <<order, closed>> /\ buffer' = 0
    BY DEF Overflow, vars
  <1>2. Size \in Nat /\ offset \in Nat /\ left \in Nat /\ offset <= Size /\ buffer = offset
    BY <1>1, LineIsTask DEF FrameInv, FrameTypes, Gathered
  <1>3. /\ Taken \in Nat /\ offset + Taken <= Size
        /\ EndsLine => left - Taken - 1 \in Nat
    BY <1>2, TakenFits
  <1>4. Size > MaxFrame
    BY <1>1, <1>2, <1>3, ServerAssumption DEF ServerAssumption
  <1>5. input' \in {"open", "ended", "destroyed"} /\ ClosedEndsInput'
    <2>1. input' \in {input, "destroyed"} /\ (input = "destroyed" => input' = "destroyed")
      BY <1>1, SendEnds DEF FrameInv, FrameTypes
    <2> QED BY <1>1, <2>1 DEF FrameInv, FrameTypes, ClosedEndsInput
  <1>6. CASE EndsLine
    BY <1>1, <1>3, <1>4, <1>5, <1>6, NextLineFrames DEF Overflow
  <1>7. CASE ~EndsLine
    <2>1. line' = line /\ overflowed' = TRUE /\ offset' = offset + Taken /\ left' = 0
      BY <1>7 DEF Overflow
    <2>2. FrameTypes'
      BY <1>1, <1>2, <1>3, <1>5, <2>1, ServerAssumption
        DEF FrameInv, FrameTypes, More, Size, ServerAssumption
    <2>3. DroppedIsOverlong'
      BY <1>1, <1>4, <2>1 DEF DroppedIsOverlong, Size
    <2> QED BY <1>4, <1>5, <2>1, <2>2, <2>3 DEF FrameInv, Gathered
  <1> QED BY <1>6, <1>7

LEMMA GatherFrames ==
    ASSUME QueueAssumption, ServerAssumption, FrameInv, Gather PROVE FrameInv'
  <1>1. /\ More /\ left > 0 /\ ~EndsLine /\ (overflowed \/ buffer + Taken <= MaxFrame)
        /\ buffer' = (IF overflowed THEN buffer ELSE buffer + Taken)
        /\ offset' = offset + Taken /\ left' = 0
        /\ UNCHANGED <<order, line, overflowed, input, closed>>
    BY DEF Gather, vars
  <1>2. /\ Size \in Nat /\ offset \in Nat /\ left \in Nat /\ offset <= Size
        /\ ~overflowed => buffer = offset
    BY <1>1, LineIsTask DEF FrameInv, FrameTypes, Gathered
  <1>3. Taken \in Nat /\ offset + Taken <= Size
    BY <1>2, TakenFits
  <1>4. buffer' \in 0 .. MaxFrame
    BY <1>1, <1>3 DEF FrameInv, FrameTypes, ServerAssumption
  <1>5. FrameTypes'
    BY <1>1, <1>2, <1>3, <1>4 DEF FrameInv, FrameTypes, More, Size
  <1>6. Gathered'
    BY <1>1, <1>2 DEF Gathered
  <1> QED BY <1>1, <1>5, <1>6 DEF FrameInv, DroppedIsOverlong, ClosedEndsInput, More, Size

LEMMA EndOfLineFrames ==
    ASSUME QueueAssumption, ServerAssumption, FrameInv, EndOfLine PROVE FrameInv'
  <1>1. /\ More /\ left > 0 /\ ~closed /\ EndsLine
        /\ \/ UNCHANGED input /\ UNCHANGED vars
           \/ Submit(order[line], input)
        /\ UNCHANGED order /\ line' = line + 1 /\ offset' = 0 /\ buffer' = 0
        /\ overflowed' = FALSE /\ left' = left - Taken - 1
    BY DEF EndOfLine
  <1>2. Size \in Nat /\ offset \in Nat /\ left \in Nat /\ offset <= Size
    BY <1>1, LineIsTask DEF FrameInv, FrameTypes
  <1>3. left' \in Nat
    BY <1>1, <1>2, TakenFits
  <1>4. input' \in {"open", "ended", "destroyed"} /\ ClosedEndsInput'
    <2>1. CASE UNCHANGED input /\ UNCHANGED vars
      BY <2>1 DEF FrameInv, FrameTypes, ClosedEndsInput, vars
    <2>2. CASE Submit(order[line], input)
      BY <1>1, <2>2, SubmitEnds DEF FrameInv, FrameTypes, ClosedEndsInput
    <2> QED BY <1>1, <2>1, <2>2
  <1> QED BY <1>1, <1>3, <1>4, NextLineFrames

LEMMA EndOfInputFrames ==
    ASSUME QueueAssumption, ServerAssumption, FrameInv, EndOfInput PROVE FrameInv'
  <1>1. /\ input = "open" /\ left = 0 /\ buffer' = 0 /\ left' = left
        /\ \/ Submit(order[line], "ended")
           \/ input' = "ended" /\ UNCHANGED vars
        /\ UNCHANGED <<order, line, offset, overflowed>>
    BY DEF EndOfInput
  <1>2. ~closed
    BY <1>1 DEF FrameInv, ClosedEndsInput
  <1>3. input' \in {"ended", "destroyed"} /\ ClosedEndsInput'
    <2>1. CASE input' = "ended" /\ UNCHANGED vars
      BY <1>2, <2>1 DEF ClosedEndsInput, vars
    <2>2. CASE Submit(order[line], "ended")
      BY <1>1, <1>2, <2>2, SubmitEnds DEF FrameInv, FrameTypes, ClosedEndsInput
    <2> QED BY <1>1, <2>1, <2>2
  <1>4. FrameTypes'
    BY <1>1, <1>3 DEF FrameInv, FrameTypes, More, Size, ServerAssumption
  <1> QED BY <1>1, <1>3, <1>4 DEF FrameInv, Gathered, DroppedIsOverlong, More, Size

\* What leaves the frame alone: replies, and the rest of a chunk dropped.
LEMMA ElsewhereFrames ==
    ASSUME FrameInv, UNCHANGED <<order, line, offset, buffer, overflowed>>,
           left' \in {left, 0}, input' \in {input, "destroyed"}, ClosedEndsInput'
    PROVE  FrameInv'
  BY DEF FrameInv, FrameTypes, Gathered, DroppedIsOverlong, More, Size

\* A step that leaves the frame alone, and may write replies.
LEMMA HandlersFrame ==
    ASSUME FrameInv, UNCHANGED <<order, line, offset, left, buffer, overflowed, closed>>,
           UNCHANGED input \/ \E id, what : Send(id, what, FALSE)
    PROVE  FrameInv'
  <1>1. input' \in {input, "destroyed"} /\ (input = "destroyed" => input' = "destroyed")
    BY SendEnds DEF FrameInv, FrameTypes
  <1>2. ClosedEndsInput'
    BY <1>1 DEF FrameInv, ClosedEndsInput
  <1> QED BY <1>1, <1>2, ElsewhereFrames

LEMMA ServerFrames ==
    ASSUME QueueAssumption, ServerAssumption, FrameInv, [ServerNext]_serverVars PROVE FrameInv'
  <1>1. CASE Chunk  BY <1>1, ChunkFrames
  <1>2. CASE Overflow  BY <1>2, OverflowFrames
  <1>3. CASE Gather  BY <1>3, GatherFrames
  <1>4. CASE EndOfLine  BY <1>4, EndOfLineFrames
  <1>5. CASE EndOfInput  BY <1>5, EndOfInputFrames
  <1>6. CASE DropChunk \/ PastInput
    <2>1. /\ left' = 0
          /\ UNCHANGED <<order, line, offset, buffer, overflowed, input, closed>>
      BY <1>6 DEF DropChunk, PastInput, vars
    <2>2. ClosedEndsInput'
      BY <2>1 DEF FrameInv, ClosedEndsInput
    <2> QED BY <2>1, <2>2, ElsewhereFrames
  <1>7. CASE ClientReads  BY <1>7, HandlersFrame DEF ClientReads, vars
  <1>8. ASSUME NEW t \in Tasks, Immediate(t) PROVE FrameInv'
    <2>1. UNCHANGED <<order, line, offset, left, buffer, overflowed, closed>>
      BY <1>8 DEF Immediate, vars
    <2>2. UNCHANGED input \/ \E id, what : Send(id, what, FALSE)
      BY <1>8 DEF Immediate
    <2> QED BY <2>1, <2>2, HandlersFrame
  <1>9. ASSUME NEW t \in Tasks, Begin(t) PROVE FrameInv'  BY <1>9, HandlersFrame DEF Begin, vars
  <1>10. ASSUME NEW t \in Tasks, Answer(t) PROVE FrameInv'
    <2>1. UNCHANGED <<order, line, offset, left, buffer, overflowed, closed>>
      BY <1>10 DEF Answer, vars
    <2>2. \E id, what : Send(id, what, FALSE)
      BY <1>10 DEF Answer
    <2> QED BY <2>1, <2>2, HandlersFrame
  <1>11. ASSUME NEW t \in Tasks, Settle(t) PROVE FrameInv'
    BY <1>11, HandlersFrame DEF Settle, Finally
  <1>12. CASE UNCHANGED serverVars  BY <1>12, HandlersFrame DEF serverVars, vars
  <1> QED
    BY <1>1, <1>2, <1>3, <1>4, <1>5, <1>6, <1>7, <1>8, <1>9, <1>10, <1>11, <1>12 DEF ServerNext

\* The queue accepts a line, closes, or is left alone.
LEMMA SubmitIsQueueStep ==
    ASSUME ~closed, NEW t \in Tasks, NEW after, Submit(t, after) PROVE [Next]_vars
  <1>1. CASE Accepts(t)  BY <1>1 DEF Next
  <1>2. CASE Drops /\ UNCHANGED <<executing, failed, running, accepted, started>>
    BY <1>2 DEF Next, Close
  <1> QED BY <1>1, <1>2 DEF Submit

\* The server drives its queue by that queue's own steps.
LEMMA ServerStepIsQueueStep ==
    ASSUME QueueAssumption, ServerAssumption, FrameInv, [ServerNext]_serverVars PROVE [Next]_vars
  <1>1. CASE EndOfLine
    <2>1. ~closed /\ order[line] \in Tasks
      BY <1>1, LineIsTask DEF EndOfLine, FrameInv, FrameTypes
    <2> QED BY <1>1, <2>1, SubmitIsQueueStep DEF EndOfLine
  <1>2. CASE EndOfInput
    <2>1. ~closed
      BY <1>2 DEF EndOfInput, FrameInv, ClosedEndsInput
    <2>2. More => order[line] \in Tasks
      BY LineIsTask DEF FrameInv, FrameTypes
    <2> QED BY <1>2, <2>1, <2>2, SubmitIsQueueStep DEF EndOfInput
  <1>3. ASSUME NEW t \in Tasks, Settle(t) PROVE [Next]_vars
    BY <1>3 DEF Settle, Next
  <1>4. CASE Chunk \/ Overflow \/ Gather \/ DropChunk \/ PastInput \/ ClientReads
             \/ UNCHANGED serverVars
             \/ \E t \in Tasks : Immediate(t) \/ Begin(t) \/ Answer(t)
    <2>1. UNCHANGED vars
      BY <1>4 DEF Chunk, Overflow, Gather, DropChunk, PastInput, ClientReads, serverVars,
                  Immediate, Begin, Answer
    <2> QED BY <2>1
  <1> QED BY <1>1, <1>2, <1>3, <1>4 DEF ServerNext

\* What is queued is the line at hand, all of it.
LEMMA QueuedIsWhole ==
    ASSUME QueueAssumption, ServerAssumption, FrameInv, accepted \in Seq(Tasks),
           [ServerNext]_serverVars, NEW t \in ToSet(accepted') \ ToSet(accepted)
    PROVE  t = order[line] /\ buffer + Taken = Lines[t].size /\ Lines[t].size <= MaxFrame
  <1>1. ASSUME NEW u, NEW after, Submit(u, after) PROVE t = u
    <2>1. UNCHANGED accepted \/ accepted' = Append(accepted, u)
      BY <1>1 DEF Submit, Accepts, vars
    <2>2. ToSet(Append(accepted, u)) \subseteq ToSet(accepted) \cup {u}
      BY DEF ToSet
    <2> QED BY <2>1, <2>2
  <1>2. CASE EndOfLine
    <2>1. /\ More /\ left > 0 /\ EndsLine /\ (overflowed \/ buffer + Taken <= MaxFrame)
          /\ UNCHANGED vars \/ (~overflowed /\ Submit(order[line], input))
      BY <1>2 DEF EndOfLine
    <2>2. ~overflowed /\ t = order[line]
      BY <1>1, <2>1 DEF vars
    <2>3. /\ Size \in Nat /\ offset \in Nat /\ left \in Nat /\ offset <= Size /\ buffer = offset
          /\ Size = Lines[t].size
      BY <2>1, <2>2, LineIsTask DEF FrameInv, FrameTypes, Gathered
    <2>4. offset + Taken = Size
      BY <2>1, <2>3, TakenFits
    <2> QED BY <2>1, <2>2, <2>3, <2>4
  <1>3. CASE EndOfInput
    <2>1. /\ input = "open" /\ left = 0
          /\ UNCHANGED vars \/ (More /\ offset = Size /\ ~overflowed /\ Submit(order[line], "ended"))
      BY <1>3 DEF EndOfInput
    <2>2. More /\ offset = Size /\ ~overflowed /\ t = order[line]
      BY <1>1, <2>1 DEF vars
    <2>3. Size \in Nat /\ buffer = Size /\ Size = Lines[t].size /\ buffer \in 0 .. MaxFrame
      BY <2>1, <2>2, LineIsTask DEF FrameInv, FrameTypes, Gathered
    <2>4. Taken = 0
      BY <2>1, <2>2, <2>3 DEF Taken
    <2> QED BY <2>2, <2>3, <2>4, ServerAssumption DEF ServerAssumption
  <1>4. UNCHANGED accepted => FALSE
    OBVIOUS
  <1>5. ASSUME NEW u \in Tasks, Settle(u) PROVE UNCHANGED accepted
    BY <1>5 DEF Settle, Finally
  <1>6. CASE Chunk \/ Overflow \/ Gather \/ DropChunk \/ PastInput \/ ClientReads
             \/ UNCHANGED serverVars
             \/ \E u \in Tasks : Immediate(u) \/ Begin(u) \/ Answer(u)
    <2>1. UNCHANGED vars
      BY <1>6 DEF Chunk, Overflow, Gather, DropChunk, PastInput, ClientReads, serverVars,
                  Immediate, Begin, Answer
    <2> QED BY <1>4, <2>1 DEF vars
  <1> QED BY <1>2, <1>3, <1>4, <1>5, <1>6 DEF ServerNext

LEMMA ServerFrameInv == ASSUME QueueAssumption, ServerAssumption PROVE ServerSpec => []FrameInv
  <1>1. ServerInit => FrameInv
    BY FrameInit
  <1>2. FrameInv /\ [ServerNext]_serverVars => FrameInv'
    BY ServerFrames
  <1> QED BY <1>1, <1>2, PTL DEF ServerSpec

\* The server keeps to its queue's specification, so what holds of the queue
\* holds of the requests.
THEOREM ServerUsesQueue == ASSUME QueueAssumption, ServerAssumption PROVE ServerSpec => Spec
  <1>1. ServerInit => Init
    BY DEF ServerInit
  <1>2. FrameInv /\ [ServerNext]_serverVars => [Next]_vars
    BY ServerStepIsQueueStep
  <1> QED BY <1>1, <1>2, ServerFrameInv, PTL DEF ServerSpec, Spec

\* The server's counters are those of its queued and executing requests, and
\* no request waits for a free slot.
THEOREM ServerCounts ==
    ASSUME QueueAssumption, ServerAssumption PROVE ServerSpec => []CountsAreExact
  BY ServerUsesQueue, CountersCount, PTL

THEOREM ServerSlots ==
    ASSUME QueueAssumption, ServerAssumption PROVE ServerSpec => []NoSlotIsWasted
  BY ServerUsesQueue, SlotsAreUsed, PTL

\* However the input is cut into chunks, only whole lines are queued, and none
\* over the limit.
THEOREM FramesAreLines ==
    ASSUME QueueAssumption, ServerAssumption PROVE ServerSpec => FramesAreWhole
  <1>1. QueueInv => accepted \in Seq(Tasks)
    BY DEF QueueInv
  <1>2. ServerSpec => []QueueInv
    BY ServerUsesQueue, QueueInvariant, PTL
  <1>3. FrameInv /\ QueueInv /\ [ServerNext]_serverVars =>
          [\A t \in ToSet(accepted') \ ToSet(accepted) :
              t = order[line] /\ buffer + Taken = Lines[t].size /\ Lines[t].size <= MaxFrame]_serverVars
    BY <1>1, QueuedIsWhole
  <1> QED BY <1>2, <1>3, ServerFrameInv, PTL DEF ServerSpec, FramesAreWhole

-----------------------------------------------------------------------------
(* Replies.                                                                *)

\* q waits behind what was started, in the order of a.
InOrder(a, s, q) ==
    /\ a \in Seq(Tasks) /\ s \in Seq(Tasks) /\ q \in Seq(Tasks)
    /\ Len(s) + Len(q) <= Len(a)
    /\ \A i \in 1 .. Len(s) : a[i] = s[i]
    /\ \A i \in 1 .. Len(q) : a[Len(s) + i] = q[i]
OrderInv ==
    /\ InOrder(accepted, started, tasks)
    /\ ~closed => Len(accepted) = Len(started) + Len(tasks)

LEMMA DrainInOrder ==
    ASSUME NEW a, NEW q, NEW r \in Nat, NEW ex, r <= Concurrency, InOrder(a, started, q),
           Drain(q, r, ex)
    PROVE  /\ InOrder(a, started', tasks')
           /\ Len(started') + Len(tasks') = Len(started) + Len(q)
  <1> DEFINE n == Slots(q, r)
             batch == SubSeq(q, 1, n)
  <1>1. /\ tasks' = SubSeq(q, n + 1, Len(q)) /\ started' = started \o batch
    BY DEF Drain
  <1>2. n \in 0 .. Len(q)
    BY SlotsBounded DEF InOrder
  <1> HIDE DEF n
  <1>3. /\ q \in Seq(Tasks) /\ Len(q) \in Nat /\ n \in Nat /\ n <= Len(q) /\ started \in Seq(Tasks)
        /\ Len(started) \in Nat /\ a \in Seq(Tasks) /\ Len(a) \in Nat
    BY <1>2 DEF InOrder
  <1>4. batch \in Seq(Tasks) /\ Len(batch) = n /\ \A i \in 1 .. n : batch[i] = q[i]
    BY <1>3
  <1>5. /\ tasks' \in Seq(Tasks) /\ Len(tasks') = Len(q) - n
        /\ \A i \in 1 .. Len(tasks') : tasks'[i] = q[n + i]
    BY <1>1, <1>3
  <1> HIDE DEF batch
  <1>6. /\ started' \in Seq(Tasks) /\ Len(started') = Len(started) + n
        /\ \A i \in 1 .. Len(started) : started'[i] = started[i]
        /\ \A i \in 1 .. n : started'[Len(started) + i] = q[i]
    <2>1. /\ started' \in Seq(Tasks) /\ Len(started') = Len(started) + Len(batch)
          /\ \A i \in 1 .. Len(started) + Len(batch) :
                started'[i] = IF i <= Len(started) THEN started[i] ELSE batch[i - Len(started)]
      BY <1>1, <1>3, <1>4, ConcatProperties
    <2>2. ASSUME NEW i \in 1 .. Len(started) PROVE started'[i] = started[i]
      <3>1. i \in 1 .. Len(started) + Len(batch) /\ i <= Len(started)
        BY <1>3, <1>4
      <3> QED BY <2>1, <3>1
    <2>3. ASSUME NEW i \in 1 .. n PROVE started'[Len(started) + i] = q[i]
      <3>0. Len(started) \in Nat /\ Len(batch) = n /\ n \in Nat
        BY <1>3, <1>4
      <3>1. PICK k \in 1 .. Len(started) + Len(batch) : k = Len(started) + i
        BY <3>0
      <3>2. ~(k <= Len(started)) /\ k - Len(started) = i
        BY <1>3, <3>1
      <3>3. started'[k] = batch[k - Len(started)]
        BY <2>1, <3>2
      <3>4. started'[k] = batch[i]
        BY <3>2, <3>3
      <3> QED BY <1>4, <3>1, <3>4
    <2> QED BY <1>4, <2>1, <2>2, <2>3
  <1>7. ASSUME NEW i \in 1 .. Len(started') PROVE a[i] = started'[i]
    <2>1. CASE i <= Len(started)
      BY <1>3, <1>6, <2>1 DEF InOrder
    <2>2. CASE i > Len(started)
      <3>1. PICK k \in 1 .. n : i = Len(started) + k
        <4>1. i \in Nat /\ i <= Len(started) + n
          BY <1>3, <1>6
        <4>2. i - Len(started) \in 1 .. n /\ i = Len(started) + (i - Len(started))
          BY <1>3, <2>2, <4>1
        <4> QED BY <4>2
      <3>2. k \in 1 .. Len(q)
        BY <1>3
      <3>3. a[Len(started) + k] = q[k]
        BY <3>2 DEF InOrder
      <3> QED BY <1>6, <3>1, <3>3
    <2> QED BY <1>3, <2>1, <2>2
  <1>8. ASSUME NEW i \in 1 .. Len(tasks') PROVE a[Len(started') + i] = tasks'[i]
    <2>1. n + i \in 1 .. Len(q) /\ Len(started') + i = Len(started) + (n + i)
      BY <1>3, <1>5, <1>6
    <2> QED BY <1>5, <2>1 DEF InOrder
  <1>9. Len(started') + Len(tasks') = Len(started) + Len(q)
    BY <1>3, <1>5, <1>6
  <1> QED BY <1>3, <1>5, <1>6, <1>7, <1>8, <1>9 DEF InOrder

LEMMA AcceptInOrder ==
    ASSUME OrderInv, QueueInv, NEW t \in Tasks, Accepts(t) PROVE OrderInv'
  <1>1. /\ ~closed /\ accepted' = Append(accepted, t) /\ UNCHANGED closed
        /\ Drain(Append(tasks, t), running, executing)
    BY DEF Accepts, HasRoom
  <1>2. running \in Nat /\ running <= Concurrency
    BY FS_CardinalityType DEF QueueInv, Consistent
  <1>3. InOrder(Append(accepted, t), started, Append(tasks, t))
    <2>1. /\ accepted \in Seq(Tasks) /\ started \in Seq(Tasks) /\ tasks \in Seq(Tasks)
          /\ Len(accepted) = Len(started) + Len(tasks)
          /\ Len(started) \in Nat /\ Len(tasks) \in Nat
      BY <1>1 DEF OrderInv, InOrder
    <2>2. /\ Append(accepted, t) \in Seq(Tasks) /\ Append(tasks, t) \in Seq(Tasks)
          /\ Len(Append(accepted, t)) = Len(accepted) + 1 /\ Len(Append(tasks, t)) = Len(tasks) + 1
          /\ \A i \in 1 .. Len(accepted) : Append(accepted, t)[i] = accepted[i]
          /\ \A i \in 1 .. Len(tasks) : Append(tasks, t)[i] = tasks[i]
          /\ Append(accepted, t)[Len(accepted) + 1] = t /\ Append(tasks, t)[Len(tasks) + 1] = t
      BY <2>1
    <2> DEFINE as == Append(accepted, t)
               ts == Append(tasks, t)
    <2> HIDE DEF as, ts
    <2>3. \A i \in 1 .. Len(started) : as[i] = started[i]
      BY <2>1, <2>2 DEF OrderInv, InOrder, as
    <2>4. ASSUME NEW i \in 1 .. Len(tasks) + 1 PROVE as[Len(started) + i] = ts[i]
      <3>1. CASE i = Len(tasks) + 1
        BY <2>1, <2>2, <3>1 DEF as, ts
      <3>2. CASE i \in 1 .. Len(tasks)
        <4>1. PICK k \in 1 .. Len(accepted) : k = Len(started) + i
          BY <2>1, <3>2
        <4>2. accepted[k] = tasks[i]
          BY <3>2, <4>1 DEF OrderInv, InOrder
        <4>3. as[k] = accepted[k]
          BY <2>2 DEF as
        <4>4. ts[i] = tasks[i]
          BY <2>2, <3>2 DEF ts
        <4> QED BY <4>1, <4>2, <4>3, <4>4
      <3>3. i = Len(tasks) + 1 \/ i \in 1 .. Len(tasks)
        BY <2>1
      <3> QED BY <3>1, <3>2, <3>3
    <2>5. /\ as \in Seq(Tasks) /\ ts \in Seq(Tasks)
          /\ Len(as) = Len(started) + Len(ts) /\ Len(ts) = Len(tasks) + 1
      BY <2>1, <2>2 DEF as, ts
    <2>6. InOrder(as, started, ts)
      <3>1. Len(started) + Len(ts) <= Len(as)
        BY <2>1, <2>5
      <3>2. \A i \in 1 .. Len(ts) : as[Len(started) + i] = ts[i]
        BY <2>4, <2>5
      <3> QED BY <2>1, <2>3, <2>5, <3>1, <3>2 DEF InOrder
    <2> QED BY <2>6 DEF as, ts
  <1>4. /\ InOrder(accepted', started', tasks')
        /\ Len(started') + Len(tasks') = Len(started) + Len(Append(tasks, t))
    BY <1>1, <1>2, <1>3, DrainInOrder
  <1>5. Len(accepted') = Len(started) + Len(Append(tasks, t))
    BY <1>1 DEF OrderInv, InOrder
  <1> QED BY <1>4, <1>5 DEF OrderInv

LEMMA FinallyInOrder ==
    ASSUME OrderInv, QueueInv, NEW t \in Tasks, Finally(t) PROVE OrderInv'
  <1>1. Drain(tasks, running - 1, executing \ {t}) /\ UNCHANGED <<closed, accepted>> /\ t \in executing
    BY DEF Finally
  <1>2. running - 1 \in Nat /\ running - 1 <= Concurrency
    <2>1. running = Cardinality(executing) /\ IsFiniteSet(executing) /\ running <= Concurrency
      BY DEF QueueInv, Consistent
    <2>2. running # 0
      BY <1>1, <2>1, FS_EmptySet
    <2> QED BY <2>1, <2>2, FS_CardinalityType, QueueAssumption
  <1> QED BY <1>1, <1>2, DrainInOrder DEF OrderInv

LEMMA DropInOrder ==
    ASSUME OrderInv, Drops, UNCHANGED <<accepted, started>> PROVE OrderInv'
  <1>1. tasks' = << >> /\ closed' = TRUE
    BY DEF Drops
  <1>2. InOrder(accepted', started', tasks')
    BY <1>1 DEF OrderInv, InOrder
  <1> QED BY <1>1, <1>2 DEF OrderInv

LEMMA OrderInvariant == Spec => []OrderInv
  <1>1. Init => OrderInv
    BY DEF Init, OrderInv, InOrder
  <1>2. OrderInv /\ QueueInv /\ [Next]_vars => OrderInv'
    <2> SUFFICES ASSUME OrderInv, QueueInv, [Next]_vars PROVE OrderInv'
      OBVIOUS
    <2>1. CASE Close
      BY <2>1, DropInOrder DEF Close
    <2>2. ASSUME NEW t \in Tasks, Fails(t) PROVE OrderInv'
      <3>1. CASE Drops
        BY <2>2, <3>1, DropInOrder DEF Fails
      <3>2. CASE UNCHANGED <<closed, count, bytes, tasks>>
        BY <2>2, <3>2 DEF Fails, OrderInv, InOrder
      <3> QED BY <2>2, <3>1, <3>2 DEF Fails
    <2>3. CASE UNCHANGED vars
      BY <2>3 DEF OrderInv, InOrder, vars
    <2> QED BY <2>1, <2>2, <2>3, AcceptInOrder, FinallyInOrder DEF Next
  <1> QED BY <1>1, <1>2, QueueInvariant, PTL DEF Spec

-----------------------------------------------------------------------------
Whats   == {"result", "error", "scan error", "frame", "capacity"}
Results == {"result", "error", "scan error"}
Mute(t)       == Lines[t].kind = "notification"
Unreadable(t) == Lines[t].kind \in {"garbage", "value"}

RepliesIn(rs, id, what) == {n \in DOMAIN rs : rs[n][1] = id /\ rs[n][2] \in what}

ReplyTypes ==
    /\ replies \in Seq((Tasks \cup {0}) \X Whats)
    /\ begun \subseteq ToSet(accepted) /\ answered \subseteq ToSet(accepted) /\ IsFiniteSet(answered)
    /\ \A t \in begun : Call(t)
StartedAreKept == ToSet(started) \subseteq executing \cup answered
RepliedOnce ==
    \A i, j \in DOMAIN replies : replies[i][1] # 0 /\ replies[i][1] = replies[j][1] => i = j
RepliedAreAnswered ==
    \A i \in DOMAIN replies : replies[i][1] # 0 =>
        /\ replies[i][1] \in answered /\ replies[i][2] \in Results
        /\ ~Mute(replies[i][1]) /\ ~Unreadable(replies[i][1])
AnsweredAreReplied ==
    input # "destroyed" =>
        \A t \in answered : ~Mute(t) /\ ~Unreadable(t) => \E i \in DOMAIN replies : replies[i][1] = t
ErrorsCounted ==
    input # "destroyed" =>
        Cardinality(RepliesIn(replies, 0, Results)) = Cardinality({t \in answered : Unreadable(t)})
FramesCounted ==
    input # "destroyed" =>
        Cardinality(RepliesIn(replies, 0, {"frame"}))
          = Cardinality(Overlong) + (IF overflowed THEN 1 ELSE 0)

ReplyInv ==
    /\ ReplyTypes /\ StartedAreKept /\ RepliedOnce /\ RepliedAreAnswered
    /\ AnsweredAreReplied /\ ErrorsCounted /\ FramesCounted

LEMMA RepliesAppended ==
    ASSUME NEW rs \in Seq((Tasks \cup {0}) \X Whats), NEW id \in Tasks \cup {0}, NEW what \in Whats
    PROVE  LET new == Append(rs, <<id, what>>)
           IN  /\ new \in Seq((Tasks \cup {0}) \X Whats)
               /\ DOMAIN new = DOMAIN rs \cup {Len(rs) + 1} /\ Len(rs) + 1 \notin DOMAIN rs
               /\ \A i \in DOMAIN rs : new[i] = rs[i]
               /\ new[Len(rs) + 1][1] = id /\ new[Len(rs) + 1][2] = what
  <1> DEFINE e == <<id, what>>
  <1>1. e \in (Tasks \cup {0}) \X Whats /\ e[1] = id /\ e[2] = what
    OBVIOUS
  <1> HIDE DEF e
  <1> DEFINE new == Append(rs, e)
  <1>2. /\ new \in Seq((Tasks \cup {0}) \X Whats)
        /\ Len(new) = Len(rs) + 1
        /\ \A i \in 1 .. Len(rs) : new[i] = rs[i]
        /\ new[Len(rs) + 1] = e
    BY <1>1, AppendProperties
  <1>3. Len(rs) \in Nat /\ DOMAIN rs = 1 .. Len(rs)
    OBVIOUS
  <1> HIDE DEF new
  <1>4. DOMAIN new = 1 .. Len(rs) + 1
    BY <1>2
  <1>5. DOMAIN new = DOMAIN rs \cup {Len(rs) + 1} /\ Len(rs) + 1 \notin DOMAIN rs
    BY <1>3, <1>4
  <1>6. new[Len(rs) + 1][1] = id /\ new[Len(rs) + 1][2] = what
    BY <1>1, <1>2
  <1> QED BY <1>2, <1>3, <1>5, <1>6 DEF new, e

\* A reply counts once, where it belongs.
LEMMA RepliesGrow ==
    ASSUME replies \in Seq((Tasks \cup {0}) \X Whats),
           NEW id \in Tasks \cup {0}, NEW what \in Whats, replies' = Append(replies, <<id, what>>)
    PROVE  \A n, W :
              /\ Cardinality(RepliesIn(replies, n, W)) \in Nat
              /\ Cardinality(RepliesIn(replies', n, W)) =
                   IF id = n /\ what \in W THEN Cardinality(RepliesIn(replies, n, W)) + 1
                                           ELSE Cardinality(RepliesIn(replies, n, W))
  <1> DEFINE k == Len(replies) + 1
  <1>1. /\ DOMAIN replies' = DOMAIN replies \cup {k} /\ k \notin DOMAIN replies
        /\ \A i \in DOMAIN replies : replies'[i] = replies[i]
        /\ replies'[k][1] = id /\ replies'[k][2] = what
    BY RepliesAppended
  <1> HIDE DEF k
  <1> SUFFICES ASSUME NEW n, NEW W
               PROVE  /\ Cardinality(RepliesIn(replies, n, W)) \in Nat
                      /\ Cardinality(RepliesIn(replies', n, W)) =
                           IF id = n /\ what \in W THEN Cardinality(RepliesIn(replies, n, W)) + 1
                                                   ELSE Cardinality(RepliesIn(replies, n, W))
    OBVIOUS
  <1>2. IsFiniteSet(RepliesIn(replies, n, W)) /\ k \notin RepliesIn(replies, n, W)
    <2>1. DOMAIN replies = 1 .. Len(replies) /\ Len(replies) \in Nat
      OBVIOUS
    <2>2. IsFiniteSet(1 .. Len(replies))
      BY <2>1, FS_Interval
    <2>3. RepliesIn(replies, n, W) \subseteq 1 .. Len(replies)
      BY <2>1 DEF RepliesIn
    <2>4. IsFiniteSet(RepliesIn(replies, n, W))
      BY <2>2, <2>3, FS_Subset
    <2> QED BY <1>1, <2>4 DEF RepliesIn
  <1>3. CASE id = n /\ what \in W
    <2>1. RepliesIn(replies', n, W) = RepliesIn(replies, n, W) \cup {k}
      BY <1>1, <1>3 DEF RepliesIn
    <2>2. Cardinality(RepliesIn(replies', n, W)) = Cardinality(RepliesIn(replies, n, W)) + 1
      BY <1>2, <2>1, FS_AddElement
    <2> QED BY <1>2, <1>3, <2>2, FS_CardinalityType
  <1>4. CASE ~(id = n /\ what \in W)
    <2>1. RepliesIn(replies', n, W) = RepliesIn(replies, n, W)
      BY <1>1, <1>4 DEF RepliesIn
    <2>2. Cardinality(RepliesIn(replies, n, W)) \in Nat
      BY <1>2, FS_CardinalityType
    <2> QED BY <1>4, <2>1, <2>2
  <1> QED BY <1>3, <1>4

LEMMA ReplyInit == ASSUME ServerInit PROVE ReplyInv
  <1>1. /\ replies = << >> /\ begun = {} /\ answered = {} /\ line = 1 /\ overflowed = FALSE
        /\ accepted = << >> /\ started = << >>
    BY DEF ServerInit, Init
  <1>2. ReplyTypes /\ StartedAreKept
    BY <1>1, FS_EmptySet DEF ReplyTypes, StartedAreKept, ToSet
  <1>3. RepliedOnce /\ RepliedAreAnswered /\ AnsweredAreReplied
    BY <1>1 DEF RepliedOnce, RepliedAreAnswered, AnsweredAreReplied
  <1>4. \A n, W : RepliesIn(replies, n, W) = {}
    BY <1>1 DEF RepliesIn
  <1>5. ErrorsCounted
    BY <1>1, <1>4 DEF ErrorsCounted
  <1>6. Overlong = {}
    BY <1>1 DEF Overlong
  <1>7. ~overflowed
    BY <1>1
  <1>8. FramesCounted
    BY <1>4, <1>6, <1>7, FS_EmptySet DEF FramesCounted
  <1> QED BY <1>2, <1>3, <1>5, <1>8 DEF ReplyInv

\* A reply to a request is none under the null id.
LEMMA RequestRepliesGrow ==
    ASSUME replies \in Seq((Tasks \cup {0}) \X Whats), NEW t \in Tasks, t # 0, NEW what \in Whats,
           replies' = Append(replies, <<t, what>>)
    PROVE  \A W : Cardinality(RepliesIn(replies', 0, W)) = Cardinality(RepliesIn(replies, 0, W))
  <1> SUFFICES ASSUME NEW W
               PROVE  Cardinality(RepliesIn(replies', 0, W)) = Cardinality(RepliesIn(replies, 0, W))
    OBVIOUS
  <1>1. t \in Tasks \cup {0}
    OBVIOUS
  <1>2. Cardinality(RepliesIn(replies', 0, W)) =
            IF t = 0 /\ what \in W THEN Cardinality(RepliesIn(replies, 0, W)) + 1
                                   ELSE Cardinality(RepliesIn(replies, 0, W))
    BY <1>1, RepliesGrow
  <1> QED BY <1>2

\* A request is answered, the null id is not its.
LEMMA AnswerReplies ==
    ASSUME ServerAssumption, ReplyInv, NEW t \in Tasks \ answered, NEW what \in Results,
           t \in ToSet(accepted), ~Mute(t), ~Unreadable(t),
           replies' = Append(replies, <<t, what>>), answered' = answered \cup {t},
           UNCHANGED <<order, line, overflowed, begun, accepted, started, executing>>,
           input' \in {input, "destroyed"}
    PROVE  ReplyInv'
  <1> DEFINE k == Len(replies) + 1
  <1>1. replies \in Seq((Tasks \cup {0}) \X Whats) /\ what \in Whats /\ t # 0
        /\ t \in Tasks \cup {0}
    BY DEF ReplyInv, ReplyTypes, Whats, Results, ServerAssumption
  <1>2. /\ replies' \in Seq((Tasks \cup {0}) \X Whats)
        /\ DOMAIN replies' = DOMAIN replies \cup {k} /\ k \notin DOMAIN replies
        /\ \A i \in DOMAIN replies : replies'[i] = replies[i]
        /\ replies'[k][1] = t /\ replies'[k][2] = what
    BY <1>1, RepliesAppended
  <1>3. \A W : Cardinality(RepliesIn(replies', 0, W)) = Cardinality(RepliesIn(replies, 0, W))
    BY <1>1, RequestRepliesGrow
  <1> HIDE DEF k
  <1>4. ReplyTypes'
    BY <1>2, FS_AddElement DEF ReplyInv, ReplyTypes, Call
  <1>5. StartedAreKept'
    BY DEF ReplyInv, StartedAreKept
  <1>6. \A i \in DOMAIN replies : replies[i][1] # t
    BY <1>1 DEF ReplyInv, RepliedAreAnswered
  <1>7. RepliedOnce'
    BY <1>2, <1>6 DEF ReplyInv, RepliedOnce
  <1>8. RepliedAreAnswered'
    <2>1. ASSUME NEW i \in DOMAIN replies', replies'[i][1] # 0
          PROVE  /\ replies'[i][1] \in answered' /\ replies'[i][2] \in Results
                 /\ ~Mute(replies'[i][1]) /\ ~Unreadable(replies'[i][1])
      <3>1. CASE i = k  BY <1>2, <3>1
      <3>2. CASE i \in DOMAIN replies  BY <1>2, <2>1, <3>2 DEF ReplyInv, RepliedAreAnswered
      <3> QED BY <1>2, <3>1, <3>2
    <2> QED BY <2>1 DEF RepliedAreAnswered, Mute, Unreadable
  <1>9. AnsweredAreReplied'
    <2>1. ASSUME input' # "destroyed", NEW u \in answered', ~Mute(u), ~Unreadable(u)
          PROVE  \E i \in DOMAIN replies' : replies'[i][1] = u
      <3>1. CASE u = t  BY <1>2, <3>1
      <3>2. CASE u \in answered
        <4>1. PICK i \in DOMAIN replies : replies[i][1] = u
          BY <2>1, <3>2 DEF ReplyInv, AnsweredAreReplied
        <4> QED BY <1>2, <4>1
      <3> QED BY <3>1, <3>2
    <2> QED BY <2>1 DEF AnsweredAreReplied, Mute, Unreadable
  <1>10. ErrorsCounted'
    <2>1. {u \in answered' : Unreadable(u)} = {u \in answered : Unreadable(u)}
      OBVIOUS
    <2> QED BY <1>3, <2>1 DEF ReplyInv, ErrorsCounted, Unreadable
  <1>11. FramesCounted'
    BY <1>3 DEF ReplyInv, FramesCounted, Overlong
  <1> QED BY <1>4, <1>5, <1>7, <1>8, <1>9, <1>10, <1>11 DEF ReplyInv

\* What cannot be read is answered under the null id.
LEMMA ErrorReplies ==
    ASSUME ServerAssumption, ReplyInv, NEW t \in Tasks \ answered,
           t \in ToSet(accepted), Unreadable(t),
           replies' = Append(replies, <<0, "error">>), answered' = answered \cup {t},
           UNCHANGED <<order, line, overflowed, begun, accepted, started, executing>>,
           input' \in {input, "destroyed"}
    PROVE  ReplyInv'
  <1> DEFINE k == Len(replies) + 1
  <1>1. replies \in Seq((Tasks \cup {0}) \X Whats) /\ "error" \in Whats
    BY DEF ReplyInv, ReplyTypes, Whats
  <1>2. /\ replies' \in Seq((Tasks \cup {0}) \X Whats)
        /\ DOMAIN replies' = DOMAIN replies \cup {k} /\ k \notin DOMAIN replies
        /\ \A i \in DOMAIN replies : replies'[i] = replies[i]
        /\ replies'[k][1] = 0
    BY <1>1, RepliesAppended
  <1>3. \A W : /\ Cardinality(RepliesIn(replies, 0, W)) \in Nat
               /\ Cardinality(RepliesIn(replies', 0, W)) =
                    IF "error" \in W THEN Cardinality(RepliesIn(replies, 0, W)) + 1
                                     ELSE Cardinality(RepliesIn(replies, 0, W))
    BY <1>1, RepliesGrow
  <1> HIDE DEF k
  <1>4. ReplyTypes'
    BY <1>2, FS_AddElement DEF ReplyInv, ReplyTypes, Call
  <1>5. StartedAreKept'
    BY DEF ReplyInv, StartedAreKept
  <1>6. RepliedOnce' /\ RepliedAreAnswered'
    BY <1>2 DEF ReplyInv, RepliedOnce, RepliedAreAnswered, Mute, Unreadable
  <1>7. AnsweredAreReplied'
    <2>1. ASSUME input' # "destroyed", NEW u \in answered', ~Mute(u), ~Unreadable(u)
          PROVE  \E i \in DOMAIN replies' : replies'[i][1] = u
      <3>1. PICK i \in DOMAIN replies : replies[i][1] = u
        BY <2>1 DEF ReplyInv, AnsweredAreReplied
      <3> QED BY <1>2, <3>1
    <2> QED BY <2>1 DEF AnsweredAreReplied, Mute, Unreadable
  <1>8. ErrorsCounted'
    <2> DEFINE U == {u \in answered : Unreadable(u)}
    <2>1. {u \in answered' : Unreadable(u)} = U \cup {t} /\ t \notin U
      OBVIOUS
    <2>2. IsFiniteSet(U)
      BY FS_Subset DEF ReplyInv, ReplyTypes
    <2>3. Cardinality(U \cup {t}) = Cardinality(U) + 1
      BY <2>1, <2>2, FS_AddElement
    <2>4. "error" \in Results
      BY DEF Results
    <2>5. ASSUME input' # "destroyed"
          PROVE  Cardinality(RepliesIn(replies', 0, Results)) = Cardinality(U) + 1
      BY <1>3, <2>4, <2>5 DEF ReplyInv, ErrorsCounted
    <2>6. {u \in answered' : Unreadable(u)'} = U \cup {t}
      BY <2>1 DEF Unreadable
    <2> HIDE DEF U
    <2> QED BY <2>3, <2>5, <2>6 DEF ErrorsCounted
  <1>9. FramesCounted'
    <2>1. Cardinality(RepliesIn(replies', 0, {"frame"})) = Cardinality(RepliesIn(replies, 0, {"frame"}))
      BY <1>3
    <2> QED BY <2>1 DEF ReplyInv, FramesCounted, Overlong
  <1> QED BY <1>4, <1>5, <1>6, <1>7, <1>8, <1>9 DEF ReplyInv

\* Nothing is written: because nothing is owed, or because the session is over.
LEMMA SilentReplies ==
    ASSUME ReplyInv, NEW S \in SUBSET (Tasks \cap ToSet(accepted)), IsFiniteSet(S),
           UNCHANGED replies, answered' = answered \cup S,
           UNCHANGED <<order, line, overflowed, begun, accepted, started, executing>>,
           \/ UNCHANGED input /\ \A t \in S : Mute(t)
           \/ input' = "destroyed"
    PROVE  ReplyInv'
  <1>1. ReplyTypes'
    <2>1. IsFiniteSet(answered \cup S)
      BY FS_Union DEF ReplyInv, ReplyTypes
    <2> QED BY <2>1 DEF ReplyInv, ReplyTypes, Call
  <1>2. StartedAreKept' /\ RepliedOnce' /\ RepliedAreAnswered'
    BY DEF ReplyInv, StartedAreKept, RepliedOnce, RepliedAreAnswered, Mute, Unreadable
  <1>3. AnsweredAreReplied'
    BY DEF ReplyInv, AnsweredAreReplied, Mute, Unreadable
  <1>4. ErrorsCounted'
    <2>1. (\A t \in S : Mute(t)) =>
            {u \in answered' : Unreadable(u)'} = {u \in answered : Unreadable(u)}
      BY DEF Mute, Unreadable
    <2> QED BY <2>1 DEF ReplyInv, ErrorsCounted
  <1>5. FramesCounted'
    BY DEF ReplyInv, FramesCounted, Overlong
  <1> QED BY <1>1, <1>2, <1>3, <1>4, <1>5 DEF ReplyInv

\* Replies stay; the queue and the frame move on.
LEMMA RestReplies ==
    ASSUME ReplyInv, UNCHANGED <<replies, answered>>, input' # "destroyed" => input # "destroyed",
           ToSet(accepted) \subseteq ToSet(accepted'),
           begun' \subseteq ToSet(accepted'), \A t \in begun' : Call(t),
           StartedAreKept', FramesCounted'
    PROVE  ReplyInv'
  <1>1. ReplyTypes'
    BY DEF ReplyInv, ReplyTypes, Call
  <1>2. RepliedOnce' /\ RepliedAreAnswered' /\ AnsweredAreReplied' /\ ErrorsCounted'
    BY DEF ReplyInv, RepliedOnce, RepliedAreAnswered, AnsweredAreReplied, ErrorsCounted, Mute, Unreadable
  <1> QED BY <1>1, <1>2 DEF ReplyInv

\* An error that is no answer to a request.
LEMMA NullReplies ==
    ASSUME ReplyInv, NEW what \in {"frame", "capacity"}, replies' = Append(replies, <<0, what>>),
           UNCHANGED <<answered, begun, accepted>>, input' # "destroyed" => input # "destroyed",
           StartedAreKept', FramesCounted'
    PROVE  ReplyInv'
  <1> DEFINE k == Len(replies) + 1
  <1>1. replies \in Seq((Tasks \cup {0}) \X Whats) /\ what \in Whats /\ what \notin Results
    BY DEF ReplyInv, ReplyTypes, Whats, Results
  <1>2. /\ replies' \in Seq((Tasks \cup {0}) \X Whats)
        /\ DOMAIN replies' = DOMAIN replies \cup {k} /\ k \notin DOMAIN replies
        /\ \A i \in DOMAIN replies : replies'[i] = replies[i]
        /\ replies'[k][1] = 0 /\ replies'[k][2] = what
    BY <1>1, RepliesAppended
  <1> HIDE DEF k
  <1>3. ReplyTypes'
    BY <1>2 DEF ReplyInv, ReplyTypes, Call
  <1>4. RepliedOnce' /\ RepliedAreAnswered'
    BY <1>2 DEF ReplyInv, RepliedOnce, RepliedAreAnswered, Mute, Unreadable
  <1>5. AnsweredAreReplied'
    <2>1. ASSUME input' # "destroyed", NEW u \in answered', ~Mute(u), ~Unreadable(u)
          PROVE  \E i \in DOMAIN replies' : replies'[i][1] = u
      <3>1. PICK i \in DOMAIN replies : replies[i][1] = u
        BY <2>1 DEF ReplyInv, AnsweredAreReplied
      <3> QED BY <1>2, <3>1
    <2> QED BY <2>1 DEF AnsweredAreReplied, Mute, Unreadable
  <1>6. ErrorsCounted'
    <2>1. RepliesIn(replies', 0, Results) = RepliesIn(replies, 0, Results)
      BY <1>1, <1>2 DEF RepliesIn
    <2> QED BY <2>1 DEF ReplyInv, ErrorsCounted, Unreadable
  <1> QED BY <1>3, <1>4, <1>5, <1>6 DEF ReplyInv

LEMMA OverlongFinite ==
    ASSUME line \in Nat \ {0}
    PROVE  IsFiniteSet(Overlong) /\ Cardinality(Overlong) \in Nat /\ line \notin Overlong
  <1>1. Overlong \subseteq 1 .. line - 1 /\ line \notin Overlong
    BY DEF Overlong
  <1>2. IsFiniteSet(1 .. line - 1)
    <2>1. 1 \in Int /\ line - 1 \in Int
      OBVIOUS
    <2> QED BY <2>1, FS_Interval
  <1>3. IsFiniteSet(Overlong)
    BY <1>1, <1>2, FS_Subset
  <1> QED BY <1>1, <1>3, FS_CardinalityType

\* The overlong lines, when one more line was dealt with.
LEMMA OverlongNext ==
    ASSUME line \in Nat \ {0}, UNCHANGED order, line' = line + 1
    PROVE  /\ Size > MaxFrame => Cardinality(Overlong') = Cardinality(Overlong) + 1
           /\ ~(Size > MaxFrame) => Overlong' = Overlong
  <1>3. 1 .. line' - 1 = (1 .. line - 1) \cup {line}
    OBVIOUS
  <1>4. Overlong' = IF Size > MaxFrame THEN Overlong \cup {line} ELSE Overlong
    BY <1>3 DEF Overlong, Size
  <1>5. Cardinality(Overlong \cup {line}) = Cardinality(Overlong) + 1
    BY OverlongFinite, FS_AddElement
  <1> QED BY <1>4, <1>5

LEMMA OverflowReplies ==
    ASSUME QueueAssumption, ServerAssumption, FrameInv, ReplyInv, Overflow PROVE ReplyInv'
  <1>1. /\ Size > MaxFrame /\ ~overflowed /\ line \in Nat \ {0}
        /\ UNCHANGED <<order, begun, answered, accepted, started, executing>>
        /\ Send(0, "frame", FALSE)
    BY OverflowFrames DEF Overflow, vars, FrameInv, FrameTypes
  <1>2. \/ line' = line /\ overflowed'
        \/ line' = line + 1 /\ ~overflowed'
    BY DEF Overflow
  <1>3. StartedAreKept' /\ input' \in {input, "destroyed"}
    BY <1>1 DEF ReplyInv, StartedAreKept, Send
  <1>4. CASE UNCHANGED replies /\ input' = "destroyed"
    <2>1. FramesCounted'
      BY <1>4 DEF FramesCounted
    <2> QED BY <1>1, <1>3, <1>4, <2>1, RestReplies DEF ReplyInv, ReplyTypes
  <1>5. CASE replies' = Append(replies, <<0, "frame">>)
    <2>1. /\ Cardinality(RepliesIn(replies, 0, {"frame"})) \in Nat
          /\ Cardinality(RepliesIn(replies', 0, {"frame"}))
               = Cardinality(RepliesIn(replies, 0, {"frame"})) + 1
      <3>1. replies \in Seq((Tasks \cup {0}) \X Whats) /\ "frame" \in Whats
        BY DEF ReplyInv, ReplyTypes, Whats
      <3> QED BY <1>5, <3>1, RepliesGrow
    <2>2. ASSUME input # "destroyed"
          PROVE  Cardinality(RepliesIn(replies, 0, {"frame"})) = Cardinality(Overlong)
      BY <1>1, <2>2, <2>1, OverlongFinite DEF ReplyInv, FramesCounted
    <2>3. FramesCounted'
      <3>1. CASE line' = line /\ overflowed'
        <4>1. Overlong' = Overlong
          BY <1>1, <3>1 DEF Overlong
        <4> QED BY <1>3, <2>1, <2>2, <3>1, <4>1 DEF FramesCounted
      <3>2. CASE line' = line + 1 /\ ~overflowed'
        <4>1. Cardinality(Overlong') = Cardinality(Overlong) + 1
          BY <1>1, <3>2, OverlongNext
        <4> QED BY <1>3, <2>1, <2>2, <3>2, <4>1 DEF FramesCounted
      <3> QED BY <1>2, <3>1, <3>2
    <2> QED BY <1>1, <1>3, <1>5, <2>3, NullReplies
  <1> QED BY <1>1, <1>4, <1>5 DEF Send
\* Whatever the drain loop starts is executing.
LEMMA DrainKeepsStarted ==
    ASSUME NEW q \in Seq(Tasks), NEW r \in Nat, NEW ex, r <= Concurrency, started \in Seq(Tasks),
           Drain(q, r, ex), NEW through, ToSet(started) \subseteq ex \cup through
    PROVE  ToSet(started') \subseteq executing' \cup through
  <1> DEFINE n == Slots(q, r)
             batch == SubSeq(q, 1, n)
  <1>1. started' = started \o batch /\ executing' = ex \cup ToSet(batch)
    BY DEF Drain
  <1>2. batch \in Seq(Tasks)
    BY SlotsBounded
  <1> HIDE DEF n, batch
  <1>3. ToSet(started \o batch) \subseteq ToSet(started) \cup ToSet(batch)
    <2> SUFFICES ASSUME NEW i \in 1 .. Len(started \o batch)
                 PROVE  (started \o batch)[i] \in ToSet(started) \cup ToSet(batch)
      <3>1. DOMAIN (started \o batch) = 1 .. Len(started \o batch)
        BY <1>2, ConcatProperties
      <3> QED BY <3>1 DEF ToSet
    <2>1. /\ Len(started \o batch) = Len(started) + Len(batch) /\ i \in Nat
          /\ i \in 1 .. Len(started) + Len(batch)
          /\ (started \o batch)[i] = IF i <= Len(started) THEN started[i] ELSE batch[i - Len(started)]
      BY <1>2, ConcatProperties
    <2>2. CASE i <= Len(started)
      <3>1. i \in DOMAIN started
        BY <2>1, <2>2
      <3> QED BY <2>1, <2>2, <3>1 DEF ToSet
    <2>3. CASE ~(i <= Len(started))
      <3>1. i - Len(started) \in DOMAIN batch
        BY <1>2, <2>1, <2>3
      <3> QED BY <2>1, <2>3, <3>1 DEF ToSet
    <2> QED BY <2>2, <2>3
  <1> QED BY <1>1, <1>3

LEMMA AppendedSet ==
    ASSUME accepted \in Seq(Tasks), NEW t \in Tasks
    PROVE  ToSet(accepted) \subseteq ToSet(Append(accepted, t))
  BY DEF ToSet

LEMMA SubmitReplies ==
    ASSUME ReplyInv, QueueInv, OrderInv, NEW t \in Tasks, NEW after, Submit(t, after),
           input' # "destroyed" => input # "destroyed", UNCHANGED <<begun, answered>>,
           FramesCounted'
    PROVE  ReplyInv'
  <1>1. /\ started \in Seq(Tasks) /\ tasks \in Seq(Tasks) /\ accepted \in Seq(Tasks)
        /\ running \in Nat /\ running <= Concurrency
    BY FS_CardinalityType DEF OrderInv, InOrder, QueueInv, Consistent
  <1>2. CASE UNCHANGED <<replies, vars>>
    <2>1. StartedAreKept'
      BY <1>2 DEF vars, ReplyInv, StartedAreKept
    <2> QED BY <1>2, <2>1, RestReplies DEF vars, ReplyInv, ReplyTypes
  <1>3. CASE Accepts(t) /\ UNCHANGED replies
    <2>1. accepted' = Append(accepted, t) /\ Drain(Append(tasks, t), running, executing)
      BY <1>3 DEF Accepts
    <2>2. ToSet(accepted) \subseteq ToSet(accepted')
      BY <1>1, <2>1, AppendedSet
    <2>3. PICK q \in Seq(Tasks) : Drain(q, running, executing)
      <3>1. Append(tasks, t) \in Seq(Tasks)
        BY <1>1
      <3> QED BY <2>1, <3>1
    <2>4. ToSet(started) \subseteq executing \cup answered
      BY DEF ReplyInv, StartedAreKept
    <2>5. ToSet(started') \subseteq executing' \cup answered
      BY <1>1, <2>3, <2>4, DrainKeepsStarted
    <2>6. StartedAreKept'
      BY <2>5 DEF StartedAreKept
    <2> QED BY <1>3, <2>2, <2>6, RestReplies DEF ReplyInv, ReplyTypes
  <1>4. CASE Send(0, "capacity", TRUE) /\ UNCHANGED <<executing, accepted, started>>
    <2>1. StartedAreKept' /\ input' = "destroyed"
      BY <1>4 DEF ReplyInv, StartedAreKept, Send
    <2>2. UNCHANGED replies \/ replies' = Append(replies, <<0, "capacity">>)
      BY <1>4 DEF Send
    <2>3. CASE UNCHANGED replies
      BY <1>4, <2>1, <2>3, RestReplies DEF ReplyInv, ReplyTypes
    <2>4. CASE replies' = Append(replies, <<0, "capacity">>)
      BY <1>4, <2>1, <2>4, NullReplies
    <2> QED BY <2>2, <2>3, <2>4
  <1> QED BY <1>2, <1>3, <1>4 DEF Submit, Drops

LEMMA SubmitFrames ==
    ASSUME NEW t, NEW after, Submit(t, after)
    PROVE  input' = "destroyed" \/ (input' = after /\ UNCHANGED replies)
  BY DEF Submit, Send

LEMMA EndOfLineReplies ==
    ASSUME QueueAssumption, ServerAssumption, FrameInv, ReplyInv, QueueInv, OrderInv, EndOfLine
    PROVE  ReplyInv'
  <1>1. /\ More /\ left > 0 /\ EndsLine /\ (overflowed \/ buffer + Taken <= MaxFrame)
        /\ \/ overflowed /\ UNCHANGED <<input, replies, vars>>
           \/ ~overflowed /\ Submit(order[line], input)
        /\ UNCHANGED <<order, begun, answered>> /\ line' = line + 1 /\ ~overflowed'
    BY DEF EndOfLine, vars
  <1>2. order[line] \in Tasks /\ Size \in Nat /\ line \in Nat \ {0}
    BY <1>1, LineIsTask DEF FrameInv, FrameTypes
  \* The line that ends overflowed the frame exactly if it is overlong.
  <1>3. overflowed <=> Size > MaxFrame
    <2>1. CASE overflowed  BY <1>1, <2>1 DEF FrameInv, DroppedIsOverlong
    <2>2. CASE ~overflowed
      <3>1. buffer = offset /\ offset + Taken = Size
        BY <1>1, <1>2, <2>2, TakenFits DEF FrameInv, FrameTypes, Gathered
      <3> QED BY <1>1, <1>2, <2>2, <3>1, ServerAssumption DEF ServerAssumption
    <2> QED BY <2>1, <2>2
  <1>4. Cardinality(Overlong') = Cardinality(Overlong) + (IF overflowed THEN 1 ELSE 0)
    <2>1. Cardinality(Overlong) \in Nat
      BY <1>2, OverlongFinite
    <2> QED BY <1>1, <1>2, <1>3, <2>1, OverlongNext
  <1>5. input' = "destroyed" \/ (UNCHANGED <<input, replies>>)
    BY <1>1, SubmitFrames
  <1>6. FramesCounted'
    <2>1. Cardinality(Overlong') \in Nat
      BY <1>2, <1>3, <1>4, OverlongFinite
    <2> QED BY <1>1, <1>4, <1>5, <2>1 DEF ReplyInv, FramesCounted
  <1>7. CASE UNCHANGED <<replies, vars>>
    <2>1. StartedAreKept'
      BY <1>1, <1>7 DEF vars, ReplyInv, StartedAreKept
    <2> QED BY <1>1, <1>5, <1>6, <1>7, <2>1, RestReplies DEF vars, ReplyInv, ReplyTypes
  <1>8. CASE Submit(order[line], input)
    BY <1>1, <1>2, <1>5, <1>6, <1>8, SubmitReplies DEF FrameInv, FrameTypes
  <1> QED BY <1>1, <1>7, <1>8

LEMMA EndOfInputReplies ==
    ASSUME QueueAssumption, ServerAssumption, FrameInv, ReplyInv, QueueInv, OrderInv, EndOfInput
    PROVE  ReplyInv'
  <1>1. /\ input = "open" /\ UNCHANGED <<order, line, overflowed, begun, answered>>
        /\ \/ More /\ Submit(order[line], "ended")
           \/ input' = "ended" /\ UNCHANGED <<replies, vars>>
    BY DEF EndOfInput
  <1>2. input' = "destroyed" \/ UNCHANGED replies
    BY <1>1, SubmitFrames
  <1>3. FramesCounted'
    BY <1>1, <1>2 DEF ReplyInv, FramesCounted, Overlong
  <1>4. CASE UNCHANGED <<replies, vars>>
    <2>1. StartedAreKept'
      BY <1>1, <1>4 DEF vars, ReplyInv, StartedAreKept
    <2> QED BY <1>1, <1>3, <1>4, <2>1, RestReplies DEF vars, ReplyInv, ReplyTypes
  <1>5. CASE More /\ Submit(order[line], "ended")
    <2>1. order[line] \in Tasks
      BY <1>5, LineIsTask DEF FrameInv, FrameTypes
    <2> QED BY <1>1, <1>3, <1>5, <2>1, SubmitReplies
  <1> QED BY <1>1, <1>4, <1>5
\* A reply that is written, or one that ends the session.
LEMMA SendCases ==
    ASSUME NEW id, NEW what, NEW ending, Send(id, what, ending)
    PROVE  \/ UNCHANGED replies /\ input' = "destroyed"
           \/ replies' = Append(replies, <<id, what>>) /\ input' \in {input, "destroyed"}
  BY DEF Send

LEMMA ImmediateReplies ==
    ASSUME ServerAssumption, QueueInv, ReplyInv, NEW t \in Tasks, Immediate(t) PROVE ReplyInv'
  <1>1. /\ t \notin answered /\ ~Runs(t) /\ answered' = answered \cup {t}
        /\ UNCHANGED <<order, line, overflowed, begun, accepted, started, executing>>
    BY DEF Immediate, Ready, vars
  <1>2. t \in ToSet(accepted)
    BY DEF Immediate, Ready, QueueInv, Held
  <1>3. {t} \in SUBSET (Tasks \cap ToSet(accepted)) /\ IsFiniteSet({t})
    BY <1>2, FS_Singleton
  <1>4. CASE UNCHANGED replies /\ input' = "destroyed"
    BY <1>1, <1>3, <1>4, SilentReplies
  <1>5. CASE Mute(t) /\ UNCHANGED <<input, replies>>
    BY <1>1, <1>3, <1>5, SilentReplies
  <1>6. CASE Unreadable(t) /\ Send(0, "error", FALSE)
    BY <1>1, <1>2, <1>4, <1>6, SendCases, ErrorReplies
  <1>7. ASSUME ~Mute(t), ~Unreadable(t), NEW what \in Results, Send(t, what, FALSE) PROVE ReplyInv'
    BY <1>1, <1>2, <1>4, <1>7, SendCases, AnswerReplies
  <1>8. \/ Mute(t) /\ UNCHANGED <<input, replies>>
        \/ Unreadable(t) /\ Send(0, "error", FALSE)
        \/ ~Mute(t) /\ ~Unreadable(t) /\ \E what \in Results : Send(t, what, FALSE)
    BY DEF Immediate, Mute, Unreadable, Results
  <1> QED BY <1>5, <1>6, <1>7, <1>8

LEMMA FinalReplies ==
    ASSUME ServerAssumption, ReplyInv, NEW t \in Tasks, Answer(t) PROVE ReplyInv'
  <1>1. /\ t \in begun \ answered /\ answered' = answered \cup {t}
        /\ UNCHANGED <<order, line, overflowed, begun, accepted, started, executing>>
    BY DEF Answer, vars
  <1>2. t \in ToSet(accepted) /\ ~Mute(t) /\ ~Unreadable(t)
    BY <1>1 DEF ReplyInv, ReplyTypes, Call, Mute, Unreadable
  <1>3. {t} \in SUBSET (Tasks \cap ToSet(accepted)) /\ IsFiniteSet({t})
    BY <1>2, FS_Singleton
  <1>4. PICK what \in Results : Send(t, what, FALSE)
    BY DEF Answer, Results
  <1>5. CASE UNCHANGED replies /\ input' = "destroyed"
    BY <1>1, <1>3, <1>5, SilentReplies
  <1>6. CASE replies' = Append(replies, <<t, what>>) /\ input' \in {input, "destroyed"}
    BY <1>1, <1>2, <1>6, AnswerReplies
  <1> QED BY <1>4, <1>5, <1>6, SendCases

LEMMA SettleReplies ==
    ASSUME QueueInv, OrderInv, ReplyInv, NEW t \in Tasks, Settle(t) PROVE ReplyInv'
  <1>1. /\ t \in answered /\ t \in executing /\ Drain(tasks, running - 1, executing \ {t})
        /\ UNCHANGED <<order, line, overflowed, input, replies, begun, answered, accepted>>
    BY DEF Settle, Finally
  <1>2. started \in Seq(Tasks) /\ tasks \in Seq(Tasks)
    BY DEF OrderInv, InOrder
  <1>3. running - 1 \in Nat /\ running - 1 <= Concurrency
    <2>1. running = Cardinality(executing) /\ IsFiniteSet(executing) /\ running <= Concurrency
      BY DEF QueueInv, Consistent
    <2>2. running # 0
      BY <1>1, <2>1, FS_EmptySet
    <2> QED BY <2>1, <2>2, FS_CardinalityType, QueueAssumption
  <1>4. ToSet(started) \subseteq (executing \ {t}) \cup answered
    BY <1>1 DEF ReplyInv, StartedAreKept
  <1>5. ToSet(started') \subseteq executing' \cup answered
    BY <1>1, <1>2, <1>3, <1>4, DrainKeepsStarted
  <1>6. StartedAreKept' /\ FramesCounted'
    BY <1>1, <1>5 DEF StartedAreKept, ReplyInv, FramesCounted, Overlong
  <1> QED BY <1>1, <1>6, RestReplies DEF ReplyInv, ReplyTypes

LEMMA BeginReplies ==
    ASSUME QueueInv, ReplyInv, NEW t \in Tasks, Begin(t) PROVE ReplyInv'
  <1>1. /\ t \in executing /\ Call(t) /\ begun' = begun \cup {t}
        /\ UNCHANGED <<order, line, overflowed, input, replies, answered, accepted, started, executing>>
    BY DEF Begin, Ready, Runs, vars
  <1>2. begun' \subseteq ToSet(accepted')
    BY <1>1 DEF QueueInv, Held, ReplyInv, ReplyTypes
  <1>3. StartedAreKept' /\ FramesCounted'
    BY <1>1 DEF StartedAreKept, ReplyInv, FramesCounted, Overlong
  <1>4. \A u \in begun' : Call(u)
    BY <1>1 DEF ReplyInv, ReplyTypes
  <1> QED BY <1>1, <1>2, <1>3, <1>4, RestReplies

LEMMA ServerReplies ==
    ASSUME QueueAssumption, ServerAssumption, FrameInv, QueueInv, OrderInv, ReplyInv,
           [ServerNext]_serverVars
    PROVE  ReplyInv'
  <1>1. CASE Chunk \/ Gather \/ DropChunk \/ PastInput \/ ClientReads \/ UNCHANGED serverVars
    <2>1. UNCHANGED <<order, line, overflowed, input, replies, begun, answered, vars>>
      BY <1>1 DEF Chunk, Gather, DropChunk, PastInput, ClientReads, serverVars
    <2>2. StartedAreKept' /\ FramesCounted'
      BY <2>1 DEF vars, StartedAreKept, ReplyInv, FramesCounted, Overlong
    <2> QED BY <2>1, <2>2, RestReplies DEF vars, ReplyInv, ReplyTypes
  <1>2. CASE Overflow  BY <1>2, OverflowReplies
  <1>3. CASE EndOfLine  BY <1>3, EndOfLineReplies
  <1>4. CASE EndOfInput  BY <1>4, EndOfInputReplies
  <1>5. ASSUME NEW t \in Tasks, Immediate(t) PROVE ReplyInv'  BY <1>5, ImmediateReplies
  <1>6. ASSUME NEW t \in Tasks, Begin(t) PROVE ReplyInv'  BY <1>6, BeginReplies
  <1>7. ASSUME NEW t \in Tasks, Answer(t) PROVE ReplyInv'  BY <1>7, FinalReplies
  <1>8. ASSUME NEW t \in Tasks, Settle(t) PROVE ReplyInv'  BY <1>8, SettleReplies
  <1> QED BY <1>1, <1>2, <1>3, <1>4, <1>5, <1>6, <1>7, <1>8 DEF ServerNext
\* When it is quiet, every accepted request was started and dealt with.
LEMMA QuietMeansAnswered ==
    ASSUME FrameInv, OrderInv, ReplyInv, Quiet PROVE ToSet(accepted) = answered
  <1>1. ~closed /\ tasks = << >> /\ executing = {}
    BY DEF Quiet, FrameInv, ClosedEndsInput
  <1>2. /\ accepted \in Seq(Tasks) /\ started \in Seq(Tasks) /\ Len(accepted) = Len(started)
        /\ \A i \in 1 .. Len(started) : accepted[i] = started[i]
    BY <1>1 DEF OrderInv, InOrder
  <1>3. ToSet(accepted) \subseteq ToSet(started)
    BY <1>2 DEF ToSet
  <1>4. ToSet(started) \subseteq answered /\ answered \subseteq ToSet(accepted)
    BY <1>1 DEF ReplyInv, StartedAreKept, ReplyTypes
  <1> QED BY <1>3, <1>4

\* The replies to a request: one at most, and none if there is none.
LEMMA OneAnswer ==
    ASSUME ReplyInv, NEW t \in Tasks, t # 0
    PROVE  /\ Answers(t) \in {0, 1}
           /\ (\E i \in DOMAIN replies : replies[i][1] = t) <=> Answers(t) = 1
  <1> DEFINE S == RepliesTo(t, {"result", "error", "scan error"})
  <1>1. S = {i \in DOMAIN replies : replies[i][1] = t}
    BY DEF RepliesTo, ReplyInv, RepliedAreAnswered, Results
  <1>2. CASE S = {}
    <2>1. Cardinality(S) = 0
      BY <1>2, FS_EmptySet
    <2>2. Answers(t) = 0
      BY <2>1 DEF Answers
    <2>3. ~ \E i \in DOMAIN replies : replies[i][1] = t
      BY <1>1, <1>2
    <2> QED BY <2>2, <2>3
  <1>3. CASE S # {}
    <2>1. PICK i \in DOMAIN replies : replies[i][1] = t
      BY <1>1, <1>3
    <2>2. S = {i}
      BY <1>1, <2>1 DEF ReplyInv, RepliedOnce
    <2>3. Cardinality(S) = 1
      BY <2>2, FS_Singleton
    <2> QED BY <2>1, <2>3 DEF Answers
  <1> QED BY <1>2, <1>3

LEMMA CompleteReplies ==
    ASSUME ServerAssumption, FrameInv, OrderInv, ReplyInv PROVE RepliesAreComplete
  <1>1. IsPrefix(started, accepted)
    <2>1. /\ accepted \in Seq(Tasks) /\ started \in Seq(Tasks) /\ Len(started) \in Nat
          /\ Len(started) <= Len(accepted)
          /\ \A i \in 1 .. Len(started) : accepted[i] = started[i]
      BY DEF OrderInv, InOrder
    <2>2. SubSeq(started, 1, Len(started)) = SubSeq(accepted, 1, Len(started))
      <3> DEFINE s == SubSeq(started, 1, Len(started))
                 a == SubSeq(accepted, 1, Len(started))
      <3>1. /\ s \in Seq(Tasks) /\ Len(s) = Len(started) /\ \A i \in 1 .. Len(started) : s[i] = started[i]
            /\ a \in Seq(Tasks) /\ Len(a) = Len(started) /\ \A i \in 1 .. Len(started) : a[i] = accepted[i]
        BY <2>1
      <3> HIDE DEF s, a
      <3>2. s = a
        BY <2>1, <3>1, SeqEqual
      <3> QED BY <3>2 DEF s, a
    <2> QED BY <2>1, <2>2 DEF IsPrefix
  <1>2. \A t \in Tasks : t # 0 /\ Answers(t) <= 1
    BY OneAnswer DEF ServerAssumption
  <1>3. ASSUME Quiet, NEW t \in ToSet(accepted) \ NoRequest PROVE Answers(t) = Owed(t)
    <2>1. t \in answered /\ t \in Tasks /\ ~Unreadable(t)
      BY <1>3, QuietMeansAnswered DEF NoRequest, Unreadable, OrderInv, InOrder, ToSet
    <2>2. CASE Mute(t)
      <3>1. ~\E i \in DOMAIN replies : replies[i][1] = t
        BY <1>2, <2>1, <2>2 DEF ReplyInv, RepliedAreAnswered
      <3> QED BY <1>2, <2>1, <2>2, <3>1, OneAnswer DEF Owed, Mute
    <2>3. CASE ~Mute(t)
      <3>1. \E i \in DOMAIN replies : replies[i][1] = t
        BY <1>3, <2>1, <2>3 DEF ReplyInv, AnsweredAreReplied, Quiet
      <3> QED BY <1>2, <2>1, <2>3, <3>1, OneAnswer DEF Owed, Mute
    <2> QED BY <2>2, <2>3
  <1>4. ASSUME Quiet PROVE Answers(0) = Cardinality(NoRequest)
    <2>1. RepliesTo(0, {"result", "error", "scan error"}) = RepliesIn(replies, 0, Results)
      BY DEF RepliesTo, RepliesIn, Results
    <2>2. NoRequest = {t \in answered : Unreadable(t)}
      BY <1>4, QuietMeansAnswered DEF NoRequest, Unreadable
    <2> QED BY <1>4, <2>1, <2>2 DEF Answers, ReplyInv, ErrorsCounted, Quiet
  <1>5. ASSUME Quiet, ~overflowed
        PROVE  Cardinality(RepliesTo(0, {"frame"})) = Cardinality(Overlong)
    <2>1. RepliesTo(0, {"frame"}) = RepliesIn(replies, 0, {"frame"})
      BY DEF RepliesTo, RepliesIn
    <2>2. Cardinality(Overlong) \in Nat
      BY OverlongFinite DEF FrameInv, FrameTypes
    <2> QED BY <1>5, <2>1, <2>2 DEF ReplyInv, FramesCounted, Quiet
  <1> QED BY <1>1, <1>2, <1>3, <1>4, <1>5 DEF RepliesAreComplete

\* Every request is answered at most once, and once it is quiet exactly once;
\* notifications are not, unreadable and overlong lines cost one error each.
THEOREM RepliesComplete ==
    ASSUME QueueAssumption, ServerAssumption PROVE ServerSpec => []RepliesAreComplete
  <1>1. ServerInit => ReplyInv
    BY ReplyInit
  <1>2. FrameInv /\ QueueInv /\ OrderInv /\ ReplyInv /\ [ServerNext]_serverVars => ReplyInv'
    BY ServerReplies
  <1>3. FrameInv /\ OrderInv /\ ReplyInv => RepliesAreComplete
    BY CompleteReplies
  <1>4. ServerSpec => []QueueInv /\ []OrderInv
    BY ServerUsesQueue, QueueInvariant, OrderInvariant, PTL
  <1> QED BY <1>1, <1>2, <1>3, <1>4, ServerFrameInv, PTL DEF ServerSpec
============================================================================
