--------------------------- MODULE ExecutionGraph ---------------------------
(***************************************************************************)
(* How the auditor learns which of the files it was given run, and when:   *)
(* collectLifecycleReferencedPaths (auditor.js) finds the seeds in the     *)
(* manifest, createExecutionGraph (execution-graph.js) follows imports and *)
(* started scripts from them.  It sees the content that was read, knows    *)
(* fewer suffixes than the source plan and no globs, drops an import it    *)
(* does not resolve, and has nothing to say of a file it cannot parse.     *)
(***************************************************************************)
EXTENDS SourceCollection

CONSTANTS MaxFacts,   \* files the graph analyses
          MaxQueue    \* entries of its worklist

ASSUME GraphAssumption == MaxFacts \in Nat /\ MaxQueue \in Nat

VARIABLES
    runtime,     \* files that run
    installTime, \* files an install hook leads to
    lifecycle,   \* files any script leads to
    queue,       \* the worklist, never shortened
    next,        \* its position
    state,       \* the flags a file was expanded with, {"new"} before
    facts,       \* the files that were analysed
    over,        \* of those, the ones beyond the package limit
    graphGaps,   \* files with a gap, each with its reason
    graph        \* "idle", "walk", "done"

graphVars == <<runtime, installTime, lifecycle, queue, next, state, facts, over, graphGaps, graph>>

InitGraph ==
    /\ runtime = {} /\ installTime = {} /\ lifecycle = {}
    /\ queue = << >> /\ next = 1
    /\ state = [f \in Names |-> {"new"}]
    /\ facts = {} /\ over = {} /\ graphGaps = {}
    /\ graph = "idle"

\* The file a specifier stands for: of the candidates the first one that was read.
First(candidates) ==
    {f \in read : \E n \in DOMAIN candidates :
        candidates[n] = f /\ \A m \in 1 .. n - 1 : candidates[m] \notin read}

\* What the parser finds in a file, and where that leads: to nowhere, for an import that stands for no
\* file; for a started script that is a gap.
Parsed(f) == f \notin blind \cup unparsed
Imports(f) ==
    IF Parsed(f)
    THEN UNION {First(c) : c \in {l.graph : l \in ToSet(package.imports[f])} \cup package.traced[f]}
    ELSE {}
StartsOf(f) == IF Parsed(f) THEN ToSet(package.starts[f]) ELSE {}
Started(f) == UNION {First(l.graph) : l \in StartsOf(f)}
Dangling(f) == {l \in StartsOf(f) : First(l.graph) = {}}

\* Seeds of the manifest, those of a script whether they were read or not, and two levels of imports
\* below them, as a pattern finds them.
ManifestSeen == Manifest \in read /\ Manifest \notin elided /\ package.parses
Seeds(links) == IF ManifestSeen THEN UNION {ToSet(l.audit) : l \in ToSet(links)} ELSE {}
FoundIn(f) == IF f \in blind THEN {} ELSE UNION {First(l.audit) : l \in ToSet(package.imports[f])}
Below(files) == files \cup UNION {FoundIn(f) : f \in files \cap read}
Walk(files) == Below(Below(files))

EntrySeeds ==
    IF ManifestSeen
    THEN (IF package.noMain THEN {Index} \cap read ELSE {})
         \cup UNION {First(l.audit) : l \in ToSet(package.entries)}
    ELSE {}
ScriptSeeds == Seeds(package.hooks) \cup Seeds(package.scripts)

\* The plan's files join the seeds, its install-time files those of the lifecycle.
StartGraph ==
    /\ phase = "done" /\ graph = "idle"
    /\ runtime' = Walk(ScriptSeeds \cup EntrySeeds) \cup ToSet(plan.required)
    /\ installTime' = Walk(Seeds(package.hooks)) \cup plan.install
    /\ lifecycle' = Walk(ScriptSeeds) \cup plan.install
    /\ queue' = InOrder(runtime')
    /\ graph' = "walk"
    /\ UNCHANGED <<next, state, facts, over, graphGaps, collection>>

\* The flags a file is followed with.
Flags(f) == (IF f \in installTime THEN {"install"} ELSE {}) \cup (IF f \in lifecycle THEN {"lifecycle"} ELSE {})

CanWalk == graph = "walk" /\ next <= Len(queue) /\ next <= MaxQueue

\* Nothing new is known of the file.
Again ==
    /\ CanWalk
    /\ state[queue[next]] = Flags(queue[next])
    /\ next' = next + 1
    /\ UNCHANGED <<runtime, installTime, lifecycle, queue, state, facts, over, graphGaps, graph, collection>>

Follow ==
    /\ CanWalk
    /\ LET f == queue[next]
           full == f \notin facts /\ Cardinality(facts) >= MaxFacts
           targets == IF f \notin read \/ full \/ f \in over THEN {} ELSE Imports(f) \cup Started(f)
       IN /\ state[f] # Flags(f)
          /\ state' = [state EXCEPT ![f] = Flags(f)]
          /\ facts' = IF f \in read THEN facts \cup {f} ELSE facts
          /\ over' = IF f \in read /\ full THEN over \cup {f} ELSE over
          /\ runtime' = runtime \cup targets
          /\ installTime' = IF f \in installTime THEN installTime \cup targets ELSE installTime
          /\ lifecycle' = IF f \in lifecycle THEN lifecycle \cup targets ELSE lifecycle
          /\ queue' = queue \o InOrder(targets)
          /\ graphGaps' = graphGaps \cup
                (IF f \notin read THEN {<<f, "not collected">>}
                 ELSE IF full THEN {<<f, "package limit">>}
                 ELSE IF Dangling(f) # {} THEN {<<f, "target not collected">>} ELSE {})
    /\ next' = next + 1
    /\ UNCHANGED <<graph, collection>>

FinishGraph ==
    /\ graph = "walk" /\ ~CanWalk
    /\ graph' = "done"
    /\ graphGaps' = graphGaps \cup
          (IF Len(queue) > MaxQueue THEN {<<queue[1], "reachability limit">>} ELSE {})
    /\ UNCHANGED <<runtime, installTime, lifecycle, queue, next, state, facts, over, collection>>

GraphStep == StartGraph \/ Again \/ Follow \/ FinishGraph
----------------------------------------------------------------------------
\* Unless a gap says so, the three sets are closed under what the graph itself resolves: where the
\* parser finds an import or a start of a file that was read, that file runs when the first one does,
\* whatever order the flags and the files were found in.  The auditor keeps findings high on the
\* strength of these sets, so a file left out of one is judged too leniently.
GraphIsClosed ==
    graph = "done" /\ graphGaps = {} =>
        \A files \in {runtime, installTime, lifecycle} :
            \A f \in files \cap read : Imports(f) \cup Started(f) \subseteq files

\* What the graph cannot see is made up for by the plan: with complete coverage the auditor holds
\* every file that entry points, hooks and scripts lead to for one that runs, and every one that the
\* install hooks lead to for one that runs at install time, though a link on the way there may be one
\* the graph does not resolve, or stand in a file it does not parse, and no gap tells of that.
ReachedIsRun ==
    graph # "idle" /\ Complete =>
        /\ ReachableFrom(Roots) \subseteq runtime
        /\ Manifest \in package.files =>
              ReachableFrom(Targets(package.hooks)) \subseteq installTime \cap lifecycle
=============================================================================
