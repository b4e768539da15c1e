---------------------------- MODULE RepositoryDiff ----------------------------
(***************************************************************************)
(* runNpmVsGithubDiff (quarantine.js) and diffNpmVsGithub (diff.js): which *)
(* files of a staged package differ from the repository it names, and when *)
(* the two trees are too unlike for the difference to mean anything.  A    *)
(* repository is a record                                                  *)
(*   files    those of its files that have the path of a package's file    *)
(*   same     of those, the ones with the same content                     *)
(*   size     their sizes                                                  *)
(*   known    the paths whose directory it has                             *)
(*   subdir   only a directory of it is compared                           *)
(*   listing  its archive could be listed, and is unpacked selectively     *)
(* What a path makes of a file is in its kind: "skipped-dir", "unhashed",  *)
(* "differs" (lockfiles and the like), "output", "source", "source-dir".   *)
(***************************************************************************)
EXTENDS ExecutionGraph

CONSTANTS MaxTreeFiles, MaxTreeBytes, MaxTreeFile,  \* limits of a tree, the last one of a file
          ManyExtras,                               \* extra source files that are no accident
          MaxListed                                 \* files a report names

ASSUME DiffAssumption ==
    /\ {MaxTreeFiles, MaxTreeBytes, MaxTreeFile, ManyExtras} \subseteq Nat
    /\ MaxListed \in Nat \ {0}

Is(kind, f) == kind \in package.content[f].kind

\* What the auditor sees of a file: of one read without its middle perhaps nothing that matters.
Unseen(c) == [c EXCEPT !.code = {}, !.comment = {}, !.folded = {}]
Seen == [f \in read |-> IF f \in blind THEN Unseen(package.content[f]) ELSE package.content[f]]

\* The concealed starts in the files that were analysed.
ConcealedIn(files) == {e \in files \X read : "hidden-spawn" \in Seen[e[1]].code /\ e[2] \in Started(e[1])}

\* The graph is built once more, from the plan's files: a step for each entry of its worklist.
SourceGraph ==
    LET walk[n \in 0 .. MaxQueue] ==
            IF n = 0 THEN [queue |-> plan.required, facts |-> {}]
            ELSE LET g == walk[n - 1]
                     f == g.queue[n]
                 IN IF n > Len(g.queue) THEN g
                    ELSE IF f \in g.facts \/ f \notin read \/ Cardinality(g.facts) >= MaxFacts THEN g
                    ELSE [queue |-> g.queue \o InOrder(Imports(f) \cup Started(f)),
                          facts |-> g.facts \cup {f}]
    IN walk[MaxQueue]

ExecutionFiles == UNION {{e[1], e[2]} : e \in ConcealedIn(SourceGraph.facts)}
RuntimePaths == ToSet(SourceGraph.queue) \cup ExecutionFiles

----------------------------------------------------------------------------
\* The trees.

\* The files that are walked: generated ones only where they run.
Walked ==
    LET paths == RuntimePaths
    IN {f \in package.files : ~Is("skipped-dir", f) /\ (f \in paths \/ ~Is("unhashed", f))}
NpmFiles == {f \in package.files : ~Is("skipped-dir", f)}
Selective(repo) == repo.listing /\ NpmFiles # {}
PairedPaths(repo) == NpmFiles \cap repo.files

\* The limited walk of one tree: known files, and those of them that were hashed.  The walk of a
\* listed package also counts the files it does not hash.  (Directories are not told apart: where
\* the archive could not be listed, the byte limit is only looked at between two of them.)
HashTree(paths, size, wanted, countsAll) ==
    LET walk[n \in 0 .. Len(paths)] ==
            IF n = 0 THEN [known |-> {}, hashed |-> {}, count |-> 0, bytes |-> 0]
            ELSE LET t == walk[n - 1]
                     f == paths[n]
                     fits == f \in wanted /\ size[f] <= MaxTreeFile /\ t.bytes + size[f] <= MaxTreeBytes
                 IN IF t.count >= MaxTreeFiles \/ t.bytes >= MaxTreeBytes THEN t
                    ELSE [known |-> t.known \cup {f},
                          hashed |-> IF fits THEN t.hashed \cup {f} ELSE t.hashed,
                          count |-> IF fits \/ countsAll THEN t.count + 1 ELSE t.count,
                          bytes |-> IF fits THEN t.bytes + size[f] ELSE t.bytes]
    IN walk[Len(paths)]

\* A build script explains build output, and source outside the directories meant for it.
HasBuildScript ==
    Manifest \in package.files /\ package.parses /\ "build-script" \in package.content[Manifest].code

Trees(repo) ==
    LET npm == HashTree(InOrder(Walked), package.size,
                        IF Selective(repo) THEN PairedPaths(repo) ELSE NpmFiles, Selective(repo))
    IN [repo |-> repo, npm |-> npm,
        github |-> HashTree(InOrder(npm.known \cap repo.files), repo.size, repo.files, FALSE),
        execution |-> ExecutionFiles, builds |-> HasBuildScript]

\* Nothing is there to compare with: a selective extraction makes only the directories of what it extracts.
TreeMissing(repo) ==
    repo.subdir /\ (IF Selective(repo) THEN PairedPaths(repo) ELSE repo.files) = {}

----------------------------------------------------------------------------
\* The comparison of two trees.

IsAlwaysIgnored(f) == f = Manifest \/ Is("differs", f)
Considered(t) == {f \in t.npm.known : ~IsAlwaysIgnored(f)}
Common(t) == Considered(t) \cap t.github.known
Extra(t) == Considered(t) \ t.github.known

\* A file's hash: where a file was not hashed, the reason stands in its place.
Hash(tree, size, f) ==
    IF f \in tree.hashed THEN "content" ELSE IF size[f] > MaxTreeFile THEN "too-large" ELSE "tree-budget"
Hashed(t) == t.npm.hashed \cap t.github.hashed
Mismatched(t) == {f \in Common(t) \cap Hashed(t) : f \notin t.repo.same}
Matched(t) ==
    {f \in Common(t) \ Mismatched(t) :
        Hash(t.npm, package.size, f) = Hash(t.github, t.repo.size, f)}

Authored(t, f) == Is("source", f) /\ ~Is("output", f) /\ (t.builds => Is("source-dir", f))

\* Mutant: a file that takes part in a concealed start is judged by its path like any other.
ExtraSourceByPath(t) ==
    {f \in Extra(t) : Authored(t, f) \/ (Is("source", f) /\ f \in t.repo.known)}
ExtraSource(t) ==
    {f \in Extra(t) : f \in t.execution \/ Authored(t, f) \/ (Is("source", f) /\ f \in t.repo.known)}
ExtraBuild(t) == {f \in Extra(t) \ ExtraSource(t) : Is("output", f) /\ ~t.builds}
MismatchedSource(t) == {f \in Mismatched(t) : f \in t.execution \/ Authored(t, f)}

ExecutionDivergence(t) == (ExtraSource(t) \cup MismatchedSource(t)) \cap t.execution # {}

\* Two trees that are too unlike: little overlap, mostly generated, or built before it was published.
LayoutDiffers(t) ==
    /\ 10 * Cardinality(Matched(t) \cup Mismatched(t)) < 3 * Cardinality(t.npm.known)
    /\ Cardinality(ExtraSource(t)) > ManyExtras
MostlyGenerated(t) ==
    /\ Cardinality(Matched(t) \cup Mismatched(t)) >= 5
    /\ Cardinality(Mismatched(t)) > 2 * Cardinality(Matched(t))
BuiltBeforePublish(t) ==
    /\ Cardinality(Matched(t)) <= 1
    /\ ExtraBuild(t) # {} /\ Cardinality(ExtraBuild(t)) >= Cardinality(ExtraSource(t))
    /\ Cardinality(Mismatched(t)) + Cardinality(ExtraBuild(t)) >= 3
Noise(t) == LayoutDiffers(t) \/ MostlyGenerated(t) \/ BuiltBeforePublish(t)

\* The first files of a list, as many as a report holds.
FirstListed(files) == {InOrder(files)[n] : n \in {k \in DOMAIN InOrder(files) : k <= MaxListed}}

NoDiff == [compared |-> FALSE, walked |-> FALSE, matched |-> FALSE, extra |-> {}, altered |-> {}]
DiffTrees(t) ==
    IF ~ExecutionDivergence(t) /\ Noise(t) THEN NoDiff
    ELSE [compared |-> TRUE, walked |-> t.npm.known # {}, matched |-> Matched(t) # {},
          extra |-> FirstListed(ExtraSource(t)), altered |-> FirstListed(MismatchedSource(t))]
DiffNpmVsGithub(repo) == IF TreeMissing(repo) THEN NoDiff ELSE DiffTrees(Trees(repo))
=============================================================================
