--------------------------- MODULE GuardPipeline ---------------------------
(***************************************************************************)
(* guardExtension (quarantine.js): a reference is resolved, checked for    *)
(* published vulnerabilities, downloaded, verified, unpacked, scanned and  *)
(* decided upon in a private workspace, which is deleted whatever happens. *)
(* Several guards run at once and share the tarball cache on disk, whose   *)
(* files are written in place.  Contents of archives and trees:            *)
(*   "good"     the bytes the integrity value names                        *)
(*   "altered"  complete, other bytes     "partial"  a copy being written  *)
(*   "local"    a tree the user named, which has no integrity value        *)
(***************************************************************************)
EXTENDS VerdictPolicy, FiniteSets

CONSTANTS Guards,      \* concurrent runs of guardExtension, all of one package
          Requests,    \* Requests[g] is what g may be asked
          FindingPool, \* what reading the sources may find
          MaxCrashes

Kinds == {"npm", "locked", "archive", "pypi", "wheel", "github", "local"}

\* A request names the reference and the options; its configuration is in layers.
RequestType == [kind : Kinds, vulnCheck : BOOLEAN, sourceScan : BOOLEAN, deps : BOOLEAN,
                promote : BOOLEAN, force : BOOLEAN, keep : BOOLEAN]
Options == DOMAIN CHOOSE r \in RequestType : TRUE

ASSUME GuardsAssumption ==
    /\ IsFiniteSet(Guards) /\ MaxCrashes \in Nat
    /\ \A g \in Guards : \A r \in Requests[g] : [o \in Options |-> r[o]] \in RequestType

VARIABLES
    request,   \* request[g]
    pc,        \* the step g takes next
    workspace, \* g's quarantine directory exists
    archive,   \* the archive in it
    tree,      \* the unpacked package in it
    integrity, \* the resolved package has an integrity value
    sha,       \* resolved.sha256: the content it is the hash of, or Unhashed
    vulns,     \* the answer of the vulnerability service, "unasked" before it
    coverage,  \* of the source scan
    found,     \* findings of the sources
    sources,   \* some source file was read
    deps,      \* result of the direct-dependency check; "unrun" is its only element before it
    decision,  \* of the guard, "none" before it
    served,    \* the archive came from the cache
    cache,     \* the cached tarball of the package
    writers,   \* guards copying into the cached file that is there now
    target,    \* the directory packages are promoted to
    faults,    \* what failed for g that the code does not control
    crashes

vars == <<request, pc, workspace, archive, tree, integrity, sha, vulns, coverage, found,
          sources, deps, decision, served, cache, writers, target, faults, crashes>>

Unhashed == ""
Contents == {"none", "partial", "good", "altered", "local"}
Config(g) == LoadConfig(request[g].layers)

Init ==
    /\ request \in {r \in [Guards -> UNION {Requests[g] : g \in Guards}] : \A g \in Guards : r[g] \in Requests[g]}
    /\ pc = [g \in Guards |-> "begin"]
    /\ workspace = [g \in Guards |-> FALSE]
    /\ archive = [g \in Guards |-> "none"]
    /\ tree = [g \in Guards |-> "none"]
    /\ integrity = [g \in Guards |-> FALSE]
    /\ sha = [g \in Guards |-> Unhashed]
    /\ vulns = [g \in Guards |-> "unasked"]
    /\ coverage = [g \in Guards |-> "none"]
    /\ found = [g \in Guards |-> {}]
    /\ sources = [g \in Guards |-> FALSE]
    /\ deps = [g \in Guards |-> {"unrun"}]
    /\ decision = [g \in Guards |-> "none"]
    /\ served = [g \in Guards |-> FALSE]
    /\ cache \in {"none", "good", "altered"}
    /\ writers = {}
    /\ target \in {"none", "local"}
    /\ faults = [g \in Guards |-> {}]
    /\ crashes = 0

----------------------------------------------------------------------------
At(g, step) == pc[g] = step
Goto(g, step) == pc' = [pc EXCEPT ![g] = step]

\* An exception: what is left of the run is its finally block.
Throw(g, fault) ==
    /\ Goto(g, "cleanup")
    /\ faults' = [faults EXCEPT ![g] = @ \cup fault]

results == <<vulns, coverage, found, sources, deps, decision>>
files == <<workspace, archive, tree>>
shared == <<cache, writers, target>>

\* The workspace is a fresh directory with a random name.
Begin(g) ==
    /\ At(g, "begin")
    /\ workspace' = [workspace EXCEPT ![g] = TRUE]
    /\ Goto(g, "stage")
    /\ UNCHANGED <<request, archive, tree, integrity, sha, results, served, shared, faults, crashes>>

\* stageReference.  Metadata may be missing, name a foreign download host or an unknown version;
\* a lock file's artifact needs a well-formed integrity value.
StageFails(g) ==
    /\ At(g, "stage")
    /\ Throw(g, {"resolve"})
    /\ UNCHANGED <<request, files, integrity, sha, results, served, shared, crashes>>

Stage(g) ==
    /\ At(g, "stage")
    /\ \/ /\ request[g].kind = "local"      \* a copy without links and special files
          /\ tree' = [tree EXCEPT ![g] = "local"]
          /\ UNCHANGED integrity
       \/ /\ request[g].kind \in {"npm", "pypi"}   \* published with an integrity value or without
          /\ \E published \in BOOLEAN : integrity' = [integrity EXCEPT ![g] = published]
          /\ UNCHANGED tree
       \/ /\ request[g].kind \in {"locked", "archive"}
          /\ integrity' = [integrity EXCEPT ![g] = TRUE]
          /\ UNCHANGED tree
       \/ /\ request[g].kind \in {"wheel", "github"}
          /\ UNCHANGED <<integrity, tree>>
    /\ Goto(g, "precheck")
    /\ UNCHANGED <<request, workspace, archive, sha, results, served, shared, faults, crashes>>

NeedsDownload(g) == request[g].kind \in {"npm", "locked", "archive", "pypi", "github"}

\* precheckVulnerabilities.  npm and PyPI packages are asked about by the name they resolved to; the
\* others by the identity in the tree staged so far, and a tree without one is not asked about.
Precheck(g) ==
    /\ At(g, "precheck")
    /\ \/ ~request[g].vulnCheck /\ UNCHANGED <<vulns, faults>>
       \/ /\ request[g].vulnCheck
          /\ request[g].kind # "github"
          /\ \E answer \in {"clean", "found", "failed"} :
                /\ vulns' = [vulns EXCEPT ![g] = answer]
                /\ faults' = [faults EXCEPT ![g] = @ \cup IF answer = "failed" THEN {"osv"} ELSE {}]
       \/ /\ request[g].vulnCheck
          /\ request[g].kind \in {"github", "local"}
          /\ vulns' = [vulns EXCEPT ![g] = "clean"]
          /\ UNCHANGED faults
    /\ Goto(g, "acquire")
    /\ UNCHANGED <<request, files, integrity, sha, coverage, found, sources, deps, decision, served,
                   shared, crashes>>

\* A package with a published vulnerability is not downloaded.
SkipDownload(g) ==
    /\ At(g, "acquire")
    /\ vulns[g] = "found" \/ ~NeedsDownload(g)
    /\ Goto(g, "collect")
    /\ UNCHANGED <<request, files, integrity, sha, results, served, shared, faults, crashes>>

\* A copy of the archive file at hand.
TakeArchive(g) ==
    /\ At(g, "acquire")
    /\ vulns[g] # "found" /\ request[g].kind = "archive"
    /\ \E content \in {"good", "altered"} : archive' = [archive EXCEPT ![g] = content]
    /\ Goto(g, "verify")
    /\ UNCHANGED <<request, workspace, tree, integrity, sha, results, served, shared, faults, crashes>>

\* A cached copy younger than a day is taken as it is now, which may be while it is written.
TakeCached(g) ==
    /\ At(g, "acquire")
    /\ vulns[g] # "found" /\ NeedsDownload(g) /\ request[g].kind # "archive"
    /\ cache # "none"
    /\ archive' = [archive EXCEPT ![g] = cache]
    /\ served' = [served EXCEPT ![g] = TRUE]
    /\ Goto(g, "verify")
    /\ UNCHANGED <<request, workspace, tree, integrity, sha, results, shared, faults, crashes>>

\* No copy, or an old one: the registry sends something, or the download fails.
Download(g) ==
    /\ At(g, "acquire") \/ At(g, "refetch")
    /\ At(g, "acquire") => vulns[g] # "found" /\ NeedsDownload(g) /\ request[g].kind # "archive"
    /\ \E content \in {"good", "altered"} : archive' = [archive EXCEPT ![g] = content]
    /\ Goto(g, IF At(g, "acquire") THEN "verify" ELSE "reverify")
    /\ UNCHANGED <<request, workspace, tree, integrity, sha, results, served, shared, faults, crashes>>

DownloadFails(g) ==
    /\ At(g, "acquire") \/ At(g, "refetch")
    /\ At(g, "acquire") => vulns[g] # "found" /\ NeedsDownload(g)
    /\ Throw(g, {"download"})
    /\ UNCHANGED <<request, files, integrity, sha, results, served, shared, crashes>>

\* Mutant: a copy from the cache is trusted.
VerifiedUnlessCached(g) == integrity[g] /\ (archive[g] = "good" \/ served[g])
\* verifyNpmTarballIntegrity and verifyFile: one digest, by the strongest algorithm named.
Verified(g) == integrity[g] /\ archive[g] = "good"

Verify(g) ==
    /\ At(g, "verify") \/ At(g, "reverify")
    /\ Verified(g)
    /\ sha' = [sha EXCEPT ![g] = archive[g]]
    /\ Goto(g, IF request[g].kind = "archive" \/ served[g] THEN "extract" ELSE "populate")
    /\ UNCHANGED <<request, files, integrity, results, served, shared, faults, crashes>>

\* A bad copy from the cache is removed there too and fetched once more; anything else is an error.
VerifyFails(g) ==
    /\ At(g, "verify") \/ At(g, "reverify")
    /\ ~Verified(g)
    /\ sha' = [sha EXCEPT ![g] = IF At(g, "verify") /\ request[g].kind # "archive" THEN archive[g] ELSE @]
    /\ archive' = [archive EXCEPT ![g] = IF request[g].kind = "archive" THEN @ ELSE "none"]
    /\ \/ /\ At(g, "verify") /\ served[g]
          /\ cache' = "none"
          /\ writers' = {}
          /\ Goto(g, "refetch")
          /\ UNCHANGED faults
       \/ /\ At(g, "reverify") \/ ~served[g]
          /\ Throw(g, IF integrity[g] THEN {"integrity"}
                      ELSE IF request[g].kind = "github" THEN {} ELSE {"unpublished"})
          /\ UNCHANGED <<cache, writers>>
    /\ UNCHANGED <<request, workspace, tree, integrity, results, served, target, crashes>>

\* The cached file is written in place.
PopulateBegins(g) ==
    /\ At(g, "populate")
    /\ cache' = "partial"
    /\ writers' = writers \cup {g}
    /\ Goto(g, "populating")
    /\ UNCHANGED <<request, files, integrity, sha, results, served, target, faults, crashes>>

\* When the file was removed meanwhile, the copy ends in a file without a name.  A failed copy is
\* ignored, and what it wrote stays.
PopulateEnds(g) ==
    /\ At(g, "populating")
    /\ \/ g \in writers /\ cache' = "good"
       \/ UNCHANGED cache
    /\ writers' = writers \ {g}
    /\ Goto(g, "extract")
    /\ UNCHANGED <<request, files, integrity, sha, results, served, target, faults, crashes>>

\* The listing is validated, the archive unpacked, the tree validated again, and an npm package's
\* manifest compared with what was asked for.
Extract(g) ==
    /\ At(g, "extract")
    /\ tree' = [tree EXCEPT ![g] = archive[g]]
    /\ Goto(g, "collect")
    /\ UNCHANGED <<request, workspace, archive, integrity, sha, results, served, shared, faults, crashes>>

ExtractFails(g) ==
    /\ At(g, "extract")
    /\ Throw(g, {"archive"})
    /\ UNCHANGED <<request, files, integrity, sha, results, served, shared, crashes>>

\* collectSourceEvidence, with the GitHub metadata, provenance and the comparison with the
\* repository, which degrade to nothing: what they add is part of the findings.
Collect(g) ==
    /\ At(g, "collect")
    /\ \/ /\ vulns[g] = "found" \/ request[g].kind = "wheel" \/ ~request[g].sourceScan
          /\ UNCHANGED <<coverage, found, sources>>
       \/ /\ vulns[g] # "found" /\ request[g].kind # "wheel" /\ request[g].sourceScan
          /\ \E c \in {"partial", "complete"} : coverage' = [coverage EXCEPT ![g] = c]
          /\ \E some \in BOOLEAN : sources' = [sources EXCEPT ![g] = some]
          /\ \E seen \in SUBSET FindingPool : found' = [found EXCEPT ![g] = seen]
    /\ Goto(g, "dependencies")
    /\ UNCHANGED <<request, files, integrity, sha, vulns, deps, decision, served, shared, faults, crashes>>

CollectFails(g) ==
    /\ At(g, "collect")
    /\ vulns[g] # "found" /\ request[g].kind # "wheel" /\ request[g].sourceScan
    /\ Throw(g, {"read"})
    /\ UNCHANGED <<request, files, integrity, sha, results, served, shared, crashes>>

\* scanDirectDependencies: exact pins are asked about; anything else, and any failure, is a gap.
ScanDependencies(g) ==
    /\ At(g, "dependencies")
    /\ \/ /\ request[g].deps /\ vulns[g] # "found"
          /\ \E outcome \in SUBSET {"flagged", "gap"} : deps' = [deps EXCEPT ![g] = outcome]
       \/ /\ ~(request[g].deps /\ vulns[g] # "found")
          /\ UNCHANGED deps
    /\ Goto(g, "decide")
    /\ UNCHANGED <<request, files, integrity, sha, vulns, coverage, found, sources, decision, served,
                   shared, faults, crashes>>

NoFile == ""
Finding(category, severity) == [category |-> category, severity |-> severity, file |-> NoFile]

\* auditEvidence: what the sources show, and what the checks around them add.
ScanFindings(g) ==
    found[g]
      \cup (IF vulns[g] = "found" \/ "flagged" \in deps[g] THEN {Finding("known-vulnerability", "high")} ELSE {})
      \cup (IF vulns[g] = "failed" THEN {Finding("vulnerability-data-unavailable", "info")} ELSE {})
      \cup (IF coverage[g] # "complete" THEN {Finding("incomplete-source-scan", "medium")} ELSE {})
      \cup (IF "gap" \in deps[g] THEN {Finding("incomplete-dependency-scan", "medium")} ELSE {})
      \cup (IF ~sources[g] THEN {Finding("missing-evidence", "info")} ELSE {})

Report(g) == ApplyConfig(ScanFindings(g), Config(g), "pkg", "1", sha[g], sources[g])

Authorization(g) == AuthorizationFor(Report(g), coverage[g] = "complete", "gap" \in deps[g])

Decide(g) ==
    /\ At(g, "decide")
    /\ decision' = [decision EXCEPT ![g] =
            GuardDecision(Report(g), Config(g), vulns[g] = "failed", Authorization(g))]
    /\ Goto(g, IF decision'[g] = "allow" /\ request[g].promote THEN "promote" ELSE "cleanup")
    /\ UNCHANGED <<request, files, integrity, sha, vulns, coverage, found, sources, deps, served,
                   shared, faults, crashes>>

\* The checks the assessment and the approval receipt state.
Checks(g) ==
    [source |-> IF ~request[g].sourceScan THEN "disabled"
                ELSE IF vulns[g] = "found" THEN "skipped"
                ELSE IF coverage[g] = "complete" THEN "completed" ELSE "partial",
     vulnerabilities |-> IF ~request[g].vulnCheck THEN "disabled"
                         ELSE IF vulns[g] = "failed" THEN "failed" ELSE "completed"]

\* Written only when an artifact was hashed.
Receipt(g) ==
    [artifact |-> sha[g], decision |-> decision[g], sourceComplete |-> coverage[g] = "complete",
     checks |-> Checks(g), authorization |-> Authorization(g)]

\* promoteStagedPackage: an existing target is an error, or with force is deleted first.
PromoteBegins(g) ==
    /\ At(g, "promote")
    /\ \/ /\ target = "none"
          /\ Goto(g, "copy")
          /\ UNCHANGED <<target, faults>>
       \/ /\ target # "none" /\ request[g].force
          /\ target' = "none"
          /\ Goto(g, "copy")
          /\ UNCHANGED faults
       \/ /\ target # "none" /\ ~request[g].force
          /\ Throw(g, {"target"})
          /\ UNCHANGED target
    /\ UNCHANGED <<request, files, integrity, sha, results, served, cache, writers, crashes>>

\* A copy that fails half-way leaves what it wrote.
PromoteCopies(g) ==
    /\ At(g, "copy")
    /\ \/ /\ tree[g] # "none"
          /\ target' = tree[g]
          /\ Goto(g, "cleanup")
          /\ UNCHANGED faults
       \/ /\ target' \in {target, "partial"}
          /\ Throw(g, {"copy"})
    /\ UNCHANGED <<request, files, integrity, sha, results, served, cache, writers, crashes>>

\* Mutant: the clean-up is skipped when an error is on its way.
CleanupOnSuccessOnly(g) ==
    /\ At(g, "cleanup")
    /\ IF request[g].keep \/ decision[g] = "none"
       THEN UNCHANGED <<workspace, archive, tree>>
       ELSE /\ workspace' = [workspace EXCEPT ![g] = FALSE]
            /\ archive' = [archive EXCEPT ![g] = "none"]
            /\ tree' = [tree EXCEPT ![g] = "none"]
    /\ Goto(g, "done")
    /\ UNCHANGED <<request, integrity, sha, results, served, shared, faults, crashes>>
\* The finally block.  A failed removal is ignored.
Cleanup(g) ==
    /\ At(g, "cleanup")
    /\ \/ /\ request[g].keep
          /\ UNCHANGED <<files, faults>>
       \/ /\ ~request[g].keep
          /\ workspace' = [workspace EXCEPT ![g] = FALSE]
          /\ archive' = [archive EXCEPT ![g] = "none"]
          /\ tree' = [tree EXCEPT ![g] = "none"]
          /\ UNCHANGED faults
       \/ /\ ~request[g].keep
          /\ faults' = [faults EXCEPT ![g] = @ \cup {"rm"}]
          /\ UNCHANGED files
    /\ Goto(g, "done")
    /\ UNCHANGED <<request, integrity, sha, results, served, shared, crashes>>

\* The process dies: nothing is cleaned up, and a copy into the cache stops where it is.
Crash(g) ==
    /\ crashes < MaxCrashes
    /\ pc[g] \notin {"begin", "done", "dead"}
    /\ crashes' = crashes + 1
    /\ writers' = writers \ {g}
    /\ Goto(g, "dead")
    /\ UNCHANGED <<request, files, integrity, sha, results, served, cache, target, faults>>

Step(g) ==
    \/ Begin(g) \/ StageFails(g) \/ Stage(g) \/ Precheck(g)
    \/ SkipDownload(g) \/ TakeArchive(g) \/ TakeCached(g) \/ Download(g) \/ DownloadFails(g)
    \/ Verify(g) \/ VerifyFails(g) \/ PopulateBegins(g) \/ PopulateEnds(g)
    \/ Extract(g) \/ ExtractFails(g) \/ Collect(g) \/ CollectFails(g)
    \/ ScanDependencies(g) \/ Decide(g) \/ PromoteBegins(g) \/ PromoteCopies(g) \/ Cleanup(g)

Next == \E g \in Guards : Step(g) \/ Crash(g)
Spec == Init /\ [][Next]_vars

----------------------------------------------------------------------------
\* A tree unpacked from an archive holds the bytes the integrity value names, whatever another guard
\* or a crash left in the shared cache.
UnpackedIsVerified == \A g \in Guards : tree[g] \in {"none", "good", "local"}

\* A published vulnerability, of the package or of a direct dependency, blocks under every
\* configuration, pinned approvals and mutes included (config.js:24).
VulnerabilitiesBlock ==
    \A g \in Guards : decision[g] # "none" /\ (vulns[g] = "found" \/ "flagged" \in deps[g])
                        => decision[g] = "block"

\* Without a pinned approval, a guard allows only what it covered: every source read, every requested
\* dependency check complete, and an answer from the vulnerability service unless the operator chose
\* fail-open (config.js:511).
GapsAreHeld ==
    \A g \in Guards : decision[g] = "allow" /\ ~Report(g).allowlisted =>
        /\ coverage[g] = "complete"
        /\ "gap" \notin deps[g]
        /\ vulns[g] # "failed" \/ Config(g).scanErrorPolicy = "fail-open"

\* A pinned approval is used only for verified bytes it names; nothing else is allowed with blocking findings.
OverridesArePinned ==
    \A g \in Guards : decision[g] = "allow" /\ (\E f \in ScanFindings(g) : f.severity = "high" /\ f.category \notin
            {Config(g).mute[n].check : n \in DOMAIN Config(g).mute}) =>
        /\ sha[g] = "good"
        /\ \E n \in DOMAIN Config(g).allow : Config(g).allow[n].sha256 = sha[g] /\ ~Config(g).allow[n].expired

\* A receipt that authorizes an installation names bytes that were verified and checked.
ReceiptsAreEarned ==
    \A g \in Guards : sha[g] # Unhashed /\ decision[g] # "none" /\ ReceiptAuthorizes(Receipt(g), FALSE) =>
        /\ sha[g] = "good"
        /\ vulns[g] = "clean"
        /\ coverage[g] = "complete"

\* The decision of a guard, whatever the archives, the service, the sources and the configuration do,
\* is as strict as what was found, and its receipt says no more than was done.
AllowsAreEarned == VulnerabilitiesBlock /\ GapsAreHeld /\ OverridesArePinned /\ ReceiptsAreEarned

\* A guard that is over, by whatever exception, left no workspace and no unpacked tree, unless it was
\* told to keep them, its removal failed or the process died.
WorkspacesAreReclaimed ==
    \A g \in Guards : pc[g] = "done" /\ ~request[g].keep /\ "rm" \notin faults[g]
                        => ~workspace[g] /\ tree[g] = "none" /\ archive[g] = "none"

\* A guard ends without a decision only for a reason outside the code.  README.md:107 offers
\* github:owner/repo among the references that guard scans.
FailuresHaveACause ==
    \A g \in Guards : pc[g] = "done" /\ decision[g] = "none" => faults[g] # {}
=============================================================================
