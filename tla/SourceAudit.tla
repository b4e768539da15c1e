------------------------------ MODULE SourceAudit ------------------------------
(***************************************************************************)
(* From a staged package to its report: the collection of its source, the  *)
(* execution graph over what was read, the comparison with the linked      *)
(* repository, and the audit of that evidence with what the network said.  *)
(***************************************************************************)
EXTENDS RepositoryDiff, Auditor

CONSTANT Surroundings   \* what the registries, GitHub and the advisories said, records

ASSUME SurroundingsAssumption ==
    \A about \in Surroundings :
        /\ about.npm \in BOOLEAN /\ about.self \in BOOLEAN
        /\ about.vulnError \in BOOLEAN /\ about.vulns \in Nat
        /\ Len(about.repo) <= 1
        /\ about.attestation \in {"none", "match", "mismatch"}
        /\ about.github \in {"none", "missing", "unreachable", "elsewhere", "found"}
        /\ about.traits \subseteq GithubTraits
        /\ about.metadata \in {"none", "plain", "deprecated"}
        /\ about.deps \in {"none", "clean", "vulnerable", "incomplete"}

VARIABLE evidence       \* the evidence of the finished audit, << >> before

auditVars == <<collection, graphVars, evidence>>

\* The comparison is made of an npm package without known vulnerabilities that names its repository,
\* where the tree of its version was found.
DiffRuns(about) ==
    about.npm /\ about.github = "found" /\ about.vulns = 0 /\ readOrder # << >> /\ about.repo # << >>

EvidenceOf(about) ==
    [files |-> readOrder, content |-> Seen,
     runtime |-> runtime, lifecycle |-> lifecycle, installTime |-> installTime,
     spawns |-> ConcealedIn(facts \ over), unresolved |-> {g[1] : g \in graphGaps}, covered |-> gaps = {},
     npm |-> about.npm, repo |-> about.repo,
     diff |-> IF DiffRuns(about) THEN DiffNpmVsGithub(about.repo[1]) ELSE NoDiff,
     self |-> about.self, attestation |-> about.attestation, github |-> about.github,
     traits |-> about.traits, metadata |-> about.metadata, vulns |-> about.vulns,
     vulnError |-> about.vulnError, deps |-> about.deps]

Audit ==
    /\ graph = "done" /\ evidence = << >>
    /\ \E about \in Surroundings : evidence' = <<EvidenceOf(about)>>
    /\ UNCHANGED <<collection, graphVars>>

AuditInit == InitCollection /\ InitGraph /\ evidence = << >>
AuditNext ==
    \/ CollectStep /\ UNCHANGED <<graphVars, evidence>>
    \/ GraphStep /\ UNCHANGED evidence
    \/ Audit
AuditSpec == AuditInit /\ [][AuditNext]_auditVars
----------------------------------------------------------------------------
Audited == evidence # << >>
Ev == evidence[1]
Severity == [safe |-> 0, review |-> 1, block |-> 2]

\* "Safe" is said of an npm package only when every file its entry points and scripts lead to was
\* read to its end and went through the behavioural detectors, whatever its name makes it.
SafeMeansInspected ==
    Audited => (Verdict(Ev) = "safe" /\ Ev.npm =>
                    \A f \in ReachableFrom(Roots) : f \in read \ elided /\ Behaves(Ev, f))

\* What would block in a file that the install hooks lead to does block, also when the file lies
\* among tests or bundles, unless the package is the scanner itself.  (Without complete coverage
\* the verdict is held by the gap.)
InstallCodeBlocks ==
    Audited /\ Ev.covered /\ ~IsVerifiedSelfScan(Ev) =>
        \A g \in RawFindings(Ev) :
            g.severity = "high" /\ g.file \in ReachableFrom(Targets(package.hooks)) => Verdict(Ev) = "block"

\* Test, bundle and self-scan downgrades lower a verdict, they never clear a package.
DowngradesNeverClear ==
    Audited => ((\E g \in RawFindings(Ev) : g.severity = "high") => Verdict(Ev) # "safe")

\* A provenance statement never offsets anything: without it the verdict would be no stricter and
\* the score no lower.
ProvenanceNeverOffsets ==
    Audited => LET without == [Ev EXCEPT !.attestation = "none"]
               IN /\ Severity[Verdict(Ev)] >= Severity[Verdict(without)]
                  /\ GradeEvidence(Findings(Ev), Ev.files # << >>)
                         <= GradeEvidence(Findings(without), Ev.files # << >>)

\* However noisy the comparison of two trees, a file of a concealed start that the repository lacks,
\* or has with other content, keeps the package from being safe, and blocks it when the file is named
\* in the report and behaves badly itself.
DivergenceIsNoNoise ==
    Audited /\ DiffRuns(Ev) /\ ~TreeMissing(Ev.repo[1]) =>
        LET t == Trees(Ev.repo[1])
            differing == Extra(t) \cup ((Common(t) \cap Hashed(t)) \ t.repo.same)
        IN \A f \in ExecutionFiles \cap Considered(t) \cap differing :
               /\ Verdict(Ev) # "safe"
               /\ f \in Divergent(Ev) /\ (\E g \in BaseFindings(Ev) :
                      g.file = f /\ Serious(g) /\ g.category \in ArtifactCorrelationCategories)
                  => Verdict(Ev) = "block"

\* What a scan says it covered it did cover, within its limits, from the collection of the files to the
\* graph of what runs: complete coverage is what lets a verdict be less than a hold.
SourcesAreCovered ==
    CompleteIsWhole /\ InstallTimeIsClosed /\ CoverageIsBounded /\ GraphIsClosed /\ ReachedIsRun

\* No leniency of the auditor (demotions, downgrades, offsets, noise) turns a package it found something in,
\* or did not look into, into a safe one, or an install hook that would block into one that does not.
VerdictsAreEarned ==
    /\ SafeMeansInspected /\ InstallCodeBlocks /\ DowngradesNeverClear
    /\ ProvenanceNeverOffsets /\ DivergenceIsNoNoise
=============================================================================
