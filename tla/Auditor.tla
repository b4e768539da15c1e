------------------------------- MODULE Auditor -------------------------------
(***************************************************************************)
(* auditEvidence (auditor.js): from the evidence about one package to its  *)
(* report.  Evidence is a record                                           *)
(*   files      the paths given, in order       content   what each is     *)
(*   runtime, lifecycle, installTime  the graph's sets                     *)
(*   spawns     pairs: a file starts the other as a concealed process      *)
(*   unresolved files with a gap in the graph                              *)
(*   covered    source coverage is complete     npm       the ecosystem    *)
(*   diff       compared: with the linked repository; extra, altered: the  *)
(*              source it lacks or has otherwise; walked, matched: there   *)
(*              were files, and some were the same there                   *)
(*   self       the package is the scanner, its repository the canonical   *)
(*   attestation "none", "match", "mismatch"    github    what GitHub said *)
(*   metadata   "none", "plain", "deprecated"   vulns     their number     *)
(*   vulnError, deps ("none", "clean", "vulnerable", "incomplete")         *)
(* A finding of the report also names its file.                            *)
(***************************************************************************)
EXTENDS Detectors, VerdictPolicy, SequencesExt

In(file, found) ==
    {[category |-> g.category, severity |-> g.severity, file |-> file, keep |-> g.keep, note |-> g.note]
        : g \in found}

\* What GitHub says of the linked repository: absent, missing, unreachable, or a set of traits.
GithubTraits == {"archived", "disabled", "young", "lonely", "stale", "popular", "old", "single-maintainer"}

\* One person publishes a package that is old or popular, by what GitHub says of its repository.
InspectMaintainerSurface(ev) ==
    In("NPM_METADATA",
       When(/\ ev.metadata # "none" /\ ev.github = "found"
            /\ "single-maintainer" \in ev.traits /\ {"popular", "old"} \cap ev.traits # {},
            Flag("lonely-maintainer", "medium")))

InspectGithubMetadata(ev) ==
    InspectMaintainerSurface(ev) \cup
    In("GITHUB_METADATA",
       CASE ev.github = "none" -> {Flag("missing-metadata", "info")}
         [] ev.github = "missing" -> {Flag("github-mismatch", "medium")}
         [] ev.github = "unreachable" -> {Flag("github-fetch", "info")}
         [] ev.github = "elsewhere" -> {}
         [] ev.github = "found" ->
              When("archived" \in ev.traits, Flag("github-archived", "medium"))
              \cup When("disabled" \in ev.traits, Noted("github-archived", "medium", "disabled"))
              \cup When("young" \in ev.traits, Flag("github-young", "medium"))
              \cup When("lonely" \in ev.traits, Flag("github-lonely", "low"))
              \cup When("stale" \in ev.traits /\ "archived" \notin ev.traits, Flag("github-stale", "info")))

\* Silent without one; a different repository is high; otherwise recorded, and nothing else.
InspectProvenance(ev) ==
    In("ATTESTATION",
       CASE ev.attestation = "none" -> {}
         [] ev.attestation = "mismatch" -> {Flag("provenance-mismatch", "high")}
         [] ev.attestation = "match" -> {Flag("provenance-attested", "info")})

Divergent(ev) == ev.diff.extra \cup ev.diff.altered

InspectNpmVsGithubDiff(ev) ==
    In("NPM_VS_GITHUB",
       IF ~ev.diff.compared THEN {}
       ELSE When(ev.diff.extra # {}, Flag("npm-vs-github-divergence", "medium"))
            \cup When(ev.diff.altered # {}, Noted("npm-vs-github-divergence", "medium", "altered"))
            \cup When(Divergent(ev) = {} /\ ev.diff.walked, Flag("npm-vs-github-clean", "info")))

InspectVulnerabilities(ev) ==
    In("VULNERABILITY_INTELLIGENCE",
       {Noted("known-vulnerability", "high", n) : n \in 1 .. Min({ev.vulns, 20})}
       \cup When(ev.vulnError, Flag("vulnerability-data-unavailable", "info")))

InspectMetadataObject(ev) ==
    In("NPM_METADATA",
       CASE ev.metadata = "none" -> {Flag("missing-metadata", "info")}
         [] ev.metadata = "deprecated" -> {Flag("supply-chain-signal", "low")}
         [] OTHER -> {})

\* The first package.json given; the Python manifests when there is none.
ManifestsOf(ev, surface) == {f \in ToSet(ev.files) : ev.content[f].surface = surface}
FirstFile(ev, files) == ev.files[Min({n \in DOMAIN ev.files : ev.files[n] \in files})]

InspectManifests(ev) ==
    LET npm == ManifestsOf(ev, "package.json")
        setup == ManifestsOf(ev, "setup.py")
        pyproject == ManifestsOf(ev, "pyproject.toml")
    IN IF npm # {} THEN In(FirstFile(ev, npm), InspectPackageJson(ev.content[FirstFile(ev, npm)]))
       ELSE IF setup \cup pyproject # {}
            THEN (UNION {In(f, InspectSetupPy(ev.content[f])) : f \in setup})
                 \cup (UNION {In(f, InspectPyprojectBuild(ev.content[f])) : f \in pyproject})
            ELSE In("package.json", {Flag("missing-package-json", "info")})

AuditMetadata(ev) ==
    InspectManifests(ev) \cup InspectMetadataObject(ev) \cup InspectGithubMetadata(ev)
    \cup InspectProvenance(ev) \cup InspectVulnerabilities(ev) \cup InspectNpmVsGithubDiff(ev)

----------------------------------------------------------------------------
\* auditFiles.

Runs(ev, f) == f \in ev.runtime
Skipped(ev, f) == "inert" \in ev.content[f].kind /\ ~Runs(ev, f)
ReadAsText(ev, f) == ~Skipped(ev, f) /\ "doc" \in ev.content[f].kind /\ ~Runs(ev, f)

\* Mutant: only install hooks bring another ecosystem's file into the behavioural suite.
BehavesByDoc(ev, f) ==
    /\ ~Skipped(ev, f)
    /\ "doc" \notin ev.content[f].kind
    /\ ev.npm /\ "python" \notin ev.content[f].kind
\* The files the behavioural suite runs over: whatever runs, and the JavaScript of npm packages.
Behaves(ev, f) ==
    /\ ~Skipped(ev, f) /\ ~ReadAsText(ev, f)
    /\ Runs(ev, f) \/ (ev.npm /\ "python" \notin ev.content[f].kind)

InspectFile(ev, f) ==
    LET c == ev.content[f]
    IN IF Skipped(ev, f) THEN {}
       ELSE InspectInjectionAttempt(c) \cup InspectConcealedInjection(c)
            \cup (IF ReadAsText(ev, f) THEN {} ELSE InspectHiddenUnicode(c))
            \cup (IF Behaves(ev, f) THEN Behaviour(c, Runs(ev, f), f \in ev.installTime) ELSE {})

\* The environment is harvested in one file and the destination is in another one.
HarvestFiles(ev) == {f \in ToSet(ev.files) : Behaves(ev, f) /\ BulkEnv(ev.content[f])}
DomainFiles(ev) == {f \in ToSet(ev.files) : Behaves(ev, f) /\ ExfilDomain(ev.content[f])}
InspectCrossFileExfil(ev) ==
    IF HarvestFiles(ev) = {} \/ DomainFiles(ev) \subseteq HarvestFiles(ev) THEN {}
    ELSE In(FirstFile(ev, HarvestFiles(ev)),
            {[Keep("network-exfil-or-loader", "high") EXCEPT !.note = "across files"]})

ArtifactCorrelationCategories ==
    {"credential-access", "agent-config-access", "network-exfil-or-loader", "obfuscation",
     "obfuscated-token", "persistence", "logic-bomb", "remote-code-load", "alternate-runtime-exec",
     "cloud-metadata-access", "ci-workflow-injection", "self-deleting-dropper",
     "registry-self-publish", "hidden-unicode"}

Serious(g) == g.severity \in {"medium", "high"}

\* Behaviour in a file that is not what the repository has.
InspectArtifactOnlyMalware(ev, findings) ==
    IF ~ev.diff.compared THEN {}
    ELSE UNION {In(f, {Keep("artifact-only-malware", "high")}) :
                f \in {g.file : g \in {h \in findings : /\ Serious(h)
                                                        /\ h.category \in ArtifactCorrelationCategories
                                                        /\ h.file \in Divergent(ev)}}}

\* What the graph could not follow, string tables in files that run, and Python modules.
PythonFiles(ev) == {f \in ToSet(ev.files) : "python" \in ev.content[f].kind}
InspectGraph(ev) ==
    UNION ({In(f, {Flag("unresolved-runtime-execution", "medium")}) : f \in ev.unresolved} \cup
           {In(f, {Flag("structural-obfuscation", "medium")}) :
                f \in {g \in ToSet(ev.files) : Runs(ev, g) /\ "string-table" \in Raw(ev.content[g])}})
InspectLanguage(ev) ==
    IF PythonFiles(ev) = {} THEN {}
    ELSE In(FirstFile(ev, PythonFiles(ev)), {Flag("unsupported-behavior", "medium")})

InspectFiles(ev) ==
    UNION {In(f, InspectAutoExecSurface(ev.content[f]) \cup InspectFile(ev, f)) : f \in ToSet(ev.files)}

BaseFindings(ev) ==
    AuditMetadata(ev) \cup InspectGraph(ev) \cup InspectLanguage(ev) \cup InspectFiles(ev)
    \cup InspectCrossFileExfil(ev)

RawFindings(ev) == BaseFindings(ev) \cup InspectArtifactOnlyMalware(ev, BaseFindings(ev))

----------------------------------------------------------------------------
\* Downgrades.

DowngradeInTest ==
    {"network-exfil-or-loader", "obfuscation", "credential-access", "agent-config-access",
     "alternate-runtime-exec", "cloud-metadata-access", "ci-workflow-injection",
     "self-deleting-dropper", "registry-self-publish", "persistence", "remote-code-load"}
DowngradeInBuildOutput == DowngradeInTest \cup {"code-execution", "remote-code-load", "dynamic-require"}

Kind(ev, f) == IF f \in ToSet(ev.files) THEN ev.content[f].kind ELSE {}

\* Bundles no script runs, then tests and examples nothing runs.
Downgraded(ev, g) ==
    \/ /\ "build" \in Kind(ev, g.file) /\ g.category \in DowngradeInBuildOutput
       /\ g.file \notin ev.lifecycle
    \/ /\ "test" \in Kind(ev, g.file) /\ g.category \in DowngradeInTest
       /\ ~g.keep /\ g.file \notin ev.runtime

Downgrade(ev, findings) ==
    {IF g.severity = "high" /\ Downgraded(ev, g) THEN [g EXCEPT !.severity = "medium"] ELSE g : g \in findings}

TargetSignals ==
    {"structural-obfuscation", "obfuscation", "network-exfil-or-loader", "onchain-c2-loader",
     "credential-access", "agent-config-access", "remote-code-load", "self-deleting-dropper", "persistence"}

\* A concealed process that was resolved to a file with a signal, after the downgrades.
HiddenLoaders(ev, findings) ==
    UNION {In(e[1], {Flag("hidden-local-loader", "high")}) :
           e \in {s \in ev.spawns : \E g \in findings : /\ g.file = s[2] /\ Serious(g)
                                                        /\ g.category \in TargetSignals}}

FileFindings(ev) ==
    LET left == Downgrade(ev, RawFindings(ev)) IN left \cup HiddenLoaders(ev, left)

\* The scanner's own, verified source matches its own patterns.
IsVerifiedSelfScan(ev) ==
    /\ ev.self /\ ev.github = "found"
    /\ ev.diff.compared /\ Divergent(ev) = {} /\ ev.diff.matched
SelfScanKeepSeverity == {"known-vulnerability", "install-hook"}
ApplySelfScanDowngrade(findings) ==
    {IF g.severity = "high" /\ g.category \notin SelfScanKeepSeverity
     THEN [g EXCEPT !.severity = "medium"] ELSE g : g \in findings}
    \cup In("SELF_SCAN", {Flag("self-scan-verified", "info")})

Findings(ev) ==
    LET found == FileFindings(ev)
    IN (IF IsVerifiedSelfScan(ev) THEN ApplySelfScanDowngrade(found) ELSE found)
       \cup In("SOURCE_FILES",
               When(ev.files = << >>, Flag("missing-evidence", "info"))
               \cup When(~ev.covered, Flag("incomplete-source-scan", "medium")))
       \cup In("package.json",
               When(ev.deps = "vulnerable", Flag("known-vulnerability", "high"))
               \cup When(ev.deps = "incomplete", Flag("incomplete-dependency-scan", "medium")))

Verdict(ev) == DecideVerdict(Findings(ev), ev.files # << >>)

----------------------------------------------------------------------------
\* The grade; weights in twentieths.

Parameters == [
    installHooks |-> {"install-hook", "native-build", "agent-hook"},
    codeExecution |-> {"code-execution", "privileged-capability", "dynamic-require", "logic-bomb",
                       "remote-code-load", "alternate-runtime-exec", "onchain-c2-loader",
                       "self-deleting-dropper", "hidden-local-loader"},
    dataAccess |-> {"credential-access", "agent-config-access", "environment-access", "data-access",
                    "cloud-metadata-access"},
    networkExposure |-> {"network-access", "network-exfil-or-loader"},
    persistence |-> {"persistence", "ci-workflow-injection", "registry-self-publish"},
    obfuscation |-> {"obfuscation", "obfuscated-token", "hidden-unicode", "structural-obfuscation"},
    knownVulnerabilities |-> {"known-vulnerability"},
    provenance |-> {"supply-chain-signal", "missing-package-json", "missing-metadata",
                    "package-metadata", "provenance-mismatch", "artifact-only-malware"},
    injectionResistance |-> {"injection-attempt"}]

ScoreParameter(findings, categories) ==
    LET count(severity) == Cardinality({g \in findings : g.category \in categories /\ g.severity = severity})
    IN Max({0, 100 - 70 * count("high") - 35 * count("medium") - 15 * count("low") - 5 * count("info")})

Lost(condition, points) == IF condition THEN points ELSE 0
EvidenceCompletenessScore(findings, sources) ==
    LET has(category) == \E g \in findings : g.category = category
        about(file) == \E g \in findings : g.file = file
    IN Max({0, 100 - Lost(~sources, 70) - Lost(has("missing-package-json"), 20)
                   - Lost(about("NPM_METADATA"), 5) - Lost(about("GITHUB_METADATA"), 5)
                   - Lost(has("vulnerability-data-unavailable"), 15)})

CapScoreBySeverity(score, findings) ==
    IF \E g \in findings : g.severity = "high" THEN Min({score, 59})
    ELSE IF \E g \in findings : g.severity = "medium" THEN Min({score, 79}) ELSE score

\* The weighted mean of the parameters and of the completeness, whose weight is one, rounded.
GradeEvidence(findings, sources) ==
    LET score(parameter) == ScoreParameter(findings, Parameters[parameter])
        tenths == score("installHooks") + score("persistence") + score("obfuscation")
                  + score("provenance") + score("injectionResistance")
        more == score("codeExecution") + score("dataAccess") + score("networkExposure")
                + score("knownVulnerabilities")
        total == EvidenceCompletenessScore(findings, sources) + 2 * tenths + 3 * more
    IN CapScoreBySeverity((2 * total + 23) \div 46, findings)

\* The lowest score of each letter.
Letters == <<97, 93, 90, 87, 83, 80, 77, 73, 70, 67, 63, 60, 0>>
LetterGrade(score) == Min({n \in DOMAIN Letters : score >= Letters[n]})
=============================================================================
