--------------------------- MODULE VerdictPolicy ---------------------------
(***************************************************************************)
(* The policy every surface shares: how findings fold to a verdict         *)
(* (auditor.js), what a configuration may change of it (config.js) and     *)
(* what a decision may rest on (approval-policy.js).  A finding is a       *)
(* record [category, severity, file]; a glob is the set of the names it    *)
(* matches; a hash is the content it is the hash of.                       *)
(***************************************************************************)
EXTENDS Integers, Sequences

\* No mute and no approval clears a published vulnerability; coverage gaps cannot be muted.
Immutable == {"known-vulnerability"}
Mandatory == {"incomplete-source-scan", "incomplete-dependency-scan", "unsupported-behavior",
              "flow-analysis-gap", "unresolved-runtime-execution"}
Evidential == {"missing-evidence", "missing-package-json", "package-metadata"}

DecideVerdict(findings, hasSources) ==
    IF \E f \in findings : f.severity = "high" THEN "block"
    ELSE IF ~hasSources \/ \E f \in findings : f.severity = "medium" \/ f.category \in Evidential
         THEN "review" ELSE "safe"

----------------------------------------------------------------------------
\* Configuration.  A layer is a record with some of the keys; later layers win.

Defaults == [policy |-> "safe-only", failOn |-> "review", scanErrorPolicy |-> "fail-closed"]
Valid == [policy |-> {"safe-only", "allow-review"},
          failOn |-> {"block", "review", "never"},
          scanErrorPolicy |-> {"fail-closed", "fail-open"}]

Setters(layers, key) == {n \in DOMAIN layers : key \in DOMAIN layers[n]}

MergedScalar(layers, key, fallback) ==
    IF Setters(layers, key) = {} THEN fallback
    ELSE layers[CHOOSE n \in Setters(layers, key) : \A k \in Setters(layers, key) : k <= n][key]

\* allow and mute are concatenated: over all layers, in order.  A value that is no list adds nothing.
MergedList(layers, key) ==
    LET from[n \in 0 .. Len(layers)] ==
            IF n = 0 THEN << >>
            ELSE from[n - 1] \o IF key \in DOMAIN layers[n] THEN layers[n][key] ELSE << >>
    IN from[Len(layers)]

ValidateEnum(layers, key) ==
    LET v == MergedScalar(layers, key, Defaults[key])
    IN IF v \in Valid[key] THEN v ELSE Defaults[key]

\* An allow entry counts only with a name, a version and a hash; a mute only with a mutable category.
ValidateAllowEntry(e) == e.name # "" /\ e.version # "" /\ e.sha256 # ""
ValidateMuteEntry(e) == e.check # "" /\ e.check \notin Immutable

\* The layers, lowest first: project file, local file, environment, command line.
LoadConfig(layers) ==
    [policy |-> ValidateEnum(layers, "policy"), failOn |-> ValidateEnum(layers, "failOn"),
     scanErrorPolicy |-> ValidateEnum(layers, "scanErrorPolicy"),
     allow |-> SelectSeq(MergedList(layers, "allow"), ValidateAllowEntry),
     mute |-> SelectSeq(MergedList(layers, "mute"), ValidateMuteEntry)]

----------------------------------------------------------------------------
\* Applying a configuration to a report.

Muted(f, mutes, name) ==
    \E n \in DOMAIN mutes : /\ mutes[n].check = f.category
                            /\ name \in mutes[n].scope
                            /\ f.file \in mutes[n].files

Surviving(findings, mutes, name) ==
    {f \in findings : f.category \in Immutable \cup Mandatory \/ ~Muted(f, mutes, name)}

\* The entries that pin exactly these bytes.  No hash at hand, no pin.
AllowHits(allows, name, version, sha256) ==
    {n \in DOMAIN allows : /\ allows[n].name = name
                           /\ allows[n].version = version
                           /\ sha256 # ""
                           /\ allows[n].sha256 = sha256}

\* The first hit decides, expired or not.
Allowed(allows, name, version, sha256) ==
    \E n \in AllowHits(allows, name, version, sha256) :
        /\ \A k \in AllowHits(allows, name, version, sha256) : n <= k
        /\ ~allows[n].expired

ApplyConfig(findings, config, name, version, sha256, hasSources) ==
    LET left == Surviving(findings, config.mute, name)
        categories == {f.category : f \in left}
        hit == Allowed(config.allow, name, version, sha256)
        cleared == hit /\ categories \cap (Immutable \cup {"incomplete-dependency-scan"}) = {}
        heldForDeps == hit /\ categories \cap Immutable = {}
                           /\ "incomplete-dependency-scan" \in categories
    IN [findings |-> findings, allowlisted |-> cleared,
        verdict |-> IF cleared THEN "safe"
                    ELSE IF heldForDeps THEN "review" ELSE DecideVerdict(left, hasSources)]

----------------------------------------------------------------------------
\* What a decision may rest on.

MandatoryHoldReasons(report, sourceComplete, depsIncomplete) ==
    {f.category : f \in {g \in report.findings : g.category \in Mandatory}}
        \cup (IF sourceComplete THEN {} ELSE {"incomplete-source-scan"})
        \cup (IF depsIncomplete THEN {"incomplete-dependency-scan"} ELSE {})

AuthorizationFor(report, sourceComplete, depsIncomplete) ==
    LET reasons == MandatoryHoldReasons(report, sourceComplete, depsIncomplete)
    IN [holds |-> reasons, covered |-> reasons = {}, override |-> report.allowlisted]

VerdictForScanError(config) ==
    IF config.scanErrorPolicy = "fail-open" THEN "safe" ELSE "review"

FloorVerdictForScanGap(verdict, hasGap, config) ==
    IF ~hasGap \/ verdict = "block" \/ VerdictForScanError(config) = "safe" THEN verdict ELSE "review"

\* The decision before coverage is looked at.
PolicyDecision(verdict, policy) ==
    IF verdict = "safe" \/ (verdict = "review" /\ policy = "allow-review") THEN "allow" ELSE verdict

\* Mutant: the review policy is applied to a held verdict.
GuardDecisionPolicyLast(report, config, osvFailed, authorization) ==
    IF authorization.override THEN PolicyDecision(report.verdict, config.policy)
    ELSE IF authorization.holds # {} /\ report.verdict # "block" THEN PolicyDecision("review", config.policy)
    ELSE FloorVerdictForScanGap(PolicyDecision(report.verdict, config.policy), osvFailed, config)
GuardDecision(report, config, osvFailed, authorization) ==
    LET decision == PolicyDecision(report.verdict, config.policy)
    IN IF authorization.override THEN decision
       ELSE IF authorization.holds # {} /\ decision # "block" THEN "review"
       ELSE FloorVerdictForScanGap(decision, osvFailed, config)

\* A receipt's reader repeats the checks instead of trusting the decision alone.
ReceiptAuthorizes(receipt, allowReview) ==
    /\ receipt.sourceComplete
    /\ receipt.checks.source = "completed"
    /\ receipt.checks.vulnerabilities = "completed"
    /\ receipt.decision = "allow" \/ (allowReview /\ receipt.decision = "review")
    /\ \/ receipt.authorization.holds = {} /\ receipt.authorization.covered
       \/ receipt.authorization.override /\ receipt.decision = "allow"

\* The exit code of a command: 0 passes, 3 fails as review, 2 as block.
ExitCodeForVerdict(verdict, failOn) ==
    CASE failOn = "never" \/ verdict \in {"safe", "allow"} -> 0
      [] failOn # "never" /\ verdict = "block" -> 2
      [] OTHER -> IF failOn = "block" THEN 0 ELSE 3
============================================================================
