------------------------------ MODULE Detectors ------------------------------
(***************************************************************************)
(* The detectors of auditor.js, each a function of one file.  A file is    *)
(* abstracted to what the patterns tell apart:                             *)
(*   code      marks: what some pattern matches in the code itself         *)
(*   comment   marks found in comments only                                *)
(*   folded    marks visible only after string folding and decoding        *)
(*   kind      what its path makes it ("doc", "inert", "minified", "test", *)
(*             "build", "python", "script")                                *)
(*   surface   the auto-executed configuration it is, or "none"            *)
(* Where a pattern asks for two matches near each other, the mark is the   *)
(* pair.  A finding is [category, severity, keep, note]; keep is           *)
(* keepHighInTests, note tells findings apart that one detector repeats.   *)
(***************************************************************************)
EXTENDS Integers, Sequences, FiniteSetsExt

CONSTANT MaxHints    \* flow hints reported for a file

ASSUME HintsAssumption == MaxHints \in Nat \ {0}

Noted(category, severity, note) == [category |-> category, severity |-> severity, keep |-> FALSE, note |-> note]
Flag(category, severity) == Noted(category, severity, "")
Keep(category, severity) == [Flag(category, severity) EXCEPT !.keep = TRUE]
When(condition, finding) == IF condition THEN {finding} ELSE {}

\* A detector that returns at its first match: the first row whose condition holds.
FirstOf(rows) ==
    LET hits == {n \in DOMAIN rows : rows[n][1]}
    IN IF hits = {} THEN {} ELSE {rows[Min(hits)][2]}

\* What a detector looks at: the text, the text and its folded form, or both without comments.
Raw(f) == f.code \cup f.comment
Both(f) == Raw(f) \cup f.folded
Bare(f) == f.code \cup f.folded

BulkEnv(f) == "bulk-env" \in Raw(f)
EnvCopy(f) == "env-copy" \in Raw(f)
ExfilDomain(f) == "exfil-domain" \in Both(f)

----------------------------------------------------------------------------
\* Text aimed at a reader that is a model.

\* An order to the auditor, by its wording; its rewordings, and chat scaffolding with an intent beside it.
Orders(marks) == "injection" \in marks
Steers(marks) == "steering" \in marks \/ {"scaffold", "intent"} \subseteq marks
MatchInjection(marks) == IF Orders(marks) THEN "high" ELSE IF Steers(marks) THEN "medium" ELSE "none"

\* Documents are read whole, other files' comments only.
InjectionText(f) == IF "doc" \in f.kind THEN Raw(f) ELSE f.comment

InspectInjectionAttempt(f) ==
    LET hit == MatchInjection(InjectionText(f))
    IN When(hit # "none",
            Flag("injection-attempt", IF "quoted" \in InjectionText(f) THEN "info" ELSE hit))

\* Invisible characters, and encoded text: the first run that decodes to an instruction counts.
InspectConcealedInjection(f) ==
    FirstOf(<< <<"tag-injection" \in Raw(f), Noted("injection-attempt", "high", "tag")>>,
               <<"tag-chars" \in Raw(f), Noted("injection-attempt", "medium", "tag")>> >>)
    \cup FirstOf(<< <<"encoded-injection" \in InjectionText(f), Noted("injection-attempt", "high", "encoded")>>,
                    <<"encoded-steering" \in InjectionText(f), Noted("injection-attempt", "medium", "encoded")>> >>)

InspectHiddenUnicode(f) ==
    When({"bidi", "zero-width"} \cap Raw(f) # {}, Flag("hidden-unicode", "medium"))

----------------------------------------------------------------------------
\* Obfuscation.

InspectObfuscation(f) ==
    When({"blob-by-executor", "decoder-by-executor"} \cap Raw(f) # {}, Flag("obfuscation", "high"))

\* Only for a file that is not reported for the token already.
InspectObfuscatedAssembly(f, earlier) ==
    When(/\ "exfil-domain" \in f.folded \ Raw(f)
         /\ \A g \in earlier : g.category \notin {"credential-access", "network-exfil-or-loader"},
         Flag("obfuscated-token", "medium"))

----------------------------------------------------------------------------
\* Credentials and other agents' configuration.

CredentialSeverity(marks) ==
    IF {"npmrc-auth", "network-sink"} \cap marks = {} THEN "info" ELSE "high"

\* The targets are tried in the order of their table, .npmrc between the others.
InspectCredentialAccess(f) ==
    FirstOf(<< <<"key-read" \in Bare(f), Flag("credential-access", "high")>>,
               <<"npmrc-read" \in f.code, Flag("credential-access", CredentialSeverity(f.code))>>,
               <<"npmrc-read" \in f.folded, Flag("credential-access", CredentialSeverity(Bare(f)))>>,
               <<"wallet-read" \in Bare(f), Flag("credential-access", "high")>>,
               <<BulkEnv(f) \/ EnvCopy(f), Flag("environment-access", "medium")>> >>)

InspectAgentConfigAccess(f) ==
    When("agent-config-read" \in Both(f), Flag("agent-config-access", "high"))

----------------------------------------------------------------------------
\* Persistence.

SoftRcContext(f) ==
    \/ "completion" \in Raw(f)
    \/ {"path-export", "alias"} \cap Raw(f) # {} /\ "rc-payload" \notin Raw(f)

InspectPersistence(f) ==
    IF "write-verb" \notin Raw(f) THEN {}
    ELSE FirstOf(<< <<"autostart" \in Raw(f), Flag("persistence", "high")>>,
                    <<"rc-file" \in Raw(f),
                      Flag("persistence", IF SoftRcContext(f) THEN "medium" ELSE "high")>> >>)

----------------------------------------------------------------------------
\* Execution and the network.

HasExec(f) == "exec" \in Both(f)
HasEval(f) == "eval" \in Both(f)
HasNetwork(f) == {"network", "beacon"} \cap Both(f) # {} \/ "shell-network" \in Raw(f)
HasCapability(f) == HasExec(f) \/ HasEval(f) \/ HasNetwork(f)

\* An address outside the private ranges: the first URL of each form, or any quoted one.
PublicIp(marks) == {"first-url-ip", "quoted-ip"} \cap marks # {}

InspectExecNetworkCombinations(f) ==
    LET exfil == "network-exfil-or-loader"
        high == FirstOf(
            << <<HasCapability(f) /\ (PublicIp(Bare(f)) \/ "exfil-domain" \in Bare(f)), Flag(exfil, "high")>>,
               <<HasEval(f) /\ "data-blob" \in Raw(f),
                 [Flag(exfil, "high") EXCEPT !.keep = "opaque-blob" \in Raw(f)]>>,
               <<HasNetwork(f) /\ BulkEnv(f), Keep(exfil, "high")>> >>)
    IN IF high # {} THEN high
       ELSE When(ExfilDomain(f), Flag(exfil, "medium"))
            \cup When(HasCapability(f) /\ "shortener" \in Bare(f), Noted(exfil, "medium", "shortener"))
            \cup FirstOf(<< <<HasEval(f), Flag("code-execution", "medium")>>,
                            <<"literal-eval" \in Raw(f), Flag("code-execution", "info")>> >>)
            \cup When(HasExec(f), Noted("code-execution", "info", "exec"))
            \cup When(HasNetwork(f), Flag("network-access", "info"))

InspectDynamicRequire(f) ==
    IF "computed-require" \notin Both(f) THEN {}
    ELSE FirstOf(<< <<BulkEnv(f), Noted("network-exfil-or-loader", "high", "require")>>,
                    <<PublicIp(Both(f)) \/ ExfilDomain(f), Flag("dynamic-require", "medium")>>,
                    <<TRUE, Flag("dynamic-require", "info")>> >>)

\* The first gated operation decides, deletions before overwrites, also where a worse one follows.
InspectLogicBomb(f) ==
    FirstOf(<< <<"gated-deletion" \in Raw(f), Flag("logic-bomb", "medium")>>,
               <<"gated-home-corruption" \in Raw(f), Keep("logic-bomb", "high")>>,
               <<"gated-corruption" \in Raw(f), Flag("logic-bomb", "medium")>> >>)

InspectRemoteCodeLoad(f) ==
    When("piped-download" \in Raw(f), Flag("remote-code-load", "medium"))

\* Decoded, written and started close together, unless that text unpacks a prebuilt addon.
Drops(marks) == "staged-dropper" \in marks /\ "native-addon" \notin marks
InspectStagedDropper(f) == When(Drops(f.code) \/ Drops(Bare(f)), Flag("remote-code-load", "high"))

StartsRuntime(f) == {"exec", "eval"} \cap Raw(f) # {} \/ "runtime-spawn" \in Both(f)
InspectAlternateRuntime(f) ==
    IF "runtime-download" \notin Both(f) THEN {}
    ELSE FirstOf(<< <<StartsRuntime(f), Keep("alternate-runtime-exec", "high")>>,
                    <<TRUE, Flag("alternate-runtime-exec", "medium")>> >>)

InspectOnChainLoader(f) ==
    IF "chain-read" \notin Both(f) THEN {}
    ELSE FirstOf(<< <<HasEval(f) \/ HasExec(f), Keep("onchain-c2-loader", "high")>>,
                    <<"calldata" \in Both(f), Flag("onchain-c2-loader", "medium")>> >>)

\* A watchdog that only forwards signals is exempt, unless it could carry a second stage.
Reaper(f) == {"signal-handler", "process-kill"} \subseteq Both(f) /\ "second-stage" \notin Both(f)

InspectHiddenNodeExec(f) ==
    IF "node-eval" \notin Both(f) \/ Reaper(f) THEN {}
    ELSE FirstOf(<< <<"hidden-options" \in Both(f), Keep("code-execution", "high")>>,
                    <<TRUE, Noted("code-execution", "medium", "node")>> >>)

InspectCapabilities(f) == When("clipboard" \in Raw(f), Flag("data-access", "medium"))

----------------------------------------------------------------------------
\* Detectors that ask whether the file runs at install time.

CloudCredentials(f) == {"instance-metadata", "secret-store"} \cap Bare(f) # {}
InspectCloudMetadataAccess(f, installTime) ==
    IF ~CloudCredentials(f) THEN {}
    ELSE FirstOf(<< <<installTime, Keep("cloud-metadata-access", "high")>>,
                    <<ExfilDomain(f) \/ BulkEnv(f) \/ EnvCopy(f), Flag("cloud-metadata-access", "high")>>,
                    <<"external-host" \in f.code, Flag("cloud-metadata-access", "medium")>> >>)

WritesWorkflow(f) == {"workflow-path", "file-write"} \subseteq Bare(f)
InspectCiWorkflowInjection(f, installTime) ==
    When(WritesWorkflow(f),
         [Flag("ci-workflow-injection", IF installTime THEN "high" ELSE "medium") EXCEPT !.keep = installTime])

InspectSelfDeletingDropper(f, installTime) ==
    LET dropper == installTime /\ {"network", "exec", "eval"} \cap f.code # {}
    IN When("self-delete" \in Bare(f),
            [Flag("self-deleting-dropper", IF dropper THEN "high" ELSE "medium") EXCEPT !.keep = dropper])

InspectRegistrySelfPublish(f, installTime) ==
    IF "publish" \notin Bare(f) THEN {}
    ELSE FirstOf(<< <<installTime, Keep("registry-self-publish", "high")>>,
                    <<"enumerate-packages" \in Bare(f), Flag("registry-self-publish", "high")>> >>)

----------------------------------------------------------------------------
\* Flow hints are for review, a bounded number a file, and a gap of the analysis comes first.
HintKinds == <<"flow-analysis-gap", "credential-export", "remote-vm-code", "remote-code-import",
               "credential-file-upload">>

SensitiveFlowHints(f) ==
    LET found == {n \in DOMAIN HintKinds : HintKinds[n] \in Raw(f)}
    IN {Flag(HintKinds[n], "medium") : n \in {k \in found : Cardinality({m \in found : m < k}) < MaxHints}}

\* The suite for code, in the order of the calls.  Minified code nothing runs is not called obfuscated.
Behaviour(f, runs, installTime) ==
    LET plain == "minified" \in f.kind /\ ~runs
        first == (IF plain THEN {} ELSE InspectObfuscation(f))
                 \cup InspectCredentialAccess(f) \cup InspectAgentConfigAccess(f)
                 \cup InspectPersistence(f) \cup InspectExecNetworkCombinations(f)
                 \cup InspectDynamicRequire(f)
    IN first
       \cup (IF plain THEN {} ELSE InspectObfuscatedAssembly(f, first))
       \cup InspectLogicBomb(f) \cup InspectRemoteCodeLoad(f) \cup InspectStagedDropper(f)
       \cup InspectAlternateRuntime(f) \cup InspectCloudMetadataAccess(f, installTime)
       \cup InspectCiWorkflowInjection(f, installTime) \cup InspectSelfDeletingDropper(f, installTime)
       \cup InspectRegistrySelfPublish(f, installTime) \cup InspectHiddenNodeExec(f)
       \cup InspectOnChainLoader(f) \cup InspectCapabilities(f) \cup SensitiveFlowHints(f)

----------------------------------------------------------------------------
\* Configuration that is executed without being called.

GypFetches(f) ==
    "gyp-expansion-fetch" \in Raw(f) \/ ("gyp-action" \in Raw(f) /\ "gyp-tool" \in f.code)

InspectBindingGyp(f) ==
    {Flag("native-build", "info")} \cup
    IF GypFetches(f) THEN {Keep("native-build", "high")}
    ELSE When("gyp-action" \in Raw(f), Flag("native-build", "medium"))
         \cup When("gyp-hidden-script" \in Raw(f), Noted("native-build", "medium", "script"))

InspectExtconf(f) ==
    LET both == {"shell-out", "ruby-network"}
    IN FirstOf(<< <<both \subseteq Raw(f), Keep("native-build", "high")>>,
                  <<both \cap Raw(f) # {}, Flag("native-build", "medium")>>,
                  <<TRUE, Flag("native-build", "info")>> >>)

InspectAgentHookConfig(f) == When("hooks" \in Raw(f), Keep("agent-hook", "high"))

\* A server started by anything but a package runner; a runner's or a remote one is for review.
InspectAutoMcpConfig(f) ==
    IF "mcp-servers" \notin Raw(f) THEN {}
    ELSE FirstOf(<< <<"mcp-command" \in Raw(f), Keep("agent-hook", "high")>>,
                    <<TRUE, Flag("agent-hook", "medium")>> >>)

InspectVscodeTasks(f) == When("folder-open" \in Raw(f), Keep("agent-hook", "high"))

InspectAutoExecSurface(f) ==
    CASE f.surface = "gyp" -> InspectBindingGyp(f)
      [] f.surface = "extconf" -> InspectExtconf(f)
      [] f.surface = "agent-hooks" -> InspectAgentHookConfig(f)
      [] f.surface = "mcp" -> InspectAutoMcpConfig(f)
      [] f.surface = "vscode-tasks" -> InspectVscodeTasks(f)
      [] OTHER -> {}

----------------------------------------------------------------------------
\* Manifests.

\* A repository on GitHub whose name is not the package's.
OtherRepository(f) == "other-repository" \in f.code /\ "no-repository" \notin f.code
InspectPackageJson(f) ==
    IF "unparsable" \in f.code THEN {Flag("package-metadata", "medium")}
    ELSE When("install-hook" \in f.code, Flag("install-hook", "medium"))
         \cup When("publishing-hook" \in f.code, Keep("registry-self-publish", "high"))
         \cup When("install-hook" \in f.code /\ OtherRepository(f), Flag("metadata-mimicry", "info"))
         \cup When("no-repository" \in f.code, Flag("supply-chain-signal", "info"))
         \cup When(MatchInjection(f.code) # "none", Noted("injection-attempt", MatchInjection(f.code), "metadata"))

InspectSetupPy(f) ==
    FirstOf(<< <<"decoded-exec" \in f.code, Flag("code-execution", "high")>>,
               <<{"setup-exec", "dynamic-exec", "cmdclass"} \cap f.code # {}, Flag("install-hook", "medium")>> >>)

InspectPyprojectBuild(f) == When("backend-path" \in Raw(f), Flag("install-hook", "medium"))
=============================================================================
