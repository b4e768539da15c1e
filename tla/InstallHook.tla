----------------------------- MODULE InstallHook -----------------------------
(***************************************************************************)
(* The guard hook of examples/hookshot.  A shell command is parsed for the *)
(* packages it fetches, each is checked by the guard through the session's *)
(* memo, a few at a time, and the results are folded to allow, ask or      *)
(* deny; a cleared `mcp add' is denied once more with the launcher wrapped *)
(* in the MCP proxy.  An edit of an MCP configuration is gated the same    *)
(* way, and its cleared servers are wrapped in the file, which others may  *)
(* be writing; an edit of a manifest checks what it adds.                  *)
(*                                                                         *)
(* A command is a sequence of lines [body, toks]; a token is a string, and *)
(* "redirect" stands for any redirection operator.                         *)
(***************************************************************************)
EXTENDS Naturals, Sequences, FiniteSets, SequencesExt

CONSTANTS
    Local, Vcs, Url,    \* tokens that are local paths, git or tarball URLs, http(s) URLs
    Plain,              \* qualified tokens ("npm:pkg") to plain ones
    Flags,              \* tokens that start with "-"
    ValueFlags,         \* those of the package managers that take the next token,
    AddFlags,           \* of `mcp add',
    ProxyFlags,         \* and of `pkgxray mcp-proxy'
    Inline,             \* --package=<package> to the package
    Exact,              \* version specs that name one version
    Json,               \* JSON tokens to the server they define, or Unreadable
    Unreadable,
    Events,             \* what happens: [kind, command | file, old, new]
    HookPolicies,       \* the policies a session may be configured with
    Wrap, Probe, AuditManifests, Workers,
    MaxEvents

VARIABLES
    hookPolicy,      \* the session's policy
    event, hookAt,   \* the event at hand, and how far it is
    specs, results,  \* its packages, and the result of each check
    checking,        \* the checks under way
    memo,            \* MemoGuard.cache: reference to result
    file,            \* the MCP configuration: server name to entry
    copy,            \* what WrapMcpConfigFile read and rewrote
    outcome,         \* the hook's last answer
    happened,        \* number of events
    wrote            \* history: the entries the hook wrapped in a file

hookVars == <<hookPolicy, event, hookAt, specs, results, checking, memo, file, copy, outcome, happened, wrote>>

----------------------------------------------------------------------------
\* Parsing.

StripHeredocs(command) == SelectSeq(command, LAMBDA l : ~l.body)

Words == Seq(STRING)
From(toks, i) == SubSeq(toks, i, Len(toks))

StripRedirections[toks \in Words] ==
    IF toks = << >> THEN << >>
    ELSE IF Head(toks) = "redirect" THEN StripRedirections[From(toks, 3)]
         ELSE <<Head(toks)>> \o StripRedirections[Tail(toks)]

\* What is left when flags, and the values of valued flags, are skipped.
Operands(toks, valued) ==
    LET rest[left \in Words] ==
            IF left = << >> THEN << >>
            ELSE IF Head(left) \in valued THEN rest[From(left, 3)]
            ELSE IF Head(left) \in Flags THEN rest[Tail(left)]
                 ELSE <<Head(left)>> \o rest[Tail(left)]
    IN  rest[toks]

ClassifySpec(tok) ==
    IF tok \in Local THEN "none" ELSE IF tok \in Vcs \cup Url THEN "vcs" ELSE "registry"
ToRef(tok) == IF tok \in DOMAIN Plain THEN Plain[tok] ELSE tok
SpecOf(tok, immediate) ==
    IF ClassifySpec(tok) = "none" THEN << >>
    ELSE <<[ref |-> ToRef(tok), kind |-> ClassifySpec(tok), immediate |-> immediate]>>

Verbs == {"install", "i", "add", "in"}
ParseInstaller(args) ==
    LET rest == IF args # << >> /\ args[1] = "global" THEN Tail(args) ELSE args
        named == IF rest = << >> THEN << >> ELSE Operands(Tail(rest), ValueFlags)
    IN  IF rest = << >> \/ rest[1] \notin Verbs THEN << >>
        ELSE FlattenSeq([i \in DOMAIN named |-> SpecOf(named[i], FALSE)])

\* The first operand is what a runner fetches and runs; -p and --package only name it.
ParseRunner(args) ==
    LET plain == [i \in DOMAIN args |-> IF args[i] \in DOMAIN Inline THEN Inline[args[i]] ELSE args[i]]
        named == Operands(IF plain # << >> /\ plain[1] = "dlx" THEN Tail(plain) ELSE plain, ValueFlags)
    IN  IF named = << >> THEN << >> ELSE SpecOf(named[1], TRUE)

IsProxyWrapped(target) == Len(target) >= 2 /\ target[1] = "pkgxray" /\ target[2] = "mcp-proxy"

UnwrapProxyTarget(target) ==
    LET rest == From(target, 3)
        bar  == {i \in DOMAIN rest : rest[i] = "--"}
    IN  IF bar # {} THEN From(rest, (CHOOSE i \in bar : \A j \in bar : i <= j) + 1)
        ELSE Operands(rest, ProxyFlags)

McpSpec(url, sse) == <<[ref |-> url, kind |-> IF sse THEN "mcp-sse" ELSE "mcp-http", immediate |-> FALSE]>>
Sentinel == <<[ref |-> "mcp-config", kind |-> "mcp-sse", immediate |-> FALSE]>>

FirstBar(toks) ==
    LET bar == {i \in DOMAIN toks : toks[i] = "--"}
    IN  IF bar = {} THEN Len(toks) + 1 ELSE CHOOSE i \in bar : \A j \in bar : i <= j

\* The target within any number of proxies, and what parsing it gives: a command line is
\* parsed like any other (parse).
Unwrapped[target \in Words] ==
    IF IsProxyWrapped(target) /\ UnwrapProxyTarget(target) # << >>
    THEN Unwrapped[UnwrapProxyTarget(target)] ELSE target
McpTargetSpecs(target, sse, parse) ==
    LET own == Unwrapped[target]
    IN  IF own[1] \in Url THEN McpSpec(own[1], sse) ELSE parse[own]

\* A server of a configuration: a URL, or a command line.
ServerSpecs(s, parse) ==
    IF s.url # "" THEN McpTargetSpecs(<<s.url>>, s.sse, parse) ELSE parse[s.launch]

\* The arguments of `mcp add': a name, then the target; after "--" everything belongs to it.
AddPositionals(args) ==
    Operands(SubSeq(args, 1, FirstBar(args) - 1), AddFlags) \o From(args, FirstBar(args) + 1)
IsSse(args) == \E i \in 1 .. Len(args) - 1 : args[i] = "--transport" /\ args[i + 1] = "sse"
ParseMcpAdd(toks, parse) ==
    LET args == From(toks, 4)
        given == Operands(args, {})
    IN  CASE Len(toks) < 3 \/ toks[2] # "mcp" -> << >>
          [] Len(toks) >= 3 /\ toks[2] = "mcp" /\ toks[3] = "add" ->
               IF Len(AddPositionals(args)) < 2 THEN << >>
               ELSE McpTargetSpecs(Tail(AddPositionals(args)), IsSse(args), parse)
          [] Len(toks) >= 3 /\ toks[2] = "mcp" /\ toks[3] = "add-json" ->
               IF Len(given) < 2 THEN << >>
               ELSE IF Json[given[2]] = Unreadable THEN Sentinel ELSE ServerSpecs(Json[given[2]], parse)
          [] OTHER -> << >>

Installers == {"npm", "pnpm", "yarn", "bun"}
Runners == {"npx", "bunx", "pnpx"}
ParseSegment[line \in Words] ==
    LET toks  == StripRedirections[line]
        inner == From(toks, FirstBar(toks) + 1)
        added == ParseMcpAdd(toks, ParseSegment)
    IN  IF added # << >> THEN added
        ELSE IF inner # << >> /\ ParseSegment[inner] # << >> THEN ParseSegment[inner]
        ELSE IF toks = << >> THEN << >>
        ELSE IF toks[1] \in Installers
             THEN IF Len(toks) > 1 /\ (toks[2] = "dlx" \/ (toks[1] = "bun" /\ toks[2] = "x"))
                  THEN ParseRunner(From(toks, 3)) ELSE ParseInstaller(Tail(toks))
        ELSE IF toks[1] \in Runners THEN ParseRunner(Tail(toks)) ELSE << >>

\* The first spec of each reference stands for all of them.
Dedupe(all) ==
    LET first(i) == \A j \in 1 .. i - 1 : all[j].ref # all[i].ref
        kept == SetToSortSeq({i \in DOMAIN all : first(i)}, <)
    IN  [n \in DOMAIN kept |-> all[kept[n]]]
ParseInstalls(command) ==
    LET lines == StripHeredocs(command)
    IN  Dedupe(FlattenSeq([i \in DOMAIN lines |-> ParseSegment[lines[i].toks]]))

----------------------------------------------------------------------------
\* Wrapping.

ProxyOf(target) == <<"pkgxray", "mcp-proxy", "--policy", hookPolicy, "--">> \o target

\* Where the target of `mcp add' starts: after the first "--", or at the second operand.
TargetStart(toks) ==
    LET starts == {i \in 4 .. FirstBar(toks) - 1 :
                      /\ toks[i] \notin Flags
                      /\ Len(Operands(SubSeq(toks, 4, i), AddFlags)) = 2
                      /\ Len(Operands(SubSeq(toks, 4, i - 1), AddFlags)) = 1}
    IN  IF starts # {} THEN CHOOSE i \in starts : TRUE ELSE FirstBar(toks) + 1
WrapMcpAdd(command) ==
    LET toks   == command[1].toks
        start  == TargetStart(toks)
        target == From(toks, start)
        bar    == IF toks[start - 1] = "--" THEN << >> ELSE <<"--">>
    IN  IF Len(command) # 1 \/ Len(toks) < 5 THEN << >>
        ELSE IF toks[2] # "mcp" \/ toks[3] # "add" \/ start > Len(toks) THEN << >>
        ELSE IF target[1] \in Url \/ IsProxyWrapped(target) THEN << >>
        ELSE <<[body |-> FALSE, toks |-> SubSeq(toks, 1, start - 1) \o bar \o ProxyOf(target)]>>

NoServer == [url |-> "", sse |-> FALSE, launch |-> << >>]
Wrappable(s) == s.launch # << >> /\ s.url = "" /\ ~IsProxyWrapped(s.launch)
Servers(f) == {f[n] : n \in DOMAIN f} \ {NoServer}

\* What an edit of the configuration adds or changes.  An unreadable one shows nothing.
Added(e) == IF e.new = Unreadable THEN {}
            ELSE Servers(e.new) \ (IF e.old = Unreadable THEN {} ELSE Servers(e.old))
McpConfigAddedSpecs(e) ==
    IF e.new = Unreadable THEN Sentinel
    ELSE Dedupe(FlattenSeq(SetToSeq({ServerSpecs(s, ParseSegment) : s \in Added(e)})))
WrapConfigTargets(e) == {s \in Added(e) : Wrappable(s)}
WrapServersInDoc(f, targets) ==
    [n \in DOMAIN f |-> IF f[n] \in targets /\ Wrappable(f[n])
                        THEN [f[n] EXCEPT !.launch = ProxyOf(@)] ELSE f[n]]

\* The dependencies an edit of package.json adds or changes: name to spec.
ManifestAddedSpecs(e) ==
    LET fresh == {d \in DOMAIN e.new : d \notin DOMAIN e.old \/ e.old[d] # e.new[d]}
        spec(d) == IF ClassifySpec(e.new[d]) = "registry"
                   THEN <<[ref |-> IF e.new[d] \in Exact THEN d \o "@" \o e.new[d] ELSE d,
                           kind |-> "registry", immediate |-> FALSE]>>
                   ELSE SpecOf(e.new[d], FALSE)
    IN  Dedupe(FlattenSeq(SetToSeq({spec(d) : d \in fresh})))

----------------------------------------------------------------------------
\* Verdicts.

Decide(v) ==
    CASE v = "block" -> "deny"
      [] v = "review" -> (CASE hookPolicy = "strict" -> "deny" [] hookPolicy = "permissive" -> "allow"
                            [] OTHER -> "ask")
      [] v = "unknown" -> (IF hookPolicy = "permissive" THEN "allow" ELSE "deny")
      [] OTHER -> "allow"
DecideResult(r) ==
    IF r.spec.immediate /\ Decide(r.verdict) = "allow" /\ r.verdict \in {"unknown", "review"}
    THEN "ask" ELSE Decide(r.verdict)
DecideAll(rs) ==
    LET actions == {DecideResult(r) : r \in rs}
    IN  IF "deny" \in actions THEN "deny" ELSE IF "ask" \in actions THEN "ask" ELSE "allow"

\* What a run of the guard leaves: whether it ran to an exit, the decision in its report, its code.
Processes == [ran : BOOLEAN, decision : {"block", "review", "allow", "none"}, code : {0, 1, 2, 3}]

VerdictFromDecision(d) == IF d = "allow" THEN "safe" ELSE IF d = "none" THEN "unknown" ELSE d
VerdictFromExit(code) == CASE code = 0 -> "safe" [] code = 2 -> "block" [] code = 3 -> "review" [] OTHER -> "unknown"

\* Guard.Check: what no guard can look at is a review without a process.
Check(spec, p) ==
    IF spec.kind \in {"vcs", "mcp-sse"} \/ (spec.kind = "mcp-http" /\ ~Probe) THEN "review"
    ELSE IF ~p.ran THEN "unknown"
    ELSE IF VerdictFromDecision(p.decision) # "unknown" THEN VerdictFromDecision(p.decision)
    ELSE VerdictFromExit(p.code)

\* Rechecker: regressed holds the verdicts of the dependencies that got worse.
RecheckResults(p, regressed) ==
    LET result(v) == [verdict |-> v, spec |-> [ref |-> "", kind |-> "registry", immediate |-> FALSE]]
    IN  IF ~p.ran \/ p.decision = "none" THEN {result("unknown")}
        ELSE {result(VerdictFromDecision(d)) : d \in regressed}

----------------------------------------------------------------------------
NoEvent == [kind |-> "none"]
NoResult == [verdict |-> "none"]

HookInit ==
    /\ hookPolicy \in HookPolicies
    /\ event = NoEvent /\ hookAt = "idle" /\ specs = << >> /\ results = << >> /\ checking = {}
    /\ memo = << >> /\ file = << >> /\ copy = << >>
    /\ outcome = "none" /\ happened = 0 /\ wrote = {}

SpecsOf(e) ==
    CASE e.kind = "command" -> ParseInstalls(e.command)
      [] e.kind = "config" -> McpConfigAddedSpecs(e)
      [] e.kind = "manifest" -> ManifestAddedSpecs(e)
      [] OTHER -> << >>

\* The event's file is already written.  A manifest nobody asked to audit is let through.
Happens(e) ==
    /\ hookAt = "idle" /\ happened < MaxEvents
    /\ happened' = happened + 1
    /\ event' = e
    /\ file' = IF e.kind = "config" THEN e.new ELSE file
    /\ specs' = SpecsOf(e)
    /\ results' = [i \in DOMAIN SpecsOf(e) |-> NoResult]
    /\ hookAt' = IF e.kind = "manifest" /\ ~AuditManifests THEN "idle"
                 ELSE IF SpecsOf(e) = << >> /\ e.kind = "manifest" THEN "auditing" ELSE "checking"
    /\ outcome' = IF e.kind = "manifest" /\ ~AuditManifests THEN "allow" ELSE "none"
    /\ UNCHANGED <<checking, memo, copy, wrote>>

\* The next spec in order, when a worker is free: the memo may have it.
StartCheck(i) ==
    /\ hookAt = "checking" /\ i \in DOMAIN specs \ checking
    /\ results[i] = NoResult /\ Cardinality(checking) < Workers
    /\ \A j \in 1 .. i - 1 : j \in checking \/ results[j] # NoResult
    /\ \/ /\ specs[i].ref \in DOMAIN memo
          /\ results' = [results EXCEPT ![i] = memo[specs[i].ref]] /\ UNCHANGED checking
       \/ /\ specs[i].ref \notin DOMAIN memo
          /\ checking' = checking \cup {i} /\ UNCHANGED results
    /\ UNCHANGED <<event, hookAt, specs, memo, file, copy, outcome, happened, wrote>>

\* MemoGuard.Check keeps a verdict, the last one to come in, and no failure.
EndCheck(i, p) ==
    LET v == Check(specs[i], p)
    IN  /\ i \in checking
        /\ checking' = checking \ {i}
        /\ results' = [results EXCEPT ![i] = [verdict |-> v, spec |-> specs[i]]]
        /\ memo' = IF v = "unknown" THEN memo
                   ELSE [ref \in DOMAIN memo \cup {specs[i].ref} |->
                            IF ref = specs[i].ref THEN [verdict |-> v, spec |-> specs[i]] ELSE memo[ref]]
        /\ UNCHANGED <<event, hookAt, specs, file, copy, outcome, happened, wrote>>

AllIn == \A i \in DOMAIN results : results[i] # NoResult
Answer(a) == outcome' = a /\ hookAt' = "idle"

\* Mutant: the fold does not wait for the checks under way.
CheckedEarly ==
    /\ hookAt = "checking" /\ \E i \in DOMAIN results : results[i] # NoResult
    /\ Answer(DecideAll({results[i] : i \in {j \in DOMAIN results : results[j] # NoResult}}))
    /\ UNCHANGED <<event, specs, results, checking, memo, file, copy, happened, wrote>>
\* Every check is in: a command is answered, and a configuration may be wrapped.
Checked ==
    LET action  == DecideAll({results[i] : i \in DOMAIN results})
        wrapped == event.kind = "command" /\ Wrap /\ WrapMcpAdd(event.command) # << >>
    IN  /\ hookAt = "checking" /\ AllIn
        /\ \/ /\ event.kind = "command"
              /\ Answer(IF action = "allow" /\ wrapped THEN "deny" ELSE action)
           \/ event.kind = "manifest" /\ Answer(action)
           \/ /\ event.kind = "config"
              /\ \/ action = "deny" /\ Answer("deny")
                 \/ action # "deny" /\ (~Wrap \/ WrapConfigTargets(event) = {}) /\ Answer(action)
                 \/ action # "deny" /\ Wrap /\ WrapConfigTargets(event) # {}
                    /\ outcome' = action /\ hookAt' = "wrapping"
        /\ UNCHANGED <<event, specs, results, checking, memo, file, copy, happened, wrote>>

\* No added dependency was found: the whole file is audited, and only exit codes 2 and 3 count.
Audited(code) ==
    /\ hookAt = "auditing"
    /\ Answer(CASE code = 2 -> "deny" [] code = 3 -> "ask" [] OTHER -> "allow")
    /\ UNCHANGED <<event, specs, results, checking, memo, file, copy, happened, wrote>>

\* wrap-config and recheck, run by hand or by a schedule.
Retrofit ==
    /\ hookAt = "idle" /\ happened < MaxEvents
    /\ happened' = happened + 1
    /\ event' = [kind |-> "retrofit"] /\ specs' = << >> /\ results' = << >>
    /\ hookAt' = "wrapping" /\ outcome' = "none"
    /\ UNCHANGED <<checking, memo, file, copy, wrote>>

RecheckProject(p, regressed) ==
    /\ hookAt = "idle" /\ happened < MaxEvents
    /\ happened' = happened + 1
    /\ event' = [kind |-> "recheck"] /\ specs' = << >> /\ results' = << >>
    /\ outcome' = DecideAll(RecheckResults(p, regressed))
    /\ UNCHANGED <<hookAt, checking, memo, file, copy, wrote>>

\* WrapMcpConfigFile: reading and rewriting, then writing the whole file; the entries to wrap
\* are those of the edit, or every one.
Targets == IF event.kind = "config" THEN WrapConfigTargets(event) ELSE {s \in Servers(file) : Wrappable(s)}
ReadConfig ==
    /\ hookAt = "wrapping"
    /\ \/ file = Unreadable /\ hookAt' = "idle" /\ UNCHANGED copy
       \/ /\ file # Unreadable
          /\ copy' = WrapServersInDoc(file, Targets)
          /\ hookAt' = IF copy' = file THEN "idle" ELSE "writing"
    /\ UNCHANGED <<event, specs, results, checking, memo, file, outcome, happened, wrote>>
WriteConfig ==
    /\ hookAt = "writing"
    /\ file' = copy
    /\ wrote' = wrote \cup (Servers(copy) \ (IF file = Unreadable THEN {} ELSE Servers(file)))
    /\ hookAt' = "idle"
    /\ UNCHANGED <<event, specs, results, checking, memo, copy, outcome, happened>>

\* Another editor writes the configuration while the hook is at work.
OthersEdit(f) ==
    /\ hookAt \in {"checking", "wrapping", "writing"} /\ event.kind \in {"config", "retrofit"}
    /\ f # file /\ file' = f
    /\ UNCHANGED <<event, hookAt, specs, results, checking, memo, copy, outcome, happened, wrote>>

HookNext ==
    /\ \/ \E e \in Events : Happens(e)
       \/ \E i \in DOMAIN specs : StartCheck(i) \/ \E p \in Processes : EndCheck(i, p)
       \/ Checked \/ \E code \in {0, 1, 2, 3} : Audited(code)
       \/ Retrofit \/ ReadConfig \/ WriteConfig
       \/ \E p \in Processes, regressed \in SUBSET {"review", "block"} : RecheckProject(p, regressed)
       \/ \E e \in Events : e.kind = "config" /\ OthersEdit(e.new)
    /\ UNCHANGED hookPolicy
HookSpec == HookInit /\ [][HookNext]_hookVars
----------------------------------------------------------------------------
Refs(command) == {ParseInstalls(command)[i].ref : i \in DOMAIN ParseInstalls(command)}

\* A command is allowed without a question only when every package it fetches, those included that
\* waited for a free worker, has a verdict of this session: "safe", unless the policy is permissive,
\* which only a block stops.  A check that failed never lets a command through otherwise.
LetThrough == IF hookPolicy = "permissive" THEN {"safe", "review", "unknown"} ELSE {"safe"}
AllowedMeansVetted ==
    event.kind = "command" /\ hookAt = "idle" /\ outcome = "allow" =>
        \A ref \in Refs(event.command) :
            \E i \in DOMAIN results : results[i] # NoResult /\ results[i].spec.ref = ref
                                      /\ results[i].verdict \in LetThrough

\* policy.go:52: what a runner executes at once is never silently allowed without a verdict.
ImmediateIsNeverSilent ==
    event.kind = "command" /\ hookAt = "idle" /\ outcome = "allow" =>
        LET lines == StripHeredocs(event.command)
            all == FlattenSeq([i \in DOMAIN lines |-> ParseSegment[lines[i].toks]])
        IN  \A i \in DOMAIN all, n \in DOMAIN results :
               all[i].immediate /\ results[n] # NoResult /\ results[n].spec.ref = all[i].ref =>
                   results[n].verdict = "safe"
==============================================================================
