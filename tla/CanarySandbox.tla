----------------------------- MODULE CanarySandbox -----------------------------
(***************************************************************************)
(* The canary sandbox of src/sandbox.js: a package's install scripts and   *)
(* its import are run one after the other among decoy credentials, behind  *)
(* a proxy that records what they send and forwards nothing; what it       *)
(* recorded, the decoys' access times and the import probe's report make   *)
(* the verdict.                                                            *)
(*                                                                         *)
(* The payload is whatever its processes do: they read decoys, fork, leave *)
(* their group, send, and exit or not.  A process is [id, phase, held,     *)
(* left]: held says it keeps its phase's output open, left that it left    *)
(* its group.                                                              *)
(***************************************************************************)
EXTENDS Naturals, Sequences, FiniteSets

CONSTANTS Hosts,       \* [platform, wrapper, ip, isolates]: the machine
          Options,     \* [confirmed, require, netns, mitm, keep]
          Payloads,    \* the phases a package has, in order: "install" scripts, "import"
          MaxForks, MaxSends

ASSUME CanaryAssumption ==
    /\ MaxForks \in Nat /\ MaxSends \in Nat
    /\ \A m \in Hosts : m.isolates \in BOOLEAN
    /\ \A o \in Options : o.mitm \in BOOLEAN

VARIABLES
    machine, options, package,
    canaryAt,    \* how far runCanarySandbox is
    level,       \* wrapperInfo.level
    phase,       \* index of the phase at work
    procs,       \* the payload's processes: 0 is the phase's own shell or probe
    alarm,       \* the timer of the phase is armed
    forks, sends,
    inFlight,    \* plain requests to the proxy that have not ended: [id, to, where]
    hits,        \* what the proxy recorded: [id, to, token, open, carries]
    decoysRead, hooked, report, runtimeHooks,
    rootThere,   \* the temporary directory exists
    verdict,
    sent,        \* history: what reached the proxy: [to, where]
    escaped      \* history: a direct connection left the machine

canaryVars == <<machine, options, package, canaryAt, level, phase, procs, alarm, forks, sends, inFlight, hits,
                decoysRead, hooked, report, runtimeHooks, rootThere, verdict, sent, escaped>>
facts == <<machine, options, package, level>>

CanaryInit ==
    /\ machine \in Hosts /\ options \in Options /\ package \in Payloads
    /\ canaryAt = "start" /\ level = "none" /\ phase = 0 /\ procs = {} /\ alarm = FALSE
    /\ forks = 0 /\ sends = 0 /\ inFlight = {} /\ hits = {}
    /\ decoysRead = FALSE /\ hooked = FALSE /\ report = "none" /\ runtimeHooks = FALSE
    /\ rootThere = FALSE /\ verdict = "none" /\ sent = {} /\ escaped = FALSE

----------------------------------------------------------------------------
\* Isolation.

\* selfTestNetnsConfinement: the token posted through the proxy was captured, and a direct dial
\* was refused for want of a route.
SelfTest(answer) == machine.ip /\ answer = "unreachable"
\* How a direct dial ends: unreachable only where the namespace isolates.
DialAnswers == IF machine.isolates THEN {"unreachable"} ELSE {"open", "timeout"}

DetectSandboxWrapper ==
    CASE machine.platform = "darwin" /\ machine.wrapper -> "sandbox-exec"
      [] machine.platform = "linux" /\ machine.wrapper -> "bwrap"
      [] OTHER -> "env-only"

\* runCanarySandbox until the decoys are there.  Without a sandbox that is required, what was
\* made is removed; a failure to seed leaves it.
Prepare(answer, seeded) ==
    LET found == DetectSandboxWrapper
        best == IF found = "bwrap" /\ options.netns /\ SelfTest(answer) THEN "bwrap+netns" ELSE found
    IN  /\ canaryAt = "start" /\ answer \in DialAnswers
        /\ \/ /\ ~options.confirmed
              /\ canaryAt' = "refused" /\ UNCHANGED <<level, rootThere>>
           \/ /\ options.confirmed /\ options.require /\ best = "env-only"
              /\ canaryAt' = "refused" /\ level' = best /\ rootThere' = FALSE
           \/ /\ options.confirmed /\ ~(options.require /\ best = "env-only")
              /\ level' = best /\ rootThere' = TRUE
              /\ canaryAt' = IF seeded THEN "running" ELSE "failed"
        /\ UNCHANGED <<machine, options, package, phase, procs, alarm, forks, sends, inFlight, hits, decoysRead,
                       hooked, report, runtimeHooks, verdict, sent, escaped>>

----------------------------------------------------------------------------
\* The phases.

\* execWithTimeout: the command leads a group of its own, and its timer is set.
Spawned(n) == {[id |-> 0, phase |-> n, held |-> TRUE, left |-> FALSE]}

PhaseStarts ==
    /\ canaryAt = "running" /\ phase = 0
    /\ phase' = 1 /\ procs' = Spawned(1) /\ alarm' = TRUE
    /\ UNCHANGED <<facts, canaryAt, forks, sends, inFlight, hits, decoysRead, hooked, report, runtimeHooks,
                   rootThere, verdict, sent, escaped>>

OfPhase == {p \in procs : p.phase = phase}
Namespaced == level \in {"bwrap", "bwrap+netns"}

\* Mutant: the signal reaches the shell alone.
SignalledShell == {p \in OfPhase : p.id = 0}
\* killProcessGroup; who left the group dies only with a namespace.
Signalled == {p \in OfPhase : ~p.left \/ Namespaced}

TimesOut ==
    /\ canaryAt = "running" /\ alarm
    /\ alarm' = FALSE
    /\ procs' = procs \ Signalled
    /\ UNCHANGED <<facts, canaryAt, phase, forks, sends, inFlight, hits, decoysRead, hooked, report, runtimeHooks,
                   rootThere, verdict, sent, escaped>>

\* 'close': the shell is gone and nobody holds its output.  An import's report counts if it bears
\* the nonce.
PhaseCloses ==
    /\ canaryAt = "running" /\ phase > 0
    /\ \A p \in OfPhase : p.id # 0 /\ ~p.held
    /\ runtimeHooks' = (runtimeHooks \/ (package[phase] = "import" /\ report = "hooked"))
    /\ \/ /\ phase < Len(package)
          /\ phase' = phase + 1 /\ procs' = procs \cup Spawned(phase + 1) /\ alarm' = TRUE
          /\ UNCHANGED canaryAt
       \/ /\ phase = Len(package)
          /\ canaryAt' = "grace" /\ alarm' = FALSE
          /\ UNCHANGED <<phase, procs>>
    /\ UNCHANGED <<facts, forks, sends, inFlight, hits, decoysRead, hooked, report, rootThere, verdict, sent, escaped>>

----------------------------------------------------------------------------
\* What a payload does.

Alive(p) == p \in procs

Forks(p, held, left) ==
    /\ Alive(p) /\ forks < MaxForks
    /\ held => p.held
    /\ p.left => left
    /\ forks' = forks + 1
    /\ procs' = procs \cup {[id |-> forks + 1, phase |-> p.phase, held |-> held, left |-> left]}
    /\ UNCHANGED <<facts, canaryAt, phase, alarm, sends, inFlight, hits, decoysRead, hooked, report, runtimeHooks,
                   rootThere, verdict, sent, escaped>>

\* With the shell ends the namespace it was the first process of; the import probe reports first.
ProcessEnds(p) ==
    /\ Alive(p)
    /\ procs' = procs \ (IF p.id = 0 /\ Namespaced THEN {q \in procs : q.phase = p.phase} ELSE {p})
    /\ report' = IF p.id = 0 /\ package[p.phase] = "import" THEN IF hooked THEN "hooked" ELSE "clean"
                 ELSE report
    /\ UNCHANGED <<facts, canaryAt, phase, alarm, forks, sends, inFlight, hits, decoysRead, hooked, runtimeHooks,
                   rootThere, verdict, sent, escaped>>

ReadsDecoy(p) ==
    /\ Alive(p) /\ rootThere
    /\ decoysRead' = TRUE
    /\ UNCHANGED <<facts, canaryAt, phase, procs, alarm, forks, sends, inFlight, hits, hooked, report, runtimeHooks,
                   rootThere, verdict, sent, escaped>>

\* In the import's own process: fetch is replaced.  In any: a report without the nonce is written.
Tampers(p) ==
    /\ Alive(p) /\ package[p.phase] = "import"
    /\ \/ p.id = 0 /\ hooked' = TRUE /\ UNCHANGED report
       \/ report' = "forged" /\ UNCHANGED hooked
    /\ UNCHANGED <<facts, canaryAt, phase, procs, alarm, forks, sends, inFlight, hits, decoysRead, runtimeHooks,
                   rootThere, verdict, sent, escaped>>

\* Where a message has a decoy's token, in one of the encodings the proxy looks for: "head" is the
\* URL, the headers or a tunnel's destination, "body" the first 64 KiB of what follows, "deep" beyond.
Places == {"none", "head", "body", "deep"}
Scanned == {"head", "body"}

\* What arrives while the proxy closes may be refused; what was accepted before it may still end.
ProxyIsUp == canaryAt \in {"running", "grace"}
Listens == ProxyIsUp \/ canaryAt = "closing"

MaySend(p, where) == Alive(p) /\ sends < MaxSends /\ (where # "none" => decoysRead)

\* createCaptureServer: of a tunnel the destination is recorded at once.  It is refused, or with TLS
\* interception kept open.
Recorded(to, token) ==
    [id |-> sends + 1, to |-> to, token |-> token, open |-> options.mitm, carries |-> FALSE]
Connects(p, to, where) ==
    /\ MaySend(p, where) /\ where \in {"none", "head"}
    /\ sends' = sends + 1
    /\ \/ /\ Listens
          /\ hits' = hits \cup {Recorded(to, where = "head")}
          /\ sent' = sent \cup {[to |-> to, where |-> where]}
       \/ ~ProxyIsUp /\ UNCHANGED <<hits, sent>>
    /\ UNCHANGED <<facts, canaryAt, phase, procs, alarm, forks, inFlight, decoysRead, hooked, report,
                   runtimeHooks, rootThere, verdict, escaped>>

\* A token arrives in an intercepted tunnel; beyond the first 64 KiB it is dropped.
TunnelCarries(h) ==
    /\ Listens /\ procs # {} /\ decoysRead
    /\ h \in hits /\ h.open /\ ~h.carries
    /\ hits' = (hits \ {h}) \cup {[h EXCEPT !.carries = TRUE]}
    /\ sent' = sent \cup {[to |-> h.to, where |-> "body"]}
    /\ UNCHANGED <<facts, canaryAt, phase, procs, alarm, forks, sends, inFlight, decoysRead, hooked,
                   report, runtimeHooks, rootThere, verdict, escaped>>

\* A plain request is scanned and recorded when it ends.
SendsRequest(p, to, where) ==
    /\ MaySend(p, where)
    /\ sends' = sends + 1
    /\ \/ Listens /\ inFlight' = inFlight \cup {[id |-> sends + 1, to |-> to, where |-> where]}
       \/ ~ProxyIsUp /\ UNCHANGED inFlight
    /\ UNCHANGED <<facts, canaryAt, phase, procs, alarm, forks, hits, decoysRead, hooked, report,
                   runtimeHooks, rootThere, verdict, sent, escaped>>

RequestIsRead(m) ==
    /\ Listens /\ m \in inFlight
    /\ inFlight' = inFlight \ {m}
    /\ hits' = hits \cup {[id |-> m.id, to |-> m.to, token |-> m.where \in Scanned,
                           open |-> FALSE, carries |-> FALSE]}
    /\ sent' = sent \cup {[to |-> m.to, where |-> m.where]}
    /\ UNCHANGED <<facts, canaryAt, phase, procs, alarm, forks, sends, decoysRead, hooked, report,
                   runtimeHooks, rootThere, verdict, escaped>>

\* The sender gives up, or the proxy destroys what is still open when it closes: no record is made.
RequestIsCut(m) ==
    /\ Listens /\ m \in inFlight
    /\ inFlight' = inFlight \ {m}
    /\ UNCHANGED <<facts, canaryAt, phase, procs, alarm, forks, sends, hits, decoysRead, hooked, report,
                   runtimeHooks, rootThere, verdict, sent, escaped>>

Dials(p) ==
    /\ Alive(p)
    /\ escaped' = (escaped \/ ~(level = "sandbox-exec" \/ (level = "bwrap+netns" /\ machine.isolates)))
    /\ UNCHANGED <<facts, canaryAt, phase, procs, alarm, forks, sends, inFlight, hits, decoysRead, hooked, report,
                   runtimeHooks, rootThere, verdict, sent>>

----------------------------------------------------------------------------
\* The end.

Folded(h) == [h EXCEPT !.open = FALSE, !.token = @ \/ (h.open /\ h.carries)]

\* Intercepted connections end by themselves, or are destroyed when the proxy closes; either way what
\* they carried is scanned.
ConnectionEnds(h) ==
    /\ Listens /\ h \in hits /\ h.open
    /\ hits' = (hits \ {h}) \cup {Folded(h)}
    /\ UNCHANGED <<facts, canaryAt, phase, procs, alarm, forks, sends, inFlight, decoysRead, hooked, report,
                   runtimeHooks, rootThere, verdict, sent, escaped>>

GraceEnds ==
    /\ canaryAt = "grace"
    /\ canaryAt' = "closing"
    /\ UNCHANGED <<facts, phase, procs, alarm, forks, sends, inFlight, hits, decoysRead, hooked, report,
                   runtimeHooks, rootThere, verdict, sent, escaped>>

\* Mutant: the findings are made before the connections have ended.
EvaluateOpen(access) ==
    /\ canaryAt = "closing" /\ (access => decoysRead)
    /\ verdict' = IF runtimeHooks \/ \E h \in hits : h.token \/ h.to = "callback" THEN "block"
                  ELSE IF hits # {} \/ access THEN "review" ELSE "not-observed"
    /\ rootThere' = options.keep
    /\ canaryAt' = "done"
    /\ UNCHANGED <<facts, phase, procs, alarm, forks, sends, inFlight, hits, decoysRead, hooked, report,
                   runtimeHooks, sent, escaped>>
\* The proxy has closed: evaluateTripwires, the removal of the root, and the verdict.  A decoy's
\* access time may or may not show that it was read.
Evaluate(access) ==
    /\ canaryAt = "closing" /\ (access => decoysRead)
    /\ inFlight = {} /\ \A h \in hits : ~h.open
    /\ verdict' = IF runtimeHooks \/ \E h \in hits : h.token \/ h.to = "callback" THEN "block"
                  ELSE IF hits # {} \/ access THEN "review" ELSE "not-observed"
    /\ rootThere' = options.keep
    /\ canaryAt' = "done"
    /\ UNCHANGED <<facts, phase, procs, alarm, forks, sends, inFlight, hits, decoysRead, hooked, report,
                   runtimeHooks, sent, escaped>>

Destinations == {"callback", "ordinary"}

CanaryNext ==
    \/ \E answer \in {"unreachable", "open", "timeout"}, seeded \in BOOLEAN : Prepare(answer, seeded)
    \/ PhaseStarts \/ TimesOut \/ PhaseCloses
    \/ \E p \in procs :
         \/ \E held, left \in BOOLEAN : Forks(p, held, left)
         \/ ProcessEnds(p) \/ ReadsDecoy(p) \/ Tampers(p) \/ Dials(p)
         \/ \E to \in Destinations, where \in Places : Connects(p, to, where) \/ SendsRequest(p, to, where)
    \/ \E h \in hits : TunnelCarries(h) \/ ConnectionEnds(h)
    \/ \E m \in inFlight : RequestIsRead(m) \/ RequestIsCut(m)
    \/ GraceEnds
    \/ \E access \in BOOLEAN : Evaluate(access)

CanarySpec == CanaryInit /\ [][CanaryNext]_canaryVars

\* Timers fire, and what is closed or destroyed says so.  Payloads owe nothing.
CanaryFair ==
    /\ WF_canaryVars(PhaseStarts) /\ WF_canaryVars(TimesOut) /\ WF_canaryVars(PhaseCloses)
    /\ WF_canaryVars(canaryAt = "closing" /\ \E h \in hits : ConnectionEnds(h))
    /\ WF_canaryVars(canaryAt = "closing" /\ \E m \in inFlight : RequestIsCut(m))
    /\ WF_canaryVars(GraceEnds) /\ WF_canaryVars(Evaluate(FALSE))
----------------------------------------------------------------------------
\* What reached the proxy is in the verdict: every tunnel, and every plain request that ended, calls
\* for a review, and a known callback host or a decoy's token blocks, the token where the proxy looks
\* for it.  No interleaving of phases, background processes, open connections and the proxy's end
\* loses it, and nothing that arrives before the grace period is over is refused.  Two exceptions:
\* a token beyond the first 64 KiB is not seen, and of a plain request that was still open when the
\* proxy destroyed it nothing is recorded.
TransmissionsAreReported ==
    canaryAt = "done" =>
        \A m \in sent :
            /\ verdict # "not-observed"
            /\ m.to = "callback" \/ m.where \in Scanned => verdict = "block"

\* What is reported as confined let no direct connection out.
ConfinementIsReal == level \in {"sandbox-exec", "bwrap+netns"} => ~escaped

\* The report of a run can be relied on: what was sent is in it, and so is how far it was confined.
ReportsAreHonest == TransmissionsAreReported /\ ConfinementIsReal

\* Every run ends, whatever the payload's processes do, those included that stay in the background
\* and keep the output open; but not those that also leave their group where no namespace holds them.
CanaryRunsEnd ==
    canaryAt = "running" ~> \/ canaryAt = "done"
                            \/ ~Namespaced /\ \E p \in procs : p.left /\ p.held
================================================================================
