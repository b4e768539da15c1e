------------------------------ MODULE PinStore ------------------------------
(***************************************************************************)
(* The store .pkgxray.lock and the four commands that load it, work on the *)
(* copy and save the copy: triage (src/triage.js), recheck (src/recheck.js)*)
(* and the pinning and rechecking of MCP manifests (src/mcp-pin.js).  Each *)
(* process runs one command.  A save writes a temporary file and renames   *)
(* it over the store, so only the rename is visible.  What a command found *)
(* is printed after its save, and an interruption may come between.        *)
(*                                                                         *)
(* The names are packages name@version and MCP servers; a manifest is a    *)
(* value compared by fingerprint.                                          *)
(***************************************************************************)
EXTENDS Integers, FiniteSets

CONSTANTS
    Deps, Servers,
    Triagers, Recheckers, Pinners, McpRecheckers,  \* the processes, by command
    Manifests, AuditVerdict,    \* what the audit says of a manifest
    NoManifest,
    InitialStores,              \* what an earlier version may have left
    Overlap,                    \* commands may run at the same time
    RequireBaseline,
    MaxChanges                  \* changes of the world outside

Names     == Deps \cup Servers
Processes == Triagers \cup Recheckers \cup Pinners \cup McpRecheckers
Verdicts  == {"safe", "review", "block"}
Rank(v)   == CASE v = "safe" -> 0 [] v = "review" -> 1 [] v = "block" -> 2 [] OTHER -> -1

Records ==
    [decision : {"allow", "block", "none"}, verdict : Verdicts \cup {"none"},
     checked : BOOLEAN, manifest : Manifests \cup {NoManifest}]
NoRecord == [decision |-> "none", verdict |-> "none", checked |-> FALSE, manifest |-> NoManifest]
Known(record) == record.decision # "none"

ASSUME StoreAssumption ==
    /\ AuditVerdict \in [Manifests -> Verdicts]
    /\ NoManifest \notin Manifests
    /\ Deps \cap Servers = {}    \* a server's record is named mcp:<server>
    /\ InitialStores \subseteq [Names -> Records]
    /\ {Overlap, RequireBaseline} \subseteq BOOLEAN
    /\ MaxChanges \in Nat

VARIABLES
    store,      \* the records on disk
    world,      \* the verdict a fresh look at each package gives
    served,     \* the manifest each server shows
    pc, mine,   \* each process's step and copy of the store
    fresh,      \* the verdicts it computed
    subject,    \* the server and manifest it enumerated
    handled,    \* packages it is done with
    decided,    \* names it decided on for somebody
    report,     \* what its exit code and output say of each name
    changes,
    made,       \* history: <<name, decision, manifest>> people decided
    computed,   \* history: <<name, verdict>> some process computed
    last,       \* history: the last decision saved for each name
    alarm       \* history: whether somebody has heard of a verdict that rose

local   == <<mine, fresh, subject, handled, decided, report>>
history == <<made, computed, last, alarm>>
vars    == <<store, world, served, pc, local, changes, history>>

Human(record) == <<record.decision, record.manifest>>
Nobody == [server |-> NoManifest, manifest |-> NoManifest]

Empty    == [n \in Names |-> NoRecord]
Unheard  == [d \in Deps |-> "none"]
Unsaid   == [n \in Names |-> "none"]

Init ==
    /\ store \in InitialStores
    /\ world \in [Deps -> Verdicts]
    /\ served \in [Servers -> Manifests]
    /\ pc = [p \in Processes |-> "idle"]
    /\ mine = [p \in Processes |-> Empty]
    /\ fresh = [p \in Processes |-> Unheard]
    /\ subject = [p \in Processes |-> Nobody]
    /\ handled = [p \in Processes |-> {}]
    /\ decided = [p \in Processes |-> {}]
    /\ report = [p \in Processes |-> Unsaid]
    /\ changes = 0
    /\ made = {<<n, Human(store[n])>> : n \in Names}
    /\ computed = {<<n, store[n].verdict>> : n \in Names}
    /\ last = [n \in Names |-> Human(store[n])]
    /\ alarm = [n \in Names |-> "heard"]

GoTo(p, from, to) == pc[p] = from /\ pc' = [pc EXCEPT ![p] = to]
Active(p) == pc[p] \notin {"idle", "done"}

----------------------------------------------------------------------------
(* Every command loads first; the MCP commands have enumerated by then.    *)

Load(p) ==
    /\ Overlap \/ \A q \in Processes \ {p} : ~Active(q)
    /\ GoTo(p, "idle", "loaded")
    /\ mine' = [mine EXCEPT ![p] = store]
    /\ \E s \in Servers :
          subject' = [subject EXCEPT ![p] =
              IF p \in Pinners \cup McpRecheckers
              THEN [server |-> s, manifest |-> served[s]] ELSE Nobody]
    /\ UNCHANGED <<store, world, served, fresh, handled, decided, report, changes, history>>

\* A process that ends takes its memory with it.
Exits(p) ==
    /\ pc' = [pc EXCEPT ![p] = "done"]
    /\ mine' = [mine EXCEPT ![p] = Empty]
    /\ fresh' = [fresh EXCEPT ![p] = Unheard]
    /\ subject' = [subject EXCEPT ![p] = Nobody]
    /\ handled' = [handled EXCEPT ![p] = {}]
    /\ decided' = [decided EXCEPT ![p] = {}]
    /\ report' = [report EXCEPT ![p] = Unsaid]

\* The verdict of a dated check gets worse.
Rises(old, new) == old.checked /\ old.verdict \in Verdicts /\ Rank(new.verdict) > Rank(old.verdict)

\* Interrupted or failed, before its save or between the save and the output
\* (recheck asks the registry for newer versions there): what it was about to
\* say is lost.
GivesUp(p) ==
    /\ Active(p)
    /\ Exits(p)
    /\ alarm' = [n \in Names |->
          IF pc[p] = "saved" /\ report[p][n] = "regressed" /\ alarm[n] = "due" THEN "lost" ELSE alarm[n]]
    /\ UNCHANGED <<store, world, served, changes, made, computed, last>>

\* The rename: the whole copy becomes the store.
Save(p) ==
    /\ pc[p] \in {"asking", "saving"}
    /\ pc' = [pc EXCEPT ![p] = "saved"]
    /\ store' = mine[p]
    /\ made' = made \cup {<<n, Human(mine[p][n])>> : n \in decided[p]}
    /\ last' = [n \in Names |-> IF n \in decided[p] THEN Human(mine[p][n]) ELSE last[n]]
    /\ alarm' = [n \in Names |->
          IF n \in decided[p] THEN "heard"
          ELSE IF Rises(store[n], mine[p][n]) THEN "due" ELSE alarm[n]]
    /\ UNCHANGED <<world, served, local, changes, computed>>

\* The output and the exit code; a report of a regression raises the alarm.
Outputs(p) ==
    /\ pc[p] \in {"saved", "reported"}
    /\ Exits(p)
    /\ alarm' = [n \in Names |-> IF report[p][n] = "regressed" THEN "heard" ELSE alarm[n]]
    /\ UNCHANGED <<store, world, served, changes, made, computed, last>>

----------------------------------------------------------------------------
(* triage                                                                  *)

\* A package somebody blocked stays block; an allow quiets nothing fresh.
TriageVerdict(p, d) == IF mine[p][d].decision = "block" THEN "block" ELSE world[d]

Audit(p) ==
    /\ p \in Triagers
    /\ GoTo(p, "loaded", "asking")
    /\ fresh' = [fresh EXCEPT ![p] = [d \in Deps |-> TriageVerdict(p, d)]]
    /\ handled' = [handled EXCEPT ![p] =
          {d \in Deps : TriageVerdict(p, d) = "safe" \/ mine[p][d].decision = "allow"}]
    /\ computed' = computed \cup {<<d, world[d]>> : d \in Deps}
    /\ UNCHANGED <<store, world, served, mine, subject, decided, report, changes, made, last, alarm>>

\* One key, or one turn of the --auto loop: allow, block or skip.  The end of
\* the worklist, or q, saves what was decided.
Decide(p) ==
    /\ pc[p] = "asking"
    /\ \E d \in Deps \ handled[p], choice \in {"allow", "block", "skip"} :
          /\ handled' = [handled EXCEPT ![p] = @ \cup {d}]
          /\ \/ choice = "skip" /\ UNCHANGED <<mine, decided>>
             \/ /\ choice # "skip"
                /\ decided' = [decided EXCEPT ![p] = @ \cup {d}]
                /\ mine' = [mine EXCEPT ![p][d] =
                      [decision |-> choice, verdict |-> fresh[p][d],
                       checked |-> TRUE, manifest |-> NoManifest]]
    /\ UNCHANGED <<store, world, served, pc, fresh, subject, report, changes, history>>

----------------------------------------------------------------------------
(* recheck of a lockfile                                                   *)

\* Mutant: only a new block counts as worse.
DriftToBlock(baseline, now) ==
    IF now \notin Verdicts THEN "unknown"
    ELSE IF baseline \notin Verdicts THEN "no-baseline"
    ELSE IF now = "block" /\ baseline # "block" THEN "regressed"
    ELSE IF Rank(now) < Rank(baseline) THEN "improved" ELSE "unchanged"

\* classifyDrift
Drift(baseline, now) ==
    IF now \notin Verdicts THEN "unknown"
    ELSE IF baseline \notin Verdicts THEN "no-baseline"
    ELSE IF Rank(now) > Rank(baseline) THEN "regressed"
    ELSE IF Rank(now) < Rank(baseline) THEN "improved" ELSE "unchanged"

\* A record without the time of its check is no baseline.
Baseline(record) == IF record.checked THEN record.verdict ELSE "none"

\* The packages are evaluated in any order; an error gives "unknown".
Evaluate(p) ==
    /\ p \in Recheckers
    /\ pc[p] = "loaded"
    /\ \E d \in Deps \ handled[p] : \E v \in {world[d], "unknown"} :
          /\ handled' = [handled EXCEPT ![p] = @ \cup {d}]
          /\ fresh' = [fresh EXCEPT ![p][d] = v]
          /\ report' = [report EXCEPT ![p][d] = Drift(Baseline(mine[p][d]), v)]
          /\ computed' = computed \cup ({<<d, v>>} \ {<<d, "unknown">>})
    /\ UNCHANGED <<store, world, served, pc, mine, subject, decided, changes, made, last, alarm>>

Reevaluated(p) == {d \in Deps : fresh[p][d] # "unknown" /\ Known(mine[p][d])}

\* Mutant: the decision follows the verdict.
RefreshedDeciding(record, v) ==
    [record EXCEPT !.verdict = v, !.checked = TRUE,
                   !.decision = IF v = "block" THEN "block" ELSE "allow"]
Refreshed(record, v) == [record EXCEPT !.verdict = v, !.checked = TRUE]

RecheckSaves(p) ==
    /\ p \in Recheckers
    /\ GoTo(p, "loaded", "saving")
    /\ handled[p] = Deps /\ Reevaluated(p) # {}
    /\ mine' = [mine EXCEPT ![p] = [n \in Names |->
          IF n \in Reevaluated(p) THEN Refreshed(mine[p][n], fresh[p][n]) ELSE mine[p][n]]]
    /\ UNCHANGED <<store, world, served, fresh, subject, handled, decided, report, changes, history>>

\* --no-write, or no record to refresh.
RecheckReports(p) ==
    /\ p \in Recheckers
    /\ GoTo(p, "loaded", "reported")
    /\ handled[p] = Deps
    /\ UNCHANGED <<store, world, served, local, changes, history>>

----------------------------------------------------------------------------
(* --pin and --recheck of an MCP manifest                                  *)

Pin(p) ==
    /\ p \in Pinners
    /\ GoTo(p, "loaded", "saving")
    /\ LET s == subject[p].server
           m == subject[p].manifest
       IN  /\ mine' = [mine EXCEPT ![p][s] =
                [decision |-> IF AuditVerdict[m] = "block" THEN "block" ELSE "allow",
                 verdict |-> AuditVerdict[m], checked |-> TRUE, manifest |-> m]]
           /\ computed' = computed \cup {<<s, AuditVerdict[m]>>}
           /\ decided' = [decided EXCEPT ![p] = {s}]
    /\ UNCHANGED <<store, world, served, fresh, subject, handled, report, changes, made, last, alarm>>

\* The report of one manifest: the drift of its verdict, then of its tools.
McpReport(record, m) ==
    IF Drift(record.verdict, AuditVerdict[m]) = "regressed" THEN "regressed"
    ELSE IF record.manifest # m THEN "drifted" ELSE "unchanged"

\* Mutant: the live manifest becomes the baseline.
RebasedMcp(record, m) == [record EXCEPT !.verdict = AuditVerdict[m], !.manifest = m]
\* Only the verdict and the time of the check are written.
RefreshedMcp(record, m) == [record EXCEPT !.verdict = AuditVerdict[m], !.checked = TRUE]

McpRecheck(p) ==
    /\ p \in McpRecheckers /\ pc[p] = "loaded"
    /\ LET s == subject[p].server
           m == subject[p].manifest
       IN  /\ Known(mine[p][s]) /\ mine[p][s].manifest # NoManifest
           /\ report' = [report EXCEPT ![p][s] = McpReport(mine[p][s], m)]
           /\ \/ /\ GoTo(p, "loaded", "saving")
                 /\ mine' = [mine EXCEPT ![p][s] = RefreshedMcp(@, m)]
              \/ GoTo(p, "loaded", "reported") /\ UNCHANGED mine     \* --no-write
           /\ computed' = computed \cup {<<s, AuditVerdict[m]>>}
    /\ UNCHANGED <<store, world, served, fresh, subject, handled, decided, changes, made, last, alarm>>

\* No record, or one without valid fingerprints: an error, or nothing to
\* compare with and no alarm either.
McpNoBaseline(p) ==
    /\ p \in McpRecheckers
    /\ GoTo(p, "loaded", "reported")
    /\ LET s == subject[p].server
       IN  /\ Known(mine[p][s]) => mine[p][s].manifest = NoManifest
           /\ report' = [report EXCEPT ![p][s] =
                 IF Known(mine[p][s]) \/ RequireBaseline THEN "error" ELSE "no-baseline"]
    /\ UNCHANGED <<store, world, served, mine, fresh, subject, handled, decided, changes, history>>

----------------------------------------------------------------------------
WorldChanges ==
    /\ changes < MaxChanges /\ changes' = changes + 1
    /\ \/ /\ \E d \in Deps, v \in Verdicts : v # world[d] /\ world' = [world EXCEPT ![d] = v]
          /\ UNCHANGED served
       \/ /\ \E s \in Servers, m \in Manifests :
                m # served[s] /\ served' = [served EXCEPT ![s] = m]
          /\ UNCHANGED world
    /\ UNCHANGED <<store, pc, local, history>>

Next ==
    \/ \E p \in Processes :
          \/ Load(p) \/ GivesUp(p) \/ Audit(p) \/ Decide(p) \/ Evaluate(p) \/ RecheckSaves(p)
          \/ RecheckReports(p) \/ Pin(p) \/ McpRecheck(p) \/ McpNoBaseline(p)
          \/ Save(p) \/ Outputs(p)
    \/ WorldChanges

Spec == Init /\ [][Next]_vars

----------------------------------------------------------------------------
TypeOK ==
    /\ store \in [Names -> Records]
    /\ world \in [Deps -> Verdicts] /\ served \in [Servers -> Manifests]
    /\ mine \in [Processes -> [Names -> Records]]
    /\ pc \in [Processes -> {"idle", "loaded", "asking", "saving", "saved", "reported", "done"}]
    /\ handled \in [Processes -> SUBSET Deps] /\ decided \in [Processes -> SUBSET Names]
    /\ changes \in 0..MaxChanges

\* Whatever overlaps and whatever is lost, every decision and every approved
\* manifest in the store is one somebody made: a monitoring command never
\* makes or mixes one (recheck.js:234-237, mcp-pin.js:184).
DecisionsWereMade == \A n \in Names : <<n, Human(store[n])>> \in made

\* The store holds the last decision saved for each name, by whichever
\* command the store was saved since (triage.js:155).
DecisionsSurvive == \A n \in Names : Human(store[n]) = last[n]

\* A recheck that calls a manifest unchanged saw the one last approved, no
\* matter how many rechecks refreshed the record in between, and whether they
\* came to their output or not (mcp-pin.js:184, 207-224).
UnchangedMeansApproved ==
    [][\A p \in McpRecheckers, s \in Servers :
          report[p][s] = "none" /\ report'[p][s] = "unchanged" =>
             subject[p].manifest = last[s][2]]_vars

\* A verdict that got worse since a dated check, once it is in the store, has
\* been heard of: somebody decided on the name then, a recheck said regressed
\* or is about to say it, or was interrupted between its save and its output
\* (docs/reference.md:89).
AlarmsAreHeard ==
    \A n \in Names :
        alarm[n] = "due" => \E p \in Processes : pc[p] = "saved" /\ report[p][n] = "regressed"

\* A stored verdict was computed at some time, so later ones can be compared
\* with it (the comment at triage.js:432).
BaselinesWereComputed == \A n \in Names : <<n, store[n].verdict>> \in computed
============================================================================
