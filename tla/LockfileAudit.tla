--------------------------- MODULE LockfileAudit ---------------------------
(* `pkgxray lockfile' (src/lockfile.js): the dependencies a lockfile or      *)
(* manifest declares, the batches of OSV queries about them, the decisions   *)
(* stored beside the file, and the deep scans that workers of one pool       *)
(* (src/pool.js) run over them.                                              *)
(*                                                                           *)
(* A declaration is a record: name, the real package behind an alias, the    *)
(* version left once range operators are stripped, and its form - an exact   *)
(* version, a range, any version, an alias, a VCS or URL source, one of the  *)
(* project's own workspaces, none (no version), or an option line.           *)
EXTENDS Naturals, SequencesExt

CONSTANTS Lockfiles,        \* records: format, entries (declarations in file order)
          Evidence,         \* records: vulnerable keys, and what scanning a key finds
          Stores,           \* decisions stored beside the lockfile, by key
          BatchSize,        \* queries OSV takes in one call
          DeepConcurrency   \* scans at work at most

VARIABLES lockfile, evidence, decided, depth, lockPhase,
          batches,   \* batch -> asked | answered
          audited,   \* one record per dependency, in the order of the map
          targets,   \* indices into audited that deep scans take, in order
          nextTarget, scanning

lockVars == <<lockfile, evidence, decided, depth, lockPhase, batches, audited, targets, nextTarget, scanning>>
-----------------------------------------------------------------------------
(* Parsers: what a declaration becomes, per format.                          *)

Skip == [name |-> "none", version |-> "none", unresolved |-> FALSE, artifact |-> "none"]
Resolved(d, name)   == [name |-> name, version |-> d.version, unresolved |-> FALSE, artifact |-> "none"]
Unresolved(d)       == [name |-> d.name, version |-> d.version, unresolved |-> TRUE, artifact |-> "none"]
Published(d)        == IF d.form = "alias" THEN d.real ELSE d.name

\* package-lock.json: the root, workspaces and entries without a version are passed over.
NpmDep(d) ==
    IF d.form \in {"workspace", "none"} THEN Skip
    ELSE [Resolved(d, Published(d)) EXCEPT !.artifact = d.artifact]

\* yarn.lock: every specifier of a block with a version line, workspaces and VCS sources included.
YarnDep(d) == IF d.form = "none" THEN Skip ELSE Resolved(d, Published(d))

\* pnpm-lock.yaml: keys whose version begins with a digit.
PnpmDep(d) == IF d.form \in {"vcs", "workspace", "none"} THEN Skip ELSE Resolved(d, Published(d))

\* package.json: ranges lose their operators; other protocols and "any" stay unresolved.
PackageJsonDep(d) ==
    CASE d.form = "none" -> Skip
      [] d.form \in {"vcs", "workspace", "any"} -> Unresolved(d)
      [] OTHER -> Resolved(d, Published(d))

\* requirements.txt, and the dependencies array of pyproject.toml: only an exact pin is resolved.
RequirementDep(d) ==
    CASE d.form \in {"option", "none"} -> Skip
      [] d.form = "exact" -> Resolved(d, d.name)
      [] OTHER -> Unresolved(d)

\* poetry.lock: the version is resolved even for a git, url or local source, which is not a release.
PoetryDep(d) ==
    CASE d.form = "none" -> Skip [] d.form = "vcs" -> Unresolved(d) [] OTHER -> Resolved(d, d.name)

\* Pipfile.lock, and the tables of pyproject.toml (whose python entry is an option).
PinnedDep(d) ==
    CASE d.form = "option" -> Skip [] d.form = "exact" -> Resolved(d, d.name) [] OTHER -> Unresolved(d)

Dep(format, d) ==
    CASE format = "npm" -> NpmDep(d)            [] format = "yarn" -> YarnDep(d)
      [] format = "pnpm" -> PnpmDep(d)          [] format = "package-json" -> PackageJsonDep(d)
      [] format = "requirements" -> RequirementDep(d)
      [] format = "poetry" -> PoetryDep(d)      [] format \in {"pipfile", "pyproject"} -> PinnedDep(d)

Formats == {"npm", "yarn", "pnpm", "package-json", "requirements", "poetry", "pipfile", "pyproject"}
Scheme(format) == IF format \in {"requirements", "poetry", "pipfile", "pyproject"} THEN "pypi" ELSE "npm"

Key(x) == <<x.name, x.version>>
At(deps, key) == {i \in DOMAIN deps : Key(deps[i]) = key}

\* The map keeps the first dependency of a key; a later one only adds its artifact.
AddDep(deps, dep) ==
    IF dep = Skip THEN deps
    ELSE IF At(deps, Key(dep)) # {}
    THEN [i \in DOMAIN deps |->
             IF Key(deps[i]) = Key(dep) THEN [deps[i] EXCEPT !.artifacts = @ \cup ({dep.artifact} \ {"none"})] ELSE deps[i]]
    ELSE Append(deps, [name |-> dep.name, version |-> dep.version, unresolved |-> dep.unresolved,
                       artifacts |-> {dep.artifact} \ {"none"}])

ParseLockfile(file) == FoldLeft(LAMBDA deps, d : AddDep(deps, Dep(file.format, d)), << >>, file.entries)
Deps == ParseLockfile(lockfile)

ASSUME LockAssumption ==
    /\ \A file \in Lockfiles :
          /\ file.format \in Formats
          /\ file.entries \in Seq({file.entries[k] : k \in DOMAIN file.entries})
          /\ \A k \in DOMAIN file.entries, e \in Evidence :
                LET dep == Dep(file.format, file.entries[k])
                IN dep # Skip => e.scan[Key(dep)] \in {"safe", "review", "block"}
-----------------------------------------------------------------------------
\* The indices that are kept, in order.
Kept(keep) == FoldLeftDomain(LAMBDA s, i : IF keep[i] THEN Append(s, i) ELSE s, << >>, keep)

\* The dependencies asked about.
Queries == Kept([i \in DOMAIN Deps |-> ~Deps[i].unresolved])
Batches == {b \in 1..Len(Queries) : (b - 1) * BatchSize < Len(Queries)}

LockInit ==
    /\ lockfile \in Lockfiles /\ evidence \in Evidence /\ decided \in Stores /\ depth \in {"none", "deep", "deepAll"}
    /\ lockPhase = "asking"
    /\ batches = [b \in Batches |-> "asked"]
    /\ audited = << >> /\ targets = << >> /\ nextTarget = 1 /\ scanning = {}

\* A batch is answered in full, one result per query, or it fails the audit.
PostBatch(b) ==
    /\ lockPhase = "asking" /\ batches[b] = "asked"
    /\ \/ batches' = [batches EXCEPT ![b] = "answered"] /\ UNCHANGED lockPhase
       \/ lockPhase' = "rejected" /\ UNCHANGED batches
    /\ UNCHANGED <<lockfile, evidence, decided, depth, audited, targets, nextTarget, scanning>>

\* The flattened answers, in the order of the queries.
OsvResults == [q \in DOMAIN Queries |-> Key(Deps[Queries[q]]) \in evidence.vulnerable]

\* Mutant: the cursor moves with every dependency.
CursorMovingOn(i) == i
\* The cursor into the answers stands still on unresolved dependencies.
Cursor(i) == Cardinality({j \in 1..i : ~Deps[j].unresolved})
Blocked(i) == Cursor(i) \in DOMAIN OsvResults /\ OsvResults[Cursor(i)]

\* A stored allow never clears a vulnerability; a stored block stays.
Decision(i) ==
    IF Deps[i].unresolved THEN "review"
    ELSE IF Blocked(i) \/ (Key(Deps[i]) \in DOMAIN decided /\ decided[Key(Deps[i])] = "block") THEN "block"
    ELSE "safe"

AuditLockfile ==
    /\ lockPhase = "asking" /\ \A b \in DOMAIN batches : batches[b] = "answered"
    /\ audited' = [i \in DOMAIN Deps |-> [dep |-> Deps[i], decision |-> Decision(i), deep |-> "none"]]
    /\ targets' = Kept([i \in DOMAIN Deps |-> depth = "deepAll" \/ (depth = "deep" /\ Decision(i) = "block")])
    /\ lockPhase' = IF targets' = << >> THEN "returned" ELSE "deep"
    /\ UNCHANGED <<lockfile, evidence, decided, depth, batches, nextTarget, scanning>>
-----------------------------------------------------------------------------
(* mapPool, and the scan of one result.                                      *)

Worse(decision, verdict) ==
    IF verdict = "block" \/ (verdict = "review" /\ decision = "safe") THEN verdict ELSE decision

\* An npm scan needs the one artifact the lockfile names, with its integrity.
Scannable(i) == Scheme(lockfile.format) = "npm" => Cardinality(audited[i].dep.artifacts) = 1

Failed(i) == [audited EXCEPT ![i].deep = "error", ![i].decision = Worse(@, "review")]

\* A worker takes the next result; one that cannot be bound to an artifact fails at once.
RunDeep ==
    /\ lockPhase = "deep" /\ nextTarget <= Len(targets) /\ Cardinality(scanning) < DeepConcurrency
    /\ nextTarget' = nextTarget + 1
    /\ LET i == targets[nextTarget] IN
         IF Scannable(i) THEN scanning' = scanning \cup {i} /\ UNCHANGED audited
                         ELSE audited' = Failed(i) /\ UNCHANGED scanning
    /\ UNCHANGED <<lockfile, evidence, decided, depth, lockPhase, batches, targets>>

\* A guard ends with a verdict, or throws: its result is at least held for review.
GuardEnds(i) ==
    /\ i \in scanning /\ scanning' = scanning \ {i}
    /\ \/ LET verdict == evidence.scan[Key(audited[i].dep)] IN
            audited' = [audited EXCEPT ![i].deep = verdict, ![i].decision = Worse(@, verdict)]
       \/ audited' = Failed(i)
    /\ UNCHANGED <<lockfile, evidence, decided, depth, lockPhase, batches, targets, nextTarget>>

\* Every worker has run out of targets.
PoolEnds ==
    /\ lockPhase = "deep" /\ nextTarget > Len(targets) /\ scanning = {}
    /\ lockPhase' = "returned"
    /\ UNCHANGED <<lockfile, evidence, decided, depth, batches, audited, targets, nextTarget, scanning>>

LockNext ==
    \/ \E b \in DOMAIN batches : PostBatch(b)
    \/ AuditLockfile \/ RunDeep \/ PoolEnds
    \/ \E i \in scanning : GuardEnds(i)

LockSpec == LockInit /\ [][LockNext]_lockVars
-----------------------------------------------------------------------------
Declared == {lockfile.entries[k] : k \in DOMAIN lockfile.entries}
Outcome(key) == {audited[i] : i \in {j \in DOMAIN audited : Key(audited[j].dep) = key}}

\* Whatever the order of declarations, batches and scans, a returned audit lists what is declared
\* once and with its own evidence: a known vulnerability blocks in spite of a stored allow, a scan's
\* verdict and a failed scan count, and nothing is safe that was neither asked about nor listed as
\* a release elsewhere in the file (src/lockfile.js:618 keeps the cursor, :721 runs the pool).
AuditFollowsEvidence ==
    lockPhase = "returned" =>
      /\ \A d \in Declared : Dep(lockfile.format, d) # Skip =>
           LET dep == Dep(lockfile.format, d) IN
             /\ Cardinality(Outcome(Key(dep))) = 1
             /\ \A r \in Outcome(Key(dep)) :
                  /\ ~dep.unresolved /\ ~r.dep.unresolved /\ Key(dep) \in evidence.vulnerable => r.decision = "block"
                  /\ dep.unresolved /\ r.decision = "safe" => ~r.dep.unresolved
      /\ \A i \in DOMAIN audited :
           /\ depth = "deepAll" => audited[i].deep # "none"
           /\ audited[i].decision = "block" =>
                \/ Key(audited[i].dep) \in evidence.vulnerable
                \/ Key(audited[i].dep) \in DOMAIN decided /\ decided[Key(audited[i].dep)] = "block"
                \/ audited[i].deep = "block"
           /\ audited[i].deep # "none" => audited[i].decision = Worse(audited[i].decision, audited[i].deep)
           /\ audited[i].deep = "error" => audited[i].decision # "safe"
=============================================================================
