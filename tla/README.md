# pkgxray: models, checks and proofs

pkgxray vets packages, lockfiles and MCP servers before they are used. It stages
a package, audits its source and what the registries say of it, decides, records
what people decided, installs only what was allowed, detonates packages among
decoys on request, and stands as a proxy between an agent host and an MCP
server. This directory models those parts in TLA+, checks them with TLC and
proves the central results with TLAPS.

Paths below are relative to the repository (`src/mcp-proxy.js`). `PROJECT.json`
lists every component with its status, every definition with the lines it
models, and every hazard with its line and the properties that watch it.

## 1. Inventory

### The parts that keep state

| Part | State | Operations | Hard behaviour |
|---|---|---|---|
| **Guard pipeline** `src/quarantine.js` | a private workspace, the shared tarball cache, the promotion target | resolve, query, download, verify, populate the cache, extract, collect, audit, decide, promote, delete | any step may fail or the process die; two guards write one cache file in place; an incomplete scan must not become an allow |
| **Source plan** `src/source-plan.js`, `src/quarantine.js` | worklist of files, budgets, gaps | choose, read, elide, follow an import, revisit with the install flag | a file reached twice under different flags; budgets met in the middle; gaps that are not recorded |
| **Static auditor** `src/auditor.js`, `src/execution-graph.js` | findings, the reach of the lifecycle scripts | detect, follow, demote, attribute, grade, fold | the order of lenient passes; a downgrade applied to the wrong file |
| **MCP per-call gate** `src/mcp-proxy.js`, class `McpGate` | tool verdicts, `stale`, `verified`, `pinHold`, held calls, calls in flight, the host's pagination, the re-verification round and its timer | a frame of either side, the timer, the end of the pin-store await, the end of the session | a change of the manifest between two pages, between a call and its answer, during the await; late answers of a round that timed out |
| **MCP proxy transport** `src/mcp-proxy.js` | child, chunks, the queue, blocked outputs, timers, `settled` | data, backpressure and drain, broken pipes, exit, signals, settle | the exit racing buffered frames; a server that ignores SIGTERM; outputs nobody reads |
| **Bounded task queue** `src/bounded-queue.js` | waiting tasks, `running`, `count`, `bytes`, `closed` | `enqueue`, `drain`, `close`, `onError`, `finally` | counters across microtasks; limits reached; close at any time |
| **MCP server** `bin/mcp-server.js` | a partial line, the queue, unread output | chunk, frame, dispatch, reply, overflow, end of input | replies out of order, overlong lines cut anywhere, overload |
| **MCP enumeration** `src/mcp-client.js` | pending requests, pages, output counters, child and timers | request, frames, output cap, timeout, exit, kill, DELETE | the timeout racing answers; a server that ignores SIGTERM; page limits |
| **Decision and pin store** `src/triage.js`, `src/recheck.js`, `src/mcp-pin.js` | `.pkgxray.lock`: per package a decision and a baseline, per server an approved manifest | triage, recheck, pin, MCP recheck, each load - work - save - output | overlapping commands; interrupted prompts; an interruption between the save and the output; failed evaluations |
| **Lockfile audit** `src/lockfile.js`, `src/pool.js` | the map of dependencies, batches, worker cursor, results | parse, query in batches, apply decisions, deep scans, fold | declarations of one name in any order; results of a batch applied to the wrong entry |
| **Enforced install** `src/install.js` | the lock directory, `node_modules`, backups, the private stage, the files read | read, guard, npm, verify, recheck, two renames, rollback, clean-up | two installers, edits meanwhile, crashes between renames, failing rollback |
| **Shared cache server** `bin/pkgxray-cache.js` | files with ages, temporary files, the in-flight table | `handleRepo`, `handleTarball`: hit, join, fetch, bypass, scoped fetch | shared fetches, tokens, upstream moving, connections cut in mid-body, a file replaced between its `stat` and its `open`, the ceiling, restarts |
| **Repository tarballs** `src/github.js`, `src/http-client.js`, `src/cache-client.js` | a shared directory, a partial file, a deadline, redirects | candidate ref, request, redirect, chunk, timeout, unlink, rename | the deadline racing the end; a file that is still opening when the download fails |
| **Canary sandbox** `src/sandbox.js` | decoys, a recording proxy, phases, a process group | prepare, run, dial, send, time out, kill, settle, evaluate, tear down | connections still open when a phase ends or when the proxy closes; background processes that hold the output |
| **Example verdict gate** `examples/pkgxray-proxy` | verdict store and its file, snapshots, policy, builds | request, snapshot, look up, scan, save, serve, recheck, allow, restart | bytes, policy or build changing between a scan and its use; failing saves |
| **Example guard hook (Go)** `examples/hookshot` | the session's memo, workers, an MCP configuration file | parse, check, compose, wrap, edit | concurrent checks that finish in any order; a configuration others write |

### The parts that compute

The verdict policy and configuration (`src/config.js`, `src/approval-policy.js`)
is an operator library (`VerdictPolicy`) used by the guard and the auditor. The
comparison of a package with the repository it names (`src/diff.js`,
`runNpmVsGithubDiff` in `src/quarantine.js`) is one too (`RepositoryDiff`): two
limited walks of the trees, the files that differ, and the rules that call a
comparison noise. Version orders, typosquatting distance, provenance and
artifact hashing are not modelled; in the models a fingerprint is the value it
is the fingerprint of.

### How they interact

- The guard collects source along the source plan, audits it, and folds the
  result with the configuration: `GuardPipeline` over `VerdictPolicy` and
  `SourceAudit` over `SourceCollection`, `ExecutionGraph`, `RepositoryDiff`,
  `Detectors` and `Auditor` are the two halves of a scan. The comparison looks
  at the files the plan chose and the auditor grades what it finds.
- The proxy transport feeds both directions through one bounded queue of
  concurrency 1 into the gate, so the gate's handlers do not interleave, except
  that one awaits the pin store, and meanwhile its timer can fire.
- The gate reads approved manifests that `mcp pin` and `triage` write: other
  processes change the store during a session.
- `install` reads project files that people edit, runs the guard on every
  package and checks the receipts with the approval policy.
- The MCP server queues its requests in the same bounded queue and runs the
  guard, the lockfile audit and triage for its clients.
- CI jobs share the cache server; scans on one machine share the tarball cache
  and the directory of repository tarballs.

### What makes each part correct

- Guard: nothing unverified is unpacked; a known vulnerability blocks; an allow
  is earned or pinned to these bytes; no workspace is left.
- Source plan and auditor: coverage reported complete is complete; leniency
  never turns a finding, or the absence of a look, into a pass; what makes a
  comparison with the repository noise never hides a difference in a file that
  takes part in a concealed start.
- Gate: a call is forwarded only on a current, vetted, approved listing; it is
  held, in flight or answered, never two; a held call is settled.
- Transport, queue, server: frames in order, none lost before the exit, one
  reply per request, exact counters, no idle slot, no server left running.
- Store: decisions persist and are somebody's; what a recheck calls unchanged is
  what was approved, and a verdict that got worse is heard of.
- Install: only vetted trees; the replacement is atomic; the old tree survives.
- Cache and tarballs: right, whole content; what a token saw stays private; one
  writer per file; the ceiling; every request is answered.
- Sandbox: what was sent is reported, the confinement claimed was real, and the
  run ends.
- Verdict gate and hook: what is served or allowed has a verdict of these bytes.

## 2. Modules

| Module | Models | Uses |
|---|---|---|
| `VerdictPolicy` | findings to a level, mutes, pinned allows, floors, the decision | - |
| `GuardPipeline` | one guard from request to deletion; several at once | `VerdictPolicy` |
| `SourceCollection` | the source plan and the collection | - |
| `ExecutionGraph` | seeds in the manifest, the reach of what runs | `SourceCollection` |
| `Detectors` | each detector as a function of one abstract file | - |
| `Auditor` | the passes over all findings, to the report | `Detectors`, `VerdictPolicy` |
| `RepositoryDiff` | the package's tree against the repository's | `ExecutionGraph` |
| `SourceAudit` | collection, graph, comparison and audit one after the other | `RepositoryDiff`, `Auditor` |
| `McpGate` | class `McpGate`, an action per frame, timer and await | - |
| `McpTransport` | `runMcpProxy` around the gate | instantiates `BoundedQueue` |
| `BoundedQueue` | `boundedQueue`, with the promise microtasks of a task | - |
| `McpServer` | the request loop of `bin/mcp-server.js` | `BoundedQueue` |
| `McpEnumerate` | `enumerateStdio` and `enumerateHttp` | - |
| `PinStore` | the four commands over `.pkgxray.lock` | - |
| `LockfileAudit` | `pkgxray lockfile`, with the worker pool | - |
| `Install` | `installProject`, one step per await | instantiates `AtomicInstall` |
| `AtomicInstall` | what an install promises of `node_modules` | - |
| `CacheServer` | both content handlers and what they share | - |
| `RepoTarball` | downloads of repository tarballs into a shared directory | - |
| `CanarySandbox` | one run of the sandbox, the payload being anything | - |
| `VerdictGate` | the example registry proxy | - |
| `InstallHook` | the example hook: one command or edit | - |
| `FoldTheorems` | induction and recursion, folds and sums, for the proofs | - |
| `*Proofs` | the theorems of section 6 | the module they name; `GuardProofs` is of `GuardPipeline` and `SourceAudit`, `BoundedQueueProofs` also of `McpServer`, `ServiceProofs` of the parts of the run `services` |
| `MC*` | constants for TLC; `MCScan` and `MCServices` run unrelated parts one at a time | the modules they name |

A definition marked `Mutant:` is a plausible bug of the definition next to it.
No action uses it; put in the other's place it violates the property it is
listed for, which shows that the property depends on that code.

How state and actions correspond to the code:

- **GuardPipeline**: one process per `guardExtension`; `pc[g]` is the step, the
  other variables its locals and the files it owns. `cache`, `writers` and
  `target` are shared. Every awaited step has a failing twin (`StageFails`,
  `DownloadFails`, `ExtractFails`, ...) that goes through the `finally`; what
  failed outside the code is remembered in `faults`. Bytes are good, altered or
  partial; hashes are equal when the bytes are.
- **SourceCollection, ExecutionGraph, Detectors, Auditor**: a file is a name, a
  size, its links and marks: the facts the patterns tell apart. A link is what
  the plan takes a specifier for (a computed one stands for nothing) with the
  candidates the auditor's walk and the execution graph try for it, since each
  of the three knows suffixes of its own. A file may be unparsable, in which
  case the graph has no edges from it and names no gap, or not ASCII, in which
  case its text can take up to three times the bytes that were read. How a regular
  expression finds a mark in text is left out; which marks make which finding,
  at which severity, what demotes it and in which order the passes run is not.
- **RepositoryDiff**: a repository is which of the package's files it has, which
  of those have the same content, their sizes, the paths whose directory it
  knows, and whether its archive could be listed. A path is the kind the code's
  patterns make of it. Equal hashes are equal contents, except that a file that
  was not hashed has the reason in the place of its hash. The walks go in the
  order of the names; directories are not told apart.
- **McpGate**: the gate's fields by their own names and the two pipes. `Served`
  is the server's history: a manifest per epoch, with pages and instructions.
  The only await inside a handler is the variable `busy`.
- **McpTransport**: chunks of lines, the queue with its counters, frames written
  and unread, the ten-second timers, the child's state and the signals sent to
  it. A line is a task that writes some frames or throws: what the gate decides
  about it is `McpGate`'s.
- **McpServer**: lines of every kind (calls with well and badly typed arguments,
  pings, notifications, garbage, blanks, overlong ones) cut into chunks
  anywhere; a tool answers, throws or times out in any order.
- **McpEnumerate**: frames of the server carry any id, kind and size at any time;
  `answer` is the settled promise whose continuation has not run.
- **PinStore**: a process loads the store, works on its copy, renames the copy
  over the store (`Save`) and then prints and exits (`Outputs`); it can be
  interrupted before each. `alarm` is history: whether somebody has heard of a
  stored verdict that got worse. `Overlap` says whether commands may run at the same time.
- **LockfileAudit**: a declaration is a name, the package behind an alias, a
  version and its form; each format says what becomes a release, what stays
  unresolved and what is passed over. Batches and deep scans are actions of
  their own.
- **Install**: `pc` is the await; contents are compared by value; a tree is the
  set of packages found in it and the receipt written into it. The environment
  edits the project, kills an installer, then clears the lock and may put the
  backup back.
- **CacheServer**: a handler is cut at its awaits; a shared fetch is named by the
  client that leads it; `litter` counts what crashes leave. A tarball's length is
  announced from its `stat`, and the file opened afterwards may be another, so
  `Open` may deliver a cut body. Metadata whose connection closes in mid-body
  never settles: the fetch and those who joined it are `hung`, and a client can
  only leave.
- **RepoTarball**: `step` follows the download, `stream` the file's own life
  (opening, open, closing, closed), which is what the failures race with.
- **CanarySandbox**: `procs` are the payload's processes, which fork, leave their
  group, hold the output open and send at will; `hits` is what the proxy
  recorded. A plain request is `inFlight` until it ends, and is recorded then or
  cut without a record; a tunnel is recorded when it opens and what it carries
  is a step of its own. A token is in the head, in the first 64 KiB of the body
  or deeper. `sent` and `escaped` are history that the code cannot see.
- **VerdictGate**: a request's locals, the store in memory and on disk, and an
  outside (policy, guard, upstream, clock) that changes `MaxChanges` times.
- **InstallHook**: tokens are strings, the tables of commands are constants'
  sets; workers take references in any order through the memo. The policy is a
  variable that a session fixes.

## 3. Runs

| Run | Shows | Distinct states |
|---|---|---|
| `gate_session` | two calls and another request while the server's page turns hostile: held calls are watched and settled, calls are routed once, verdicts are current. Liveness | 0.92 M |
| `gate_pin` | pinned baseline, strict pages limit, the record re-pinned or lost by others: only vetted and approved tools are forwarded, a round is one walk of the list | 1.5 M |
| `gate_stale_pages` | *violation*: with two pages, a `list_changed` between them is lost | - |
| `install_swap` | two installers, two edits, a crash and the operator: only vetted trees, and the swap implements `AtomicInstall` | 2.9 M |
| `install_faults` | failing rollback and clean-up, a removed `node_modules`: the last tree survives, installs end. Liveness | 0.25 M |
| `store_serial` | the four commands one at a time, interrupted anywhere, also between save and output: decisions survive, "unchanged" means approved, a risen verdict is heard of unless its recheck was interrupted | 1.3 M |
| `store_lost_decision` | *violation*: a recheck overlapping a triage drops its decision | - |
| `cache` | two clients, a small ceiling, moving upstream, cut connections, a crash and a disk error: right content, private tokens, one writer, bounded overshoot, every request answered unless its metadata was cut off. Liveness | 0.58 M |
| `scan` | the guard part: two guards of one package, every kind of reference, four configurations, a crash; the audit part: 23 shapes of packages, nine repositories to compare them with, and what the network says of them | 1.9 M |
| `guard_github` | *violation*: a guard of `github:owner/repo` ends without a decision although nothing failed | - |
| `server` | six inputs of up to six lines in every chunking, two slots: exact counters, no idle slot, whole frames, ordered and complete replies. Liveness | 91 k |
| `services` | seven parts that share no state, one at a time: hook, enumeration, verdict gate, transport, sandbox, lockfile audit, tarballs. Liveness of the transport, the sandbox and the enumeration | 0.40 M |

### Bounds, and why they are enough

- Gate: two tools, so that one can change while the other does not; two calls in
  `gate_session`, so that one is held while the other is in flight; two epochs,
  so that every page, verdict and approval has a before and an after; limits of
  one or two, so that they are met. `gate_pin` has one call and more pages than
  allowed.
- Install: two installers give every overlap of lock, backup and stage; a
  required and an optional package; seven reports, one per reason to refuse; two
  edits reach an edit undone before the recheck.
- Store: two rechecks and two MCP rechecks, for a refreshed baseline to be
  compared with, also one whose report was lost; initial stores of all shapes an earlier version leaves.
- Cache: a leader and a joiner; two versions; a tarball twice the ceiling.
- Scan: the first guard takes every request and the second is a PyPI guard that
  refreshes the same cache file, the shortest way to a copy interrupted under a
  reader. The packages have six files: a manifest, an entry point, a hook, a
  library they share, a document and an addon; with five analysed files, ten
  queue entries and two hints every limit is met by some package. With six
  files and eleven bytes in a tree, four bytes in a file, one extra file that is
  no accident and two listed ones, each limit of the comparison, each of its
  three noise rules and the cut of its lists is met by some repository.
- Server: two slots and room for four tasks and five bytes, so that requests are
  refused at either limit; `MaxOut = 1` ends the session at the second unread
  reply; overlong lines come first, in the middle and last.
- Services: each part has the two or three actors its races need (two workers,
  two requesters, two fetchers, a phase's shell and one fork), one crash or one
  change of the outside, and limits of one or two. The hook has two workers and
  a command of three packages, so that one waits for a free worker, under the
  `balanced` policy and under the `permissive` one; the other parts do not read
  it. The sandbox's payload opens one connection, which may be a request that
  never ends or a tunnel that carries a token later. Tarballs have three chunks
  where two are allowed. Three candidates would add only another turn of the
  same loop; the theorem has any number.

Deadlock checking is off where the system may stop: a closed session, finished
commands, a returned enumeration or scan.

### Fairness

- Gate: the re-verification timer and the end of the pin-store read. The server
  and the host owe nothing, so the timer alone must settle held calls.
- Server: handlers end (every tool has timeouts), promise callbacks run, what
  has arrived is fed. The client owes neither input nor reading.
- Transport: the feeding of a chunk, the kill timer, the `close` event, and that
  a child dies of SIGKILL and its output arrives. Neither the host nor a live
  server owes anything.
- Sandbox: its timers fire, killed processes end, connections and requests that
  the closing proxy destroys say so. The payload owes nothing.
- Enumeration: continuations and due timers, one by one; never the server.
- Install: the next step of a running installer; npm has a deadline of five
  minutes (`src/install.js:214`) and a scan its own. Beginning is not fair.
- Cache: awaits return and upstream requests end, by their 8 s and 30 s timeouts
  at the latest, except that metadata may stop in mid-body: `FetchHangs` is not
  excluded, and `EveryRequestIsAnswered` excepts those who wait for it. Arrivals
  are not fair.

## 4. What the checks found

Three runs end in a violation, each against a sentence of the repository:

1. `gate_stale_pages`. `_startRevalidation` returns while a round runs and the
   round clears `stale` at its end: a `list_changed` between two pages is lost,
   and calls are decided on pages older than it (`src/mcp-proxy.js:32`, `:621`).
2. `store_lost_decision`. The rename makes a save atomic, not the update: what
   another command saved since the load is overwritten (`src/triage.js:155`).
3. `guard_github`. `README.md:107` offers `github:owner/repo` to `guard`, but
   such a reference has no published integrity value and
   `downloadResolvedPackage` throws for an archive without one
   (`src/quarantine.js:1050`).

## 5. Observations that are not among the runs

The modules also define the properties below, which fail for some constants.
Each can be reproduced by naming it in the cfg given.

| Property | Cfg and change | What happens |
|---|---|---|
| `OwnTrafficStaysInside` | `gate_session` | the late answer of a round that timed out is forwarded to the host (`src/mcp-proxy.js:678`, `:264`) |
| `InstructionsAreAudited` | `gate_session` with `Served <- OnePageInstructions`, `Reinitializes = TRUE`, `ScanResults = FALSE` | a second initialize replaces the instructions, the gate keeps the old verdict (`:278`, `:354`) |
| `ApprovedUnderRecheckedPolicy` | `install_swap` | the policy is edited between two reads and back; reports name the other policy (`src/install.js:169`) |
| `ReportedBackupExists` | `install_faults` | `node_modules` vanishes between `lstat` and `rename`; a backup path is returned for nothing (`src/install.js:230`) |
| `BaselinesWereComputed` | `store_serial` | a decision on a package blocked by the store records a verdict no scan gave (`src/triage.js:432`) |
| `NothingIsAddedOverTheCeiling` | `cache` | metadata is written past the ceiling (`bin/pkgxray-cache.js:498`) |
| `RightContent` | `cache` with `PathOf <- MCFlatPathOf`, `Refs = {a1, a2}` | `release/v1` and `release__v1` share a file; the second is served the first's tarball (`bin/pkgxray-cache.js:149`) |
| `NeverCrashes` | `services` | a server that closes its stdin makes the write fail; the `error` event has no listener (`src/mcp-client.js:460`, `:472`) |
| `DeniedToolsAreStripped` | `gate_pin` | pages before the last are stripped before the pin is looked at, so a tool whose calls are denied for want of a pin, or as drifted, has been shown (`src/mcp-proxy.js:421`, `:448`; `docs/threat-model.md:53` says denied tools are stripped) |
| `ImmediateIsNeverSilent` | `services` | under the permissive policy `npm install a` followed by `npx -y npm:a` runs without a question: the memo is keyed by the reference alone, whether or not it is executed at once (`pkgxrayguard/policy.go:52`) |

Met while translating, and kept in the models as they are:

- **Guard**: the vulnerability query returns "none" without asking for a local
  tree without a name, and is reported as completed. A pinned allow with an
  incomplete dependency scan becomes a review even when the verdict is block.
  `promote --force` deletes the old target before copying. A killed guard leaves
  its workspace. The cached tarball is written in place (readers verify it).
- **Auditor**: an `.npmrc` finding leaves the loop before later targets. A
  finding over two files is attributed to the first that harvests. Four hint
  categories (`credential-export`, `remote-vm-code`, `credential-file-upload`,
  `remote-code-import`) have no grade. The execution graph resolves fewer
  suffixes than the source plan, follows no globs, drops an import it does not
  resolve and has nothing to say of a file it cannot parse, all without a gap:
  its sets are closed only under what it resolves (`GraphIsClosed`). With
  complete coverage the plan makes up for it along imports (`ReachedIsRun`);
  scripts started by a file that does not parse are seen by neither, and leave
  no gap. The byte budget limits what is read of the last file, not what its
  text takes: with invalid UTF-8 the sum can reach three times the budget and a
  marker (`CoverageIsBounded`). Of the URLs of each form only the first is
  looked at for a public address, so a private one hides a public one after it.
  In the grading of a logic bomb an earlier gated deletion hides the corruption
  of a home directory, which is then medium and not high.
- **Comparison**: two files that were both too large, or both over the tree's
  budget, count as matched: the reason stands in the place of both hashes, and
  the reasons are equal. Files of the repository beyond its own budget make the
  package's files extra ones. The lists are cut at 25 files, which can drop the
  very file of a concealed start from what the artifact correlation reads. Paths
  that always differ and skipped directories are not compared even where they
  take part in a concealed start. With a subdirectory and no common path, the
  selective extraction makes no directory and the comparison ends as
  `github-subdir-missing`.
- **MCP server**: overflowing output destroys the input but does not close the
  queue; requests that wait when the session closes get no reply; requests
  without an id get one.
- **Transport**: frames that arrive after the server's `exit` are dropped. A host
  at its end makes a waiting frame end the session with code 1. Output of an
  exited server that was paused and is never read keeps `close`, and so the
  removal of the sandbox, from happening. The child's pipes have no `error`
  listener.
- **Verdict gate**: a look whose save failed is forgotten by a restart, which
  resurrects the older approval. A scan begun before an administrator's recheck
  may bind an allow after it. Of two scans of one package the last to finish
  wins. A crash leaves snapshot directories.
- **Hook**: any exit code of a manifest audit but 2 and 3 is a pass; a guard that
  exits 0 with unreadable output is a pass; wrapping drops redirections; the
  configuration is rewritten in place.
- **Sandbox**: when seeding, starting or a runner throws, the root with its
  decoys stays. A phase that ends normally does not kill its group. A process
  that leaves its group while holding the output open, where no namespace holds
  it, keeps the run from ending. A token beyond the first 64 KiB of a body is
  not seen, and a plain request still open when the proxy destroys it is not
  recorded.
- **Store**: a recheck saves the worse verdict before it prints, and `recheck`
  asks the registry for newer versions in between. Interrupted there, nobody
  hears of the rise, and the next recheck compares with the saved verdict and
  says unchanged (`src/recheck.js:246`, `src/mcp-pin.js:235`).
- **Cache server**: `upstreamGetJson` listens for the body's data and end only.
  A metadata connection closed in mid-body never settles, its entry stays in the
  table, and every later request for that repository waits with it
  (`bin/pkgxray-cache.js:229`, `:200`). A tarball replaced between `stat` and
  `open` is sent under the old length (`:530`, `:572`).
- **Lockfile audit**: a declaration without a version whose name and version are
  already known as a release is dropped. Ranges of `package.json` are queried at
  their lower bound. VCS entries with a version line are queried as releases.
- **Tarballs**: a team-cache download unlinks its file without waiting for the
  stream to close; only its private directory contains the late creation.

## 6. Proofs

Each theorem is of the form `Spec => []P`, `Spec => [][A]_vars` or a refinement,
for every value of the constants that satisfies the module's named assumptions,
which TLC evaluates in every run. Every property of section 3 that is not under
fairness is proved.

- **`McpGateProofs`**. `TypeCorrect`, per action and group of variables.
  `HeldCallsAreWatched` needs `RoundIsWatched`: a round under way is watched
  whether or not calls are held, since a call can join a round begun long before.
  `CallsRoutedOnce` needs `RoutingInv`: where each call is (held, in flight, in
  the pipe to the server or in the pipe back), exactly once; frames about other
  things leave that alone. `RoundsAreWalks` needs `WalkInv`, which follows the
  round's own `tools/list` requests and their answers through both pipes, among
  answers to rounds given up. `VettedBeforeForwarded` is about
  steps: `VettingInv` says that every tool's status is a function of the
  listings in `basis`, so what is forwarded in a step was judged by them. `VerdictsStayCurrent` assumes `OnePageManifests`; the run
  `gate_stale_pages` is what happens without. `FreshInv` orders the frames in the
  server's pipe by their epochs.
- **`GuardProofs`**, the pipeline. `GuardInv`: a guard past verification holds good
  bytes whatever the shared cache holds, since bytes are read once, verified and
  unpacked from memory. `KnownInv` ties the decision to what the guard knew when
  it took it and shows that none of it changes afterwards. Four lemmas about the
  policy operators (`ImmutableBlocks`, `AllowIsCovered`, `OverruledByPin`,
  `PinNamesBytes`) hold for every configuration and set of findings; with them
  `GuardsEarnTheirAllows` follows.
- **`GuardProofs`**, the source audit. `CoverageIsTrue` and `VerdictsHold`, for
  any package, limits, repository and answers of the network, from `ScanInv ==
  CollectionInv /\ GraphInv /\ EvidenceInv`. `CollectionInv` has two loops to
  tame. The worklist: required files only grow, and those whose links were
  followed under other flags than they now have are `Outdated`. The passes: a
  complete collection means that no file is outdated, and this is a counting
  argument (`PassFits`): a file that is still outdated was made an install-time
  file by a pass of its own, so there are at least as many install-time files as
  passes behind it, and the last pass the code allows leaves none. `GraphInv` is
  a worklist's invariant: a file that the graph resolves a link to is a fact,
  waits in the queue, or the graph names the gap. That is less than what the
  package's links lead to; what the graph does not see is among its seeds when
  coverage is complete, because the plan read it as required (`ReachedIsRun`). The verdict's half shows five things.
  `SafeMeansInspected` and `InstallCodeBlocks` follow findings through the
  passes. `DowngradesNeverClear` is about the demotions.
  `ProvenanceNeverOffsets` compares two scans that differ only in provenance:
  with the statement the findings are fewer, all sets of findings are finite (a
  lemma per detector), so counts, caps, grades and verdicts are monotone.
  `DivergenceIsNoNoise` is about the comparison with the repository: a
  difference in a file of a concealed start is in `ExtraSource` or
  `MismatchedSource`, so no noise rule applies, the list of the report names at
  least one such file, and its medium finding is kept by every pass; where the
  repository is known and the artifact alone has the code, the verdict is block.
- **`InstallProofs`**. `InstallsPromoteVetted`, `InstallsKeepTheLastTree` and the
  refinement `InstallsReplaceAtomically`. `PreparedInv` says what an installer
  has established at each await (what was read is what was scanned, what was
  scanned is what npm put in the stage). `SwapInv` says where trees are: one
  installer is live at a time, so nothing else touches `node_modules` between
  the renames; what was moved aside is in a backup; no tree is in two places,
  and none is there that a still unpromoted installer could put there, so that
  moving one never changes the kept ones. Only a promotion then changes the
  abstract state. The refinement assumes that nobody else removes
  `node_modules` (`"removed" \notin Faults`); the two invariants do not.
- **`PinStoreProofs`**. `StoreTypes` and `DecisionsAreMade` hold **with
  overlapping commands**: the lost update of section 4 loses decisions but never
  makes one up. `SerialDecisionsSurvive`, `SerialUnchangedMeansApproved` and
  `SerialAlarmsAreHeard` assume `~Overlap`: `SerialInv` says that the one command
  at work has a copy that differs from the store only by what it decided and
  what it is about to report, before the save and after it.
- **`BoundedQueueProofs`**. `QueueInv` relates the counters to the sequences and
  sets they count, the bytes as a sum over what waits and what executes, which
  no drain changes; it also says that a task waits only when all slots are taken.
  From the exact counters follow the three limits (`LimitsHold`).
  `ServerUsesQueue` is a refinement: the MCP server is the queue plus framing and
  replies, so the queue's theorems hold of it (`ServerCounts`, `ServerSlots`).
  `FramesAreLines` needs `FrameInv`, which says what of the current line has been
  gathered or dropped, wherever the chunks were cut. `RepliesComplete` needs
  `OrderInv` (tasks begin in the order they were accepted) and `ReplyInv`, which
  counts the replies of each id and the errors of overlong lines.
- **`CacheServerProofs`**. `AnswersAreRight` and `DedupExcludes` share one
  invariant: what a fetch carries is of its key, the table and the leaders agree,
  what is on disk is whole, of the key of that file and unscoped. An answer is
  then whole, or of a tarball whose file was replaced between its `stat` and its
  `open`. They assume
  `FilesAreApart`, which the flattened names of section 5 show to be needed;
  `TokensArePrivate` and `CacheStaysBounded` do not. For the last, `CeilingHolds`
  is not inductive, because a client measures the directory long before it
  writes. `CeilingInv` therefore counts the writers: the tarballs on disk and
  their litter, plus one largest tarball for each client in `Taking` (past the
  measurement, or leading a fetch), stay below the ceiling plus what crashes and
  failed writes left plus one largest tarball for each client. Metadata, which the
  code does not measure, is bounded by the files and writers there can be.
- **`ServiceProofs`**, the parts of the run `services`.
  - Sandbox: `NothingIsLost` is the strengthening: what reached the proxy is
    recorded, or its connection is still open and carries it, and evaluation
    waits for these. A plain request counts as having reached the proxy when it
    ended.
  - Tarballs: `FilesAreOwned` says which partial file belongs to which fetch,
    the meter's lemmas that no file takes more than `MaxChunks`,
    `RefsInOrder` that a later candidate was tried only after the earlier ones
    were denied.
  - Verdict gate: `ApprovalInv` says that an entry of the store is the last look
    at its package unless a failed save and a restart lost that look. What is
    delivered was bound to it in the step the theorem is about.
  - Hook: `HookInv` says whom the hook still awaits and that the memo's results
    fit their references, in whatever order the workers finish.
  - Transport: `LaneInv` is `QueueInv` for concurrency 1, with the order of the
    lines; `SessionInv` says that all frames of the lines that came through are
    written, and `FeedInv` which part of the input has arrived.
    `TransportUsesQueue` is a refinement: the transport uses the queue as
    `BoundedQueue` allows, so the queue's theorems hold of it. It needs
    `CountersFit`, that a closed queue is empty: a session closes its queue once
    more when a handler fails after the end, and this must change nothing.
  - Enumeration: `KillPrecedesDeadline` says that the 2 s ceiling is armed only
    with the SIGKILL timer armed or fired; with it `NoServerIsLeft` is
    inductive. `ListInv` says that the awaited id is that of the next page.
  - Lockfile audit: `AuditsFollowEvidence` rests on two facts about folds.
    `ParseIs`: a parsed file has the keys it declares, each once. `KeptIs`: what
    keeps some indices in order keeps each once, where counting finds it; so the
    cursor into the answers, which stands still on what was not asked about, is
    at the dependency's own answer. `ScansInv` then says that the workers take
    each target once and that a target taken is being scanned or has its result;
    `Explained` lists what a decision may rest on, which each scan that ends
    keeps.

What is assumed of the constants, besides types and finiteness: the limits are
natural numbers; names of different kinds are different (a server's record is
no package's, a task is not the id null, the exit is not a line); a package is
well formed (its links and targets are its files); messages are typed; a lockfile
is a sequence of entries in one of the formats the code detects, and a scan ends
in a verdict or fails. The
hypotheses that restrict behaviour are named in the theorems and above:
`OnePageManifests`, `~Overlap`, `FilesAreApart` and `"removed" \notin Faults`;
each has a run or an entry of section 5 that shows what happens without it.

Induction over data is done with sets, in **`FoldTheorems`**, since theorems that
take operators are out of the prover's reach: `Recursion` says of a recursive
function over `1..n` whose steps are given as functions that it is what its
equation says, and `Counting` is the least-number argument. With them the folds
of the source plan, the walks of the graph and of the compared trees, and the
drain loop of the queue are proved about. `FoldExists` does the same for the folds
of the community modules, and with it the lockfile's parser and its filters (the
library's `SelectSeq` hides its recursion, so the model filters by a fold) and the
sums over finite sets: what a sum is without an element, of two sets, of an
injective image, and what bounds it. The cache's sizes and the queue's bytes are
such sums.

Only model-checked:

- everything under fairness (`HeldCallsAreSettled`, `RequestsAreHandled`,
  `InstallsEnd`, `EveryRequestIsAnswered`, `EnumerationEnds`,
  `EndedServersAreGone`, `CanaryRunsEnd`): liveness and ENABLED are out of the
  prover's reach;
- the three violations of section 4, which are counterexamples.

## 7. Not modelled, and why

- How a regular expression matches source text, how a lockfile or an archive
  format is parsed, how URLs and addresses are classified: text processing,
  best tested. The models begin where the code has told the cases apart.
- Version orders, typosquatting distance, provenance: pure functions over
  strings, or informational output outside every verdict.
- Confinement by the operating system (`src/mcp-sandbox.js`, the profiles of the
  sandbox), certificates, resource limits: argument lists without state.
- `bin/audit.js`, HTML, SARIF and other reports, the browser extension (a
  generated bundle of the auditor), the website, benchmark and release scripts.
- Time. Timers, ages and deadlines are events; only their order is kept where
  the code fixes it.
- In the store, the freshness window of baselines, the version-drift pass and
  several pinned versions of one server. In the hook, the splitting of shell
  text and the search of the binary. In the cache, temporary names that collide
  within a millisecond and an operator deleting files.

## 8. Plan

1. Proofs. Facts about the parts that are so far only used by the theorems
   above, where a reader would ask for them by themselves: what a bounded
   queue, an atomic install and a pin store promise to the components they serve
   when faults come in other combinations than the runs have.
2. The pure comparisons: both version orders as total orders over bounded
   versions, the bounded edit distance against its definition.
3. The store's freshness window and version-drift pass in `PinStore`.
4. `bounded-process.js` on its own: output limits racing the exit.
