----------------------------- MODULE VerdictGate -----------------------------
(***************************************************************************)
(* The scanning registry proxy of examples/pkgxray-proxy: a tarball is     *)
(* downloaded into a private snapshot, the verdict store is asked about    *)
(* these bytes in this context, or else the guard is run on the snapshot,  *)
(* and only then is the snapshot served.  Around it the policy file, the   *)
(* installed guard and the upstream bytes change, entries grow old,        *)
(* administrators recheck the store by name, and the process restarts from *)
(* the file the store was last saved to.                                   *)
(***************************************************************************)
EXTENDS Integers, Sequences, FiniteSets, FiniteSetsExt

CONSTANTS Callers,        \* the requests
          Packages,       \* [name, version]
          Artifacts,      \* contents of a tarball
          Policies,       \* contents of the shared policy file
          Builds,         \* builds of the guard
          Deny,           \* the denylist: [name, version], version "any" for all
          Paths,          \* request paths: [service, name, file], file = <<>> or <<base, version>>
          AdminToken,     \* whether an administrator's token is configured
          Ttl, MaxNow,
          MaxChanges,     \* bound on what happens to policy, guard, upstream and process
          NoBytes

ASSUME VerdictGateAssumption ==
    /\ Ttl \in Nat /\ MaxNow \in Nat /\ MaxChanges \in Nat /\ AdminToken \in BOOLEAN
    /\ NoBytes \notin Artifacts
    /\ {} \notin {Packages, Artifacts, Policies, Builds}
    \* every version of every name may be asked for
    /\ \A p, q \in Packages : [name |-> p.name, version |-> q.version] \in Packages

VARIABLES
    calls,       \* each request: where it is and what it holds
    store,       \* VerdictStore._map
    saved,       \* the file of the store
    snapshots,   \* temporary directories, by the request that made them
    gateConfig,  \* [build, serveReview] of the running proxy
    policy,      \* the policy file now
    cli,         \* the guard installed now
    upstream,    \* the bytes upstream serves now
    clock,
    changes,     \* how often one of them changed
    looked,      \* history: the last completed look at each package
    forgotten    \* history: packages whose last look was lost with the process

gateVars == <<calls, store, saved, snapshots, gateConfig, policy, cli, upstream, clock,
              changes, looked, forgotten>>
world == <<gateConfig, policy, cli, upstream, clock, changes, forgotten>>

Cacheable == {"allow", "review", "block"}
Unbound == [sha |-> NoBytes, context |-> << >>, approval |-> << >>]
NoEntry == [decision |-> "none", at |-> 0, binding |-> Unbound]
NoLook == [kind |-> "none", sha |-> NoBytes, policy |-> "none", build |-> "none",
           decision |-> "none", complete |-> FALSE, at |-> 0]
NoCall == [at |-> "new", pkg |-> CHOOSE p \in Packages : TRUE, sha |-> NoBytes,
           policy |-> "none", during |-> {}, todo |-> {}]

GateInit ==
    /\ calls = [r \in Callers |-> NoCall]
    /\ store = [p \in Packages |-> NoEntry] /\ saved = store
    /\ snapshots = {}
    /\ cli = CHOOSE b \in Builds : TRUE
    /\ gateConfig = [build |-> cli, serveReview |-> TRUE]
    /\ policy = CHOOSE p \in Policies : TRUE
    /\ upstream = CHOOSE a \in Artifacts : TRUE
    /\ clock = 1 /\ changes = 0
    /\ looked = [p \in Packages |-> NoLook] /\ forgotten = {}

----------------------------------------------------------------------------
\* The store.

IsStale(e) == e = NoEntry \/ Ttl = 0 \/ clock - e.at > Ttl

\* set: the map changes, then the file is replaced; the write may fail and throw.
Record(p, decision, binding, persisted) ==
    /\ store' = [store EXCEPT ![p] = [decision |-> decision, at |-> clock, binding |-> binding]]
    /\ saved' = IF persisted THEN store' ELSE saved

\* What is known of p now; the file lags behind a failed write until the next one.
Looks(p, kind, sha, a) ==
    looked' = [looked EXCEPT ![p] = [kind |-> kind, sha |-> sha, policy |-> a.policy,
                  build |-> a.build, decision |-> a.decision, complete |-> a.complete, at |-> clock]]

----------------------------------------------------------------------------
\* The approval of a tarball.

Context(config, pol) == <<config, pol>>

\* The receipt binds the bytes of call c to its package, build, policy and decision.
Bound(a, c, decision) ==
    /\ a # << >> /\ a.complete
    /\ a.sha = c.sha /\ a.pkg = c.pkg
    /\ a.build = gateConfig.build /\ a.policy = c.policy
    /\ a.decision = decision /\ decision \in {"allow", "review"}

\* Mutant: an entry of the same name and version is taken for these bytes.
ValidByName(e, c) ==
    /\ e # NoEntry /\ e.binding # Unbound
    /\ e.binding.context = Context(gateConfig, c.policy)
Valid(e, c) ==
    /\ e # NoEntry
    /\ e.binding.sha = c.sha /\ e.binding.context = Context(gateConfig, c.policy)
    /\ e.decision = "block" \/ Bound(e.binding.approval, c, e.decision)

Serves(decision) == decision = "allow" \/ (decision = "review" /\ gateConfig.serveReview)

Matches(list, p) == \E e \in list : e.name = p.name /\ e.version \in {"any", p.version}

----------------------------------------------------------------------------
\* Requests.

Names == {p.name : p \in Packages}
Versions == {p.version : p \in Packages}
\* A tarball path is canonical if its file is named after its package and version.
IsCanonical(path) ==
    path.name \in Names /\ path.file[1] = path.name /\ path.file[2] \in Versions
ParsePath(path) ==
    IF path.file # << >> THEN "tarball"
    ELSE IF path.service \/ path.name = "" THEN "other" ELSE "metadata"

Ends(r) == calls' = [calls EXCEPT ![r] = [NoCall EXCEPT !.at = "done"]]

Fetch(r, p) ==
    /\ calls' = [calls EXCEPT ![r] = [NoCall EXCEPT !.at = "acquiring", !.pkg = p]]
    /\ snapshots' = snapshots \cup {r}

\* handle and handleTarball up to the download.
Request(r, path, method) ==
    /\ calls[r].at = "new"
    /\ \/ /\ ParsePath(path) = "tarball"
          /\ \/ /\ ~IsCanonical(path) \/ method \notin {"GET", "HEAD"}
                   \/ Matches(Deny, [name |-> path.name, version |-> path.file[2]])
                /\ Ends(r) /\ UNCHANGED snapshots
             \/ /\ IsCanonical(path) /\ method \in {"GET", "HEAD"}
                /\ ~Matches(Deny, [name |-> path.name, version |-> path.file[2]])
                /\ Fetch(r, [name |-> path.name, version |-> path.file[2]])
       \/ /\ ParsePath(path) # "tarball"
          /\ calls' = [calls EXCEPT ![r] = [NoCall EXCEPT !.at = "passing"]]
          /\ UNCHANGED snapshots
    /\ UNCHANGED <<store, saved, looked, world>>

\* Upstream's answer was streamed back, or it was an error before or after its head.
PassThrough(r) ==
    /\ calls[r].at = "passing"
    /\ Ends(r)
    /\ UNCHANGED <<store, saved, snapshots, looked, world>>

Release(r) == snapshots' = snapshots \ {r}

\* Anything but an unencoded answer 200 within the size and time limits.
AcquireFails(r) ==
    /\ calls[r].at = "acquiring"
    /\ Ends(r) /\ Release(r)
    /\ UNCHANGED <<store, saved, looked, world>>

\* The snapshot is complete, the policy is loaded anew and the store asked: gateArtifact up to
\* the guard.
Acquire(r) ==
    LET c == [calls[r] EXCEPT !.sha = upstream, !.policy = policy]
        e == store[c.pkg]
        hit == Valid(e, c) /\ ~IsStale(e)
    IN  /\ calls[r].at = "acquiring"
        /\ \/ /\ hit /\ Serves(e.decision)
              /\ calls' = [calls EXCEPT ![r] = [c EXCEPT !.at = "serving"]] /\ UNCHANGED snapshots
           \/ hit /\ ~Serves(e.decision) /\ Ends(r) /\ Release(r)
           \/ /\ ~hit
              /\ calls' = [calls EXCEPT ![r] = [c EXCEPT !.at = "scanning", !.during = {policy}]]
              /\ UNCHANGED snapshots
        /\ UNCHANGED <<store, saved, looked, world>>

\* The guard cannot be run, is killed at its time limit, or says nothing that can
\* be read, or allows without a receipt.
ScanFails(r) ==
    /\ calls[r].at = "scanning"
    /\ Ends(r) /\ Release(r)
    /\ UNCHANGED <<store, saved, looked, world>>

\* What the guard may report of the snapshot: the policy is one it could read meanwhile.
Receipts(r, decision) ==
    [sha : {calls[r].sha}, pkg : {calls[r].pkg}, build : {cli}, policy : calls[r].during,
     decision : {decision}, complete : BOOLEAN]

BindingOf(r, decision, a) ==
    [sha |-> calls[r].sha, context |-> Context(gateConfig, calls[r].policy),
     approval |-> IF decision = "block" THEN << >> ELSE a]

\* The guard is through: gateArtifact to its end.
ScanEnds(r, decision, a, persisted) ==
    LET kept == decision = "block" \/ Bound(a, calls[r], decision)
        served == persisted /\ kept /\ Serves(decision)
    IN  /\ calls[r].at = "scanning"
        /\ \/ /\ kept
              /\ Record(calls[r].pkg, decision, BindingOf(r, decision, a), persisted)
              /\ Looks(calls[r].pkg, "scan", calls[r].sha, a)
           \/ ~kept /\ persisted /\ UNCHANGED <<store, saved, looked>>
        /\ \/ served /\ calls' = [calls EXCEPT ![r].at = "serving"] /\ UNCHANGED snapshots
           \/ ~served /\ Ends(r) /\ Release(r)
        /\ UNCHANGED world

\* The snapshot went out, or the client went away.
Served(r) ==
    /\ calls[r].at = "serving"
    /\ Ends(r) /\ Release(r)
    /\ UNCHANGED <<store, saved, looked, world>>

----------------------------------------------------------------------------
\* Looks by name and version, which approve nothing.

Authorized(caller) == IF AdminToken THEN caller.token ELSE caller.loopback

Entries == {p \in Packages : store[p] # NoEntry}

Recheck(r, caller, method) ==
    /\ calls[r].at = "new"
    /\ \/ /\ method # "POST" \/ ~Authorized(caller)
          /\ Ends(r)
       \/ /\ method = "POST" /\ Authorized(caller)
          /\ calls' = [calls EXCEPT ![r].at = "rechecking", ![r].todo = Entries]
    /\ UNCHANGED <<store, saved, snapshots, looked, world>>

ByName(d) == [policy |-> "none", build |-> cli, decision |-> d, complete |-> FALSE]

\* A failed look leaves the entry alone; a write that fails ends the round.
RecheckOne(r, p, d, persisted) ==
    /\ calls[r].at = "rechecking" /\ p \in calls[r].todo
    /\ \/ /\ d = "error"
          /\ calls' = [calls EXCEPT ![r].todo = @ \ {p}]
          /\ UNCHANGED <<store, saved, looked>>
       \/ /\ d # "error"
          /\ Record(p, d, Unbound, persisted)
          /\ Looks(p, "name", NoBytes, ByName(d))
          /\ IF persisted THEN calls' = [calls EXCEPT ![r].todo = @ \ {p}] ELSE Ends(r)
    /\ UNCHANGED <<snapshots, world>>

RecheckEnds(r) ==
    /\ calls[r].at = "rechecking" /\ calls[r].todo = {}
    /\ Ends(r)
    /\ UNCHANGED <<store, saved, snapshots, looked, world>>

\* The exported planner `gate', which serves nothing: a fresh entry is mapped as it is.
Plan(r, p) ==
    /\ calls[r].at = "new"
    /\ \/ /\ Matches(Deny, p) \/ ~IsStale(store[p])
          /\ Ends(r)
       \/ /\ ~Matches(Deny, p) /\ IsStale(store[p])
          /\ calls' = [calls EXCEPT ![r].at = "planning", ![r].pkg = p]
    /\ UNCHANGED <<store, saved, snapshots, looked, world>>

\* scanAndDecide: the shared policy may lower what the scan found; a failed scan falls back.
PlanEnds(r, d, persisted) ==
    /\ calls[r].at = "planning"
    /\ \/ d = "error" /\ UNCHANGED <<store, saved, looked>>
       \/ /\ d # "error"
          /\ Record(calls[r].pkg, d, Unbound, persisted)
          /\ Looks(calls[r].pkg, "name", NoBytes, ByName(d))
    /\ Ends(r)
    /\ UNCHANGED <<snapshots, world>>

----------------------------------------------------------------------------
\* The world around the proxy.

Tick == /\ clock < MaxNow /\ clock' = clock + 1
        /\ UNCHANGED <<calls, store, saved, snapshots, gateConfig, policy, cli, upstream,
                       changes, looked, forgotten>>

Changes == changes < MaxChanges /\ changes' = changes + 1

\* A guard that is running may read the old policy or the new one.
EditPolicy(new) ==
    /\ Changes /\ new # policy /\ policy' = new
    /\ calls' = [r \in Callers |-> IF calls[r].at = "scanning"
                                   THEN [calls[r] EXCEPT !.during = @ \cup {new}] ELSE calls[r]]
    /\ UNCHANGED <<store, saved, snapshots, gateConfig, cli, upstream, clock, looked, forgotten>>

Republish(new) ==
    /\ Changes /\ new # upstream /\ upstream' = new
    /\ UNCHANGED <<calls, store, saved, snapshots, gateConfig, policy, cli, clock, looked, forgotten>>

Upgrade(new) ==
    /\ Changes /\ new # cli /\ cli' = new
    /\ UNCHANGED <<calls, store, saved, snapshots, gateConfig, policy, upstream, clock, looked, forgotten>>

\* A new process: its build and review policy may be others, requests are gone, their
\* snapshots left behind.
Restart(serveReview) ==
    /\ Changes
    /\ gateConfig' = [build |-> cli, serveReview |-> serveReview]
    /\ store' = saved
    /\ forgotten' = forgotten \cup {p \in Packages : store[p] # saved[p]}
    /\ calls' = [r \in Callers |-> [NoCall EXCEPT !.at = IF calls[r].at = "new" THEN "new"
                                        ELSE IF r \in snapshots THEN "gone" ELSE "done"]]
    /\ UNCHANGED <<saved, snapshots, policy, cli, upstream, clock, looked>>

Outcomes == Cacheable \cup {"error"}
Persons == [token : BOOLEAN, loopback : BOOLEAN]

GateNext ==
    \/ \E r \in Callers :
         \/ \E path \in Paths, method \in {"GET", "POST"} : Request(r, path, method)
         \/ PassThrough(r) \/ AcquireFails(r) \/ Acquire(r) \/ ScanFails(r) \/ Served(r)
         \/ \E d \in Cacheable : \E a \in Receipts(r, d), persisted \in BOOLEAN :
               ScanEnds(r, d, a, persisted)
         \/ \E caller \in Persons, method \in {"GET", "POST"} : Recheck(r, caller, method)
         \/ \E d \in Outcomes, persisted \in BOOLEAN :
               PlanEnds(r, d, persisted) \/ \E p \in Packages : RecheckOne(r, p, d, persisted)
         \/ RecheckEnds(r)
         \/ \E p \in Packages : Plan(r, p)
    \/ Tick
    \/ \E new \in Policies : EditPolicy(new)
    \/ \E new \in Artifacts : Republish(new)
    \/ \E new \in Builds : Upgrade(new)
    \/ \E serveReview \in BOOLEAN : Restart(serveReview)

GateSpec == GateInit /\ [][GateNext]_gateVars
----------------------------------------------------------------------------
\* What begins to be served was approved by the last completed look at the package: a complete
\* scan of these very bytes, by this build, under the policy the request loaded, no older than
\* the time to live.  No entry by name, no changed byte, policy or build, no recheck and no
\* failed write comes between (artifact-gate.js:68); only a look whose save failed before a
\* restart can be forgotten.
DeliveryIsApproved ==
    [][\A r \in Callers : calls[r].at # "serving" /\ calls'[r].at = "serving" =>
          LET c    == calls'[r]
              look == looked'[c.pkg]
          IN  \/ /\ look.kind = "scan" /\ look.complete /\ look.sha = c.sha
                 /\ look.build = gateConfig.build /\ look.policy = c.policy
                 /\ Serves(look.decision) /\ clock - look.at <= Ttl
              \/ c.pkg \in forgotten]_gateVars

==============================================================================
