------------------------------ MODULE Install ------------------------------
(***************************************************************************)
(* The enforced install of src/install.js: installers of one project, the  *)
(* people and tools that edit the project meanwhile, and the operator who  *)
(* clears up after a crash.  Every await of installProject is a step.      *)
(*                                                                         *)
(* Contents are abstracted: a manifest, a lockfile or a policy is a value  *)
(* compared for equality, a tree the set of packages found in it with the  *)
(* receipt written into it.  A package whose files differ from the scanned *)
(* ones, or that nobody asked for, is Foreign.                             *)
(***************************************************************************)
EXTENDS Integers, FiniteSets

CONSTANTS
    Installers,
    Manifests, Lockfiles, Policies,
    Packages, Foreign,
    PackagesOf,     \* the packages a lockfile names
    Optional,       \* the packages every lockfile marks optional
    Consistent,     \* the <<manifest, lockfile>> pairs npm ci accepts
    Reports,        \* what a scan may report
    NoTree, OldTree, NotADirectory,
    Faults,         \* "restore", "cleanup": which file operations may fail there;
                    \* "removed": somebody removes node_modules
    MaxEdits, MaxCrashes

ASSUME InstallAssumption ==
    /\ PackagesOf \in [Lockfiles -> SUBSET Packages]
    /\ Optional \subseteq Packages /\ Foreign \notin Packages
    /\ Consistent \subseteq Manifests \X Lockfiles
    /\ Reports \subseteq [decision : {"allow", "review", "block"}, policy : Policies,
                          complete : BOOLEAN, holds : BOOLEAN, override : BOOLEAN,
                          archive : {"scanned", "changed"}]
    /\ Faults \subseteq {"restore", "cleanup", "removed"}
    /\ MaxEdits \in Nat /\ MaxCrashes \in Nat

VARIABLES
    mutex,                      \* .pkgxray-install.lock exists
    manifest, lockfile, policy, \* the project's files
    target,                     \* node_modules
    backups,                    \* .pkgxray-previous-node_modules-<id> of each installer
    pc,                         \* the await each installer is at
    seen,                       \* the bytes and policies each has read
    approvals,                  \* each one's approvals: packages and reports
    stage,                      \* the packages in each one's private tree
    backupPath,                 \* each one has a backupPath to return
    result,                     \* what each one's promise settled to
    setAside,                   \* history: the last tree moved to a backup and not put back
    edits, crashes              \* counters bounding the environment

files == <<manifest, lockfile, policy>>
own   == <<approvals, stage, backupPath>>
vars  == <<mutex, files, target, backups, pc, seen, own, result, setAside, edits, crashes>>

Trees ==
    [by : Installers, files : SUBSET (Packages \cup {Foreign}),
     manifest : Manifests, lockfile : Lockfiles, policy : Policies,
     approvals : SUBSET (Packages \X Reports)]

ASSUME TreesAssumption == {NoTree, OldTree, NotADirectory} \cap Trees = {}

Nothing == [manifest |-> NoTree, lockfile |-> NoTree, filePolicy |-> NoTree, config |-> NoTree]

\* Before the workspace exists, with it, and the steps of `finally'.
Reading == {"manifest", "lockfile", "filePolicy", "config"}
Working == {"guard", "npm", "verify", "recheckManifest", "recheckLockfile",
            "recheckPolicy", "lstat", "setAside"}
Live    == Reading \cup Working \cup {"promote", "restore", "cleanup", "unlock"}

Init ==
    /\ mutex = FALSE
    /\ manifest \in Manifests /\ lockfile \in Lockfiles /\ policy \in Policies
    /\ <<manifest, lockfile>> \in Consistent
    /\ target \in {NoTree, OldTree, NotADirectory}
    /\ backups = [i \in Installers |-> NoTree]
    /\ pc = [i \in Installers |-> "idle"]
    /\ seen = [i \in Installers |-> Nothing]
    /\ approvals = [i \in Installers |-> {}]
    /\ stage = [i \in Installers |-> {}]
    /\ backupPath = [i \in Installers |-> FALSE]
    /\ result = [i \in Installers |-> "pending"]
    /\ setAside = NoTree
    /\ edits = 0 /\ crashes = 0

----------------------------------------------------------------------------
(* The installer.                                                          *)

GoTo(i, from, to) == pc[i] = from /\ pc' = [pc EXCEPT ![i] = to]

\* mkdir of the lock directory, outside the try: EEXIST ends the call at once.
Begin(i) ==
    /\ GoTo(i, "idle", IF mutex THEN "done" ELSE "manifest")
    /\ mutex' = TRUE
    /\ result' = [result EXCEPT ![i] = IF mutex THEN "excluded" ELSE "pending"]

Mkdir(i) ==
    /\ Begin(i)
    /\ UNCHANGED <<files, target, backups, seen, own, setAside, edits, crashes>>

\* The two files, then the policy for the recheck and again for the scans.
Read(i) ==
    /\ \/ GoTo(i, "manifest", "lockfile") /\ seen' = [seen EXCEPT ![i].manifest = manifest]
       \/ GoTo(i, "lockfile", "filePolicy") /\ seen' = [seen EXCEPT ![i].lockfile = lockfile]
       \/ GoTo(i, "filePolicy", "config") /\ seen' = [seen EXCEPT ![i].filePolicy = policy]
       \/ GoTo(i, "config", "guard") /\ seen' = [seen EXCEPT ![i].config = policy]
    /\ UNCHANGED <<mutex, files, target, backups, own, result, setAside, edits, crashes>>

\* Mutant: a hold of the report is not looked at.
AuthorizesHeld(r, config) ==
    r.decision = "allow" /\ r.policy = config /\ r.complete /\ r.archive = "scanned"
\* receiptAuthorizes, the receipt's policy and the archive's digest.
Authorizes(r, config) ==
    /\ r.decision = "allow" /\ r.policy = config
    /\ r.complete /\ (r.holds => r.override)
    /\ r.archive = "scanned"

Locked(i) == PackagesOf[seen[i].lockfile]
Approved(i) == {a[1] : a \in approvals[i]}

Guard(i) ==
    /\ pc[i] = "guard"
    /\ \E p \in Locked(i) \ Approved(i), r \in Reports :
          /\ Authorizes(r, seen[i].config)
          /\ approvals' = [approvals EXCEPT ![i] = @ \cup {<<p, r>>}]
    /\ UNCHANGED <<mutex, files, target, backups, pc, seen, stage, backupPath, result,
                   setAside, edits, crashes>>

AllApproved(i) ==
    /\ GoTo(i, "guard", "npm")
    /\ Locked(i) \subseteq Approved(i)
    /\ UNCHANGED <<mutex, files, target, backups, seen, own, result, setAside, edits, crashes>>

\* npm ci, whose outcome is only trusted as far as Verify looks.
Npm(i) ==
    /\ GoTo(i, "npm", "verify")
    /\ <<seen[i].manifest, seen[i].lockfile>> \in Consistent
    /\ \E tree \in SUBSET (Locked(i) \cup {Foreign}) : stage' = [stage EXCEPT ![i] = tree]
    /\ UNCHANGED <<mutex, files, target, backups, seen, approvals, backupPath, result,
                   setAside, edits, crashes>>

Verified(tree, packages) ==
    /\ tree \subseteq packages
    /\ packages \ tree \subseteq Optional

Verify(i) ==
    /\ GoTo(i, "verify", "recheckManifest")
    /\ Verified(stage[i], Locked(i))
    /\ UNCHANGED <<mutex, files, target, backups, seen, own, result, setAside, edits, crashes>>

Recheck(i) ==
    /\ \/ GoTo(i, "recheckManifest", "recheckLockfile") /\ manifest = seen[i].manifest
       \/ GoTo(i, "recheckLockfile", "recheckPolicy") /\ lockfile = seen[i].lockfile
       \/ GoTo(i, "recheckPolicy", "lstat") /\ policy = seen[i].filePolicy
    /\ UNCHANGED <<mutex, files, target, backups, seen, own, result, setAside, edits, crashes>>

LstatOverwrites(i) ==
    /\ target # NotADirectory
    /\ GoTo(i, "lstat", "promote")
    /\ UNCHANGED <<mutex, files, target, backups, seen, own, result, setAside, edits, crashes>>
Lstat(i) ==
    /\ target # NotADirectory
    /\ GoTo(i, "lstat", IF target = NoTree THEN "promote" ELSE "setAside")
    /\ backupPath' = [backupPath EXCEPT ![i] = target # NoTree]
    /\ UNCHANGED <<mutex, files, target, backups, seen, approvals, stage, result,
                   setAside, edits, crashes>>

\* Mutant: the old tree is removed, not renamed.
RemoveOld(i) ==
    /\ GoTo(i, "setAside", "promote")
    /\ target' = NoTree
    /\ setAside' = IF target = NoTree THEN setAside ELSE target
    /\ UNCHANGED <<mutex, files, backups, seen, own, result, edits, crashes>>
\* The first rename; ENOENT is swallowed here as at the lstat.
SetAside(i) ==
    /\ GoTo(i, "setAside", "promote")
    /\ target' = NoTree
    /\ backups' = [backups EXCEPT ![i] = target]
    /\ setAside' = IF target = NoTree THEN setAside ELSE target
    /\ UNCHANGED <<mutex, files, seen, own, result, edits, crashes>>

StagedTree(i) ==
    [by |-> i, files |-> stage[i], manifest |-> seen[i].manifest,
     lockfile |-> seen[i].lockfile, policy |-> seen[i].config, approvals |-> approvals[i]]

\* The second rename.
Promote(i) ==
    /\ GoTo(i, "promote", "cleanup")
    /\ target' = StagedTree(i)
    /\ stage' = [stage EXCEPT ![i] = {}]
    /\ result' = [result EXCEPT ![i] = "installed"]
    /\ UNCHANGED <<mutex, files, backups, seen, approvals, backupPath, setAside, edits, crashes>>

PromoteFails(i) ==
    /\ GoTo(i, "promote", IF backupPath[i] THEN "restore" ELSE "cleanup")
    /\ result' = [result EXCEPT ![i] = "failed"]
    /\ UNCHANGED <<mutex, files, target, backups, seen, own, setAside, edits, crashes>>

\* The backup is renamed back.
Rollback(i) ==
    /\ backups[i] # NoTree
    /\ target' = backups[i]
    /\ backups' = [backups EXCEPT ![i] = NoTree]
    /\ setAside' = NoTree

\* Mutant: the rename back is tried until it succeeds.
RestoreRetries(i) ==
    /\ GoTo(i, "restore", "cleanup")
    /\ Rollback(i)
    /\ UNCHANGED <<mutex, files, seen, own, result, edits, crashes>>
Restore(i) ==
    /\ GoTo(i, "restore", "cleanup")
    /\ \/ Rollback(i)
       \/ /\ "restore" \in Faults \/ backups[i] = NoTree
          /\ UNCHANGED <<target, backups, setAside>>
    /\ UNCHANGED <<mutex, files, seen, own, result, edits, crashes>>

\* Any step of the try block may throw; `finally' runs.
Throws(i) ==
    /\ \/ \E s \in Reading : GoTo(i, s, "unlock")
       \/ \E s \in Working : GoTo(i, s, "cleanup")
    /\ result' = [result EXCEPT ![i] = "failed"]
    /\ UNCHANGED <<mutex, files, target, backups, seen, own, setAside, edits, crashes>>

\* rm of the workspace; if it throws, the lock directory is never removed.
Cleanup(i) ==
    /\ \/ /\ GoTo(i, "cleanup", "unlock")
          /\ stage' = [stage EXCEPT ![i] = {}]
          /\ UNCHANGED result
       \/ /\ "cleanup" \in Faults
          /\ GoTo(i, "cleanup", "done")
          /\ result' = [result EXCEPT ![i] = "failed"]
          /\ UNCHANGED stage
    /\ UNCHANGED <<mutex, files, target, backups, seen, approvals, backupPath,
                   setAside, edits, crashes>>

Unlock(i) ==
    /\ GoTo(i, "unlock", "done")
    /\ mutex' = FALSE
    /\ UNCHANGED <<files, target, backups, seen, own, result, setAside, edits, crashes>>

Step(i) ==
    \/ Mkdir(i) \/ Read(i) \/ Guard(i) \/ AllApproved(i) \/ Npm(i) \/ Verify(i) \/ Recheck(i)
    \/ Lstat(i) \/ SetAside(i) \/ Promote(i) \/ PromoteFails(i) \/ Restore(i) \/ Throws(i)
    \/ Cleanup(i) \/ Unlock(i)

----------------------------------------------------------------------------
(* The environment.                                                        *)

Crash(i) ==
    /\ crashes < MaxCrashes /\ crashes' = crashes + 1
    /\ pc[i] \in Live
    /\ pc' = [pc EXCEPT ![i] = "crashed"]
    /\ UNCHANGED <<mutex, files, target, backups, seen, own, result, setAside, edits>>

Edit ==
    /\ edits < MaxEdits /\ edits' = edits + 1
    /\ \/ manifest' \in Manifests \ {manifest} /\ UNCHANGED <<lockfile, policy>>
       \/ lockfile' \in Lockfiles \ {lockfile} /\ UNCHANGED <<manifest, policy>>
       \/ policy' \in Policies \ {policy} /\ UNCHANGED <<manifest, lockfile>>
    /\ UNCHANGED <<mutex, target, backups, pc, seen, own, result, setAside, crashes>>

\* Somebody removes node_modules, at any time.
RemoveTree ==
    /\ "removed" \in Faults
    /\ target # NoTree /\ target' = NoTree
    /\ UNCHANGED <<mutex, files, backups, pc, seen, own, result, setAside, edits, crashes>>

NobodyRuns == \A i \in Installers : pc[i] \notin Live
\* What docs/enforced-install.md asks of the operator after a crash.
ClearLock ==
    /\ NobodyRuns /\ mutex
    /\ mutex' = FALSE
    /\ stage' = [i \in Installers |-> {}]
    /\ UNCHANGED <<files, target, backups, pc, seen, approvals, backupPath, result,
                   setAside, edits, crashes>>
PutBack(i) ==
    /\ NobodyRuns
    /\ target = NoTree /\ backups[i] = setAside
    /\ Rollback(i)
    /\ UNCHANGED <<mutex, files, pc, seen, own, result, edits, crashes>>

Next ==
    \/ \E i \in Installers : Step(i) \/ Crash(i) \/ PutBack(i)
    \/ Edit \/ RemoveTree \/ ClearLock

Spec == Init /\ [][Next]_vars

\* npm has a deadline of five minutes and every scan its own.
FairSpec == Spec /\ \A i \in Installers : WF_vars(Step(i) /\ pc[i] # "idle")

----------------------------------------------------------------------------
(* Properties.                                                             *)

\* A tree an install may put in place: exactly the locked packages but for
\* skipped optional ones, each with a report that allows it under the
\* policy the receipt names (test/install.test.js:82, 98, 145).
Vetted ==
    {t \in Trees :
        /\ t.files \subseteq PackagesOf[t.lockfile]
        /\ PackagesOf[t.lockfile] \ t.files \subseteq Optional
        /\ <<t.manifest, t.lockfile>> \in Consistent
        /\ \A p \in PackagesOf[t.lockfile] : \E a \in t.approvals :
              /\ a[1] = p
              /\ a[2].policy = t.policy /\ a[2].decision = "allow" /\ a[2].complete
              /\ a[2].archive = "scanned" /\ (a[2].override \/ ~a[2].holds)}

\* node_modules is never partial or unvetted: what is there was there before
\* any install or is a vetted tree, and so is every backup.
OnlyVettedTrees ==
    /\ target \in Vetted \cup {NoTree, OldTree, NotADirectory}
    /\ \A i \in Installers : backups[i] \in Vetted \cup {NoTree, OldTree}

\* The tree last moved aside is in some backup for as long as no tree is put
\* back: neither a crash nor a failing operation loses it.
LastTreeSurvives ==
    target = NoTree /\ setAside # NoTree =>
        \E i \in Installers : backups[i] = setAside

\* The policy a tree was approved under is the one on disk at the recheck:
\* an edit of the policy between the reads does not go unnoticed
\* (docs/enforced-install.md:21).
ApprovedUnderRecheckedPolicy ==
    [][\A i \in Installers :
          pc[i] = "recheckPolicy" /\ pc'[i] = "lstat" => seen[i].config = policy]_vars

\* The backup an install reports is there (bin/audit.js:377).
ReportedBackupExists ==
    \A i \in Installers :
        pc[i] = "done" /\ result[i] = "installed" /\ backupPath[i] => backups[i] # NoTree

\* Every install ends, or crashes.
InstallsEnd ==
    \A i \in Installers : pc[i] \in Live ~> pc[i] \in {"done", "crashed"}

\* Refinement: the current tree is node_modules, or the tree moved aside for
\* the swap under way or interrupted; the kept trees are the other backups.
CurrentTree == IF target = NoTree THEN setAside ELSE target
KeptTrees ==
    {backups[i] : i \in Installers} \ {NoTree, IF target = NoTree THEN setAside ELSE NoTree}
Atomic == INSTANCE AtomicInstall
    WITH tree <- CurrentTree, kept <- KeptTrees, Initial <- {NoTree, OldTree, NotADirectory}
ReplacesAtomically == Atomic!Spec
============================================================================
