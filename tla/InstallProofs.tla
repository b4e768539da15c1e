--------------------------- MODULE InstallProofs ---------------------------
(***************************************************************************)
(* What an enforced install (Install) guarantees of node_modules, for any  *)
(* number of installers, packages, edits and crashes.                      *)
(***************************************************************************)
EXTENDS Install, TLAPS

-----------------------------------------------------------------------------
(* What one installer knows on its way to the promotion.                     *)

AfterVerify   == {"recheckManifest", "recheckLockfile", "recheckPolicy", "lstat", "setAside", "promote"}
AfterNpm      == AfterVerify \cup {"verify"}
AfterGuard    == AfterNpm \cup {"npm"}
AfterConfig   == AfterGuard \cup {"guard"}
AfterLockfile == AfterConfig \cup {"filePolicy", "config"}
AfterManifest == AfterLockfile \cup {"lockfile"}
Begun         == AfterManifest \cup {"manifest"}

InstallTypes ==
    /\ manifest \in Manifests /\ lockfile \in Lockfiles /\ policy \in Policies
    /\ pc \in [Installers -> Live \cup {"idle", "done", "crashed"}]
    /\ seen \in [Installers -> [manifest : Manifests \cup {NoTree}, lockfile : Lockfiles \cup {NoTree},
                                filePolicy : Policies \cup {NoTree}, config : Policies \cup {NoTree}]]
    /\ approvals \in [Installers -> SUBSET (Packages \X Reports)]
    /\ stage \in [Installers -> SUBSET (Packages \cup {Foreign})]
    /\ DOMAIN backups = Installers

HasRead(i) ==
    /\ pc[i] \in {"idle", "manifest", "lockfile", "filePolicy", "config"} => approvals[i] = {}
    /\ pc[i] \in AfterManifest => seen[i].manifest \in Manifests
    /\ pc[i] \in AfterLockfile => seen[i].lockfile \in Lockfiles
    /\ pc[i] \in AfterConfig => seen[i].config \in Policies

HasChecked(i) ==
    /\ pc[i] \in AfterConfig => \A a \in approvals[i] : Authorizes(a[2], seen[i].config)
    /\ pc[i] \in AfterGuard => Locked(i) \subseteq Approved(i)
    /\ pc[i] \in AfterNpm => <<seen[i].manifest, seen[i].lockfile>> \in Consistent
    /\ pc[i] \in AfterVerify => Verified(stage[i], Locked(i))

Prepared(i) == HasRead(i) /\ HasChecked(i)
PreparedInv == InstallTypes /\ \A i \in Installers : Prepared(i)

LEMMA PreparedStarts == Init => PreparedInv
  <1> SUFFICES ASSUME Init PROVE PreparedInv
    OBVIOUS
  <1>1. InstallTypes
    BY DEF Init, InstallTypes, Nothing
  <1>2. ASSUME NEW i \in Installers PROVE Prepared(i)
    BY DEF Init, Prepared, HasRead, HasChecked, AfterVerify, AfterNpm, AfterGuard, AfterConfig,
           AfterLockfile, AfterManifest
  <1> QED
    BY <1>1, <1>2 DEF PreparedInv

\* A step that changes nothing an installer knows and moves it back, out or not at all.
Keeps(i) ==
    /\ seen'[i] = seen[i] /\ approvals'[i] = approvals[i]
    /\ \/ pc'[i] = pc[i] /\ stage'[i] = stage[i]
       \/ pc'[i] \notin Begun \cup {"idle"}
       \/ pc'[i] = pc[i] /\ pc[i] \notin AfterVerify

LEMMA KeepsPrepared == ASSUME NEW i \in Installers, Prepared(i), Keeps(i) PROVE Prepared(i)'
  BY DEF Prepared, HasRead, HasChecked, Keeps, Locked, Approved, AfterVerify, AfterNpm, AfterGuard,
         AfterConfig, AfterLockfile, AfterManifest, Begun

LEMMA OneInstaller ==
  ASSUME PreparedInv, InstallTypes', NEW i \in Installers, Prepared(i)',
         \A h \in Installers \ {i} : Keeps(h)
  PROVE  PreparedInv'
  BY KeepsPrepared DEF PreparedInv

LEMMA PreparedSteps ==
  ASSUME PreparedInv, [Next]_vars, InstallTypes'
  PROVE  PreparedInv'
  <1> USE DEF GoTo, files, own
  <1>0. InstallTypes /\ \A i \in Installers : Prepared(i)
    BY DEF PreparedInv
  <1>1. ASSUME NEW i \in Installers,
               \/ Lstat(i) \/ SetAside(i) \/ AllApproved(i) \/ Npm(i) \/ Verify(i) \/ Recheck(i)
        PROVE  PreparedInv'
    <2> USE DEF Lstat, SetAside, AllApproved, Npm, Verify, Recheck
    <2>1. \A h \in Installers \ {i} : Keeps(h)
      BY <1>0, <1>1 DEF InstallTypes, Keeps
    <2>2. HasRead(i)'
      BY <1>0, <1>1 DEF InstallTypes, Prepared, HasRead, AfterVerify, AfterNpm, AfterGuard, AfterConfig,
                        AfterLockfile, AfterManifest
    <2>3. HasChecked(i)'
      BY <1>0, <1>1 DEF InstallTypes, Prepared, HasChecked, Locked, Approved, AfterVerify, AfterNpm,
                        AfterGuard, AfterConfig
    <2> QED
      BY <2>1, <2>2, <2>3, OneInstaller DEF Prepared
  <1>2. ASSUME NEW i \in Installers, Read(i) PROVE PreparedInv'
    <2> USE DEF Read
    <2>1. \A h \in Installers \ {i} : Keeps(h)
      BY <1>0, <1>2 DEF InstallTypes, Keeps
    <2>2. HasRead(i)'
      BY <1>0, <1>2 DEF InstallTypes, Prepared, HasRead, AfterVerify, AfterNpm, AfterGuard, AfterConfig,
                        AfterLockfile, AfterManifest
    <2>3. HasChecked(i)'
      BY <1>0, <1>2 DEF InstallTypes, Prepared, HasRead, HasChecked, AfterVerify, AfterNpm, AfterGuard,
                        AfterConfig, AfterLockfile, AfterManifest
    <2> QED
      BY <2>1, <2>2, <2>3, OneInstaller DEF Prepared
  <1>3. ASSUME NEW i \in Installers, Guard(i) PROVE PreparedInv'
    <2>1. PICK p \in Locked(i) \ Approved(i), r \in Reports :
             /\ Authorizes(r, seen[i].config)
             /\ approvals' = [approvals EXCEPT ![i] = @ \cup {<<p, r>>}]
      BY <1>3 DEF Guard
    <2>2. pc[i] = "guard" /\ UNCHANGED <<pc, seen, stage>>
      BY <1>3 DEF Guard
    <2>3. \A h \in Installers \ {i} : Keeps(h)
      BY <1>0, <2>1, <2>2 DEF InstallTypes, Keeps
    <2>4. HasRead(i)'
      BY <1>0, <2>2 DEF Prepared, HasRead, AfterVerify, AfterNpm, AfterGuard, AfterConfig, AfterLockfile,
                        AfterManifest
    <2>5. \A a \in approvals'[i] : Authorizes(a[2], seen[i].config)
      <3>1. approvals'[i] = approvals[i] \cup {<<p, r>>}
        BY <1>0, <2>1 DEF InstallTypes
      <3>2. \A a \in approvals[i] : Authorizes(a[2], seen[i].config)
        BY <1>0, <2>2 DEF Prepared, HasChecked, AfterConfig
      <3> QED
        BY <2>1, <3>1, <3>2
    <2>6. HasChecked(i)'
      BY <2>2, <2>5 DEF HasChecked, AfterVerify, AfterNpm, AfterGuard
    <2> QED
      BY <2>3, <2>4, <2>6, OneInstaller DEF Prepared
  <1>4. ASSUME NEW i \in Installers, Mkdir(i) PROVE PreparedInv'
    <2> USE DEF Mkdir, Begin
    <2>1. \A h \in Installers \ {i} : Keeps(h)
      BY <1>0, <1>4 DEF InstallTypes, Keeps
    <2>2. Prepared(i)'
      BY <1>0, <1>4 DEF InstallTypes, Prepared, HasRead, HasChecked, AfterVerify, AfterNpm, AfterGuard,
                        AfterConfig, AfterLockfile, AfterManifest
    <2> QED
      BY <2>1, <2>2, OneInstaller
  <1>5. ASSUME NEW i \in Installers,
               \/ Promote(i) \/ PromoteFails(i) \/ Restore(i) \/ Throws(i) \/ Cleanup(i) \/ Unlock(i)
               \/ Crash(i)
        PROVE  PreparedInv'
    <2>1. \A h \in Installers : Keeps(h)
      BY <1>0, <1>5 DEF Promote, PromoteFails, Restore, Throws, Cleanup, Unlock, Crash, Keeps, Begun,
                AfterVerify, AfterNpm, AfterGuard, AfterConfig, AfterLockfile, AfterManifest, InstallTypes
    <2> QED
      BY <1>0, <2>1, KeepsPrepared DEF PreparedInv
  <1>6. CASE (\E i \in Installers : PutBack(i)) \/ Edit \/ RemoveTree \/ UNCHANGED vars
    <2>1. \A h \in Installers : Keeps(h)
      BY <1>6 DEF PutBack, Edit, RemoveTree, vars, Keeps
    <2> QED
      BY <1>0, <2>1, KeepsPrepared DEF PreparedInv
  <1>7. CASE ClearLock
    <2>1. \A h \in Installers : Keeps(h)
      BY <1>7 DEF ClearLock, NobodyRuns, Keeps, Live, Reading, Working, AfterVerify
    <2> QED
      BY <1>0, <2>1, KeepsPrepared DEF PreparedInv
  <1> QED
    BY <1>1, <1>2, <1>3, <1>4, <1>5, <1>6, <1>7 DEF Next, Step

LEMMA TypesSteps == PreparedInv /\ [Next]_vars => InstallTypes'
  <1> SUFFICES ASSUME PreparedInv, [Next]_vars PROVE InstallTypes'
    OBVIOUS
  <1> USE DEF PreparedInv, InstallTypes, GoTo, Live, Reading, Working, files, own
  <1>1. ASSUME NEW i \in Installers, Mkdir(i) \/ Read(i) \/ AllApproved(i) PROVE InstallTypes'
    BY <1>1 DEF Mkdir, Begin, Read, AllApproved
  <1>2. ASSUME NEW i \in Installers, Guard(i) PROVE InstallTypes'
    <2>1. PICK p \in Locked(i), r \in Reports : approvals' = [approvals EXCEPT ![i] = @ \cup {<<p, r>>}]
      BY <1>2 DEF Guard
    <2>2. Locked(i) \subseteq Packages
      <3>1. seen[i].lockfile \in Lockfiles
        BY <1>2 DEF Guard, Prepared, HasRead, AfterLockfile, AfterConfig
      <3> QED
        BY <3>1, InstallAssumption DEF Locked
    <2>3. <<p, r>> \in Packages \X Reports
      BY <2>1, <2>2
    <2> QED
      BY <1>2, <2>1, <2>3 DEF Guard
  <1>3. ASSUME NEW i \in Installers, Npm(i) PROVE InstallTypes'
    <2>1. PICK tree \in SUBSET (Locked(i) \cup {Foreign}) : stage' = [stage EXCEPT ![i] = tree]
      BY <1>3 DEF Npm
    <2>2. Locked(i) \subseteq Packages
      BY <1>3, InstallAssumption DEF Npm, Locked
    <2>3. tree \in SUBSET (Packages \cup {Foreign})
      BY <2>2
    <2> QED
      BY <1>3, <2>1, <2>3 DEF Npm
  <1>4. ASSUME NEW i \in Installers, Verify(i) \/ Recheck(i) \/ Lstat(i) \/ SetAside(i) \/ Promote(i)
        PROVE  InstallTypes'
    BY <1>4 DEF Verify, Recheck, Lstat, SetAside, Promote
  <1>5. ASSUME NEW i \in Installers,
               \/ PromoteFails(i) \/ Restore(i) \/ Throws(i) \/ Cleanup(i) \/ Unlock(i) \/ Crash(i)
               \/ PutBack(i)
        PROVE  InstallTypes'
    BY <1>5 DEF PromoteFails, Restore, Rollback, Throws, Cleanup, Unlock, Crash, PutBack
  <1>6. CASE Edit \/ RemoveTree \/ ClearLock \/ UNCHANGED vars
    BY <1>6 DEF Edit, RemoveTree, ClearLock, vars
  <1> QED
    BY <1>1, <1>2, <1>3, <1>4, <1>5, <1>6 DEF Next, Step

-----------------------------------------------------------------------------
(* What is promoted is vetted.                                               *)

LEMMA StagedIsVetted ==
  ASSUME InstallTypes, NEW i \in Installers, Prepared(i), pc[i] = "promote"
  PROVE  StagedTree(i) \in Vetted /\ StagedTree(i).by = i
  <1> DEFINE t == StagedTree(i)
  <1>1. /\ seen[i].manifest \in Manifests /\ seen[i].lockfile \in Lockfiles /\ seen[i].config \in Policies
    BY DEF Prepared, HasRead, AfterManifest, AfterLockfile, AfterConfig, AfterGuard, AfterNpm, AfterVerify
  <1>2. t \in Trees
    BY <1>1 DEF InstallTypes, StagedTree, Trees
  <1>3. /\ \A a \in approvals[i] : Authorizes(a[2], seen[i].config)
        /\ Locked(i) \subseteq Approved(i)
        /\ <<seen[i].manifest, seen[i].lockfile>> \in Consistent
        /\ Verified(stage[i], Locked(i))
    BY DEF Prepared, HasChecked, AfterConfig, AfterGuard, AfterNpm, AfterVerify
  <1>4. t.files = stage[i] /\ PackagesOf[t.lockfile] = Locked(i) /\ t.policy = seen[i].config
        /\ t.approvals = approvals[i] /\ t.by = i /\ t.manifest = seen[i].manifest /\ t.lockfile = seen[i].lockfile
    BY DEF StagedTree, Locked
  <1>5. ASSUME NEW p \in Locked(i)
        PROVE  \E a \in t.approvals :
                  /\ a[1] = p
                  /\ a[2].policy = t.policy /\ a[2].decision = "allow" /\ a[2].complete
                  /\ a[2].archive = "scanned" /\ (a[2].override \/ ~a[2].holds)
    <2>1. PICK a \in approvals[i] : a[1] = p
      BY <1>3 DEF Approved
    <2> QED
      BY <1>3, <1>4, <2>1 DEF Authorizes
  <1> HIDE DEF t
  <1>6. t \in Vetted
    BY <1>2, <1>3, <1>4, <1>5 DEF Vetted, Verified
  <1> QED
    BY <1>4, <1>6 DEF t

-----------------------------------------------------------------------------
(* Where the trees are: one installer runs at a time, so that between the    *)
(* two renames nothing else touches node_modules; no tree is in two places,  *)
(* so that moving one loses none.                                            *)

Fresh == {"idle"} \cup Reading \cup Working

Exclusion ==
    /\ \A i \in Installers : pc[i] \in Live => mutex
    /\ \A i, j \in Installers : pc[i] \in Live /\ pc[j] \in Live => i = j

\* An installer that has not promoted has moved no tree, and none is its own.
Unspent(i) ==
    /\ pc[i] \in Fresh => backups[i] = NoTree
    /\ pc[i] \in Fresh \cup {"promote"} =>
         \A t \in Vetted : t.by = i => t # target /\ \A j \in Installers : t # backups[j]

Swapping(i) ==
    /\ pc[i] = "setAside" => target \in Vetted \cup {NoTree, OldTree}
    /\ pc[i] \in {"promote", "restore"} => target = NoTree /\ (backups[i] # NoTree => setAside = backups[i])

SetAsideIsKept == setAside # NoTree => \E i \in Installers : backups[i] = setAside

TreesAreApart ==
    \A i \in Installers : backups[i] # NoTree =>
        backups[i] # target /\ \A j \in Installers \ {i} : backups[i] # backups[j]

SwapInv ==
    /\ pc \in [Installers -> Live \cup {"idle", "done", "crashed"}] /\ DOMAIN backups = Installers
    /\ Exclusion /\ OnlyVettedTrees
    /\ \A i \in Installers : Unspent(i) /\ Swapping(i)
    /\ SetAsideIsKept /\ TreesAreApart

LEMMA SwapStarts == Init => SwapInv
  <1> SUFFICES ASSUME Init PROVE SwapInv
    OBVIOUS
  <1>1. \A t \in Vetted : t # NoTree /\ t # OldTree /\ t # NotADirectory
    BY TreesAssumption DEF Vetted
  <1>2. /\ target \in {NoTree, OldTree, NotADirectory} /\ setAside = NoTree
        /\ \A i \in Installers : backups[i] = NoTree /\ pc[i] = "idle"
        /\ DOMAIN backups = Installers /\ pc \in [Installers -> Live \cup {"idle", "done", "crashed"}]
    BY DEF Init
  <1>3. Exclusion /\ \A i \in Installers : Swapping(i)
    BY <1>2 DEF Exclusion, Swapping, Live, Reading, Working
  <1>4. OnlyVettedTrees /\ SetAsideIsKept /\ TreesAreApart
    BY <1>2 DEF OnlyVettedTrees, SetAsideIsKept, TreesAreApart
  <1>5. \A i \in Installers : Unspent(i)
    BY <1>1, <1>2 DEF Unspent
  <1> QED
    BY <1>2, <1>3, <1>4, <1>5 DEF SwapInv

\* A step of an installer that moves no tree.
Advances(i) ==
    /\ UNCHANGED <<mutex, target, backups, setAside>>
    /\ pc' = [pc EXCEPT ![i] = pc'[i]]
    /\ pc'[i] \in Live \cup {"idle", "done", "crashed"}
    /\ pc'[i] \in Live => pc[i] \in Live
    /\ pc'[i] \in Fresh => pc[i] \in Fresh
    /\ pc'[i] = "setAside" => target \in Vetted \cup {NoTree, OldTree}
    /\ pc'[i] = "promote" => pc[i] \in Fresh /\ target = NoTree
    /\ pc'[i] = "restore" => pc[i] = "promote"

LEMMA AdvancesKeep == ASSUME SwapInv, NEW i \in Installers, Advances(i) PROVE SwapInv'
  <1> USE DEF SwapInv, Advances
  <1>1. \A h \in Installers \ {i} : pc'[h] = pc[h]
    OBVIOUS
  <1>2. Exclusion'
    BY <1>1 DEF Exclusion
  <1>3. OnlyVettedTrees' /\ SetAsideIsKept' /\ TreesAreApart'
    BY DEF OnlyVettedTrees, SetAsideIsKept, TreesAreApart
  <1>4. \A h \in Installers : Unspent(h)'
    BY <1>1 DEF Unspent
  <1>5. \A h \in Installers : Swapping(h)'
    BY <1>1 DEF Swapping, Unspent
  <1>6. pc' \in [Installers -> Live \cup {"idle", "done", "crashed"}]
    OBVIOUS
  <1> QED
    BY <1>2, <1>3, <1>4, <1>5, <1>6

LEMMA StepsAdvance ==
  ASSUME SwapInv, NEW i \in Installers,
         \/ Read(i) \/ Guard(i) \/ AllApproved(i) \/ Npm(i) \/ Verify(i) \/ Recheck(i) \/ Lstat(i)
         \/ PromoteFails(i) \/ Throws(i) \/ Cleanup(i) \/ Crash(i)
  PROVE  Advances(i)
  <1> USE DEF GoTo, files, own, SwapInv, Advances, Fresh, Live, Reading, Working
  <1>1. CASE Read(i) \/ Guard(i) \/ AllApproved(i) \/ Npm(i) \/ Verify(i) \/ Recheck(i)
    BY <1>1 DEF Read, Guard, AllApproved, Npm, Verify, Recheck
  <1>2. CASE Lstat(i)
    BY <1>2 DEF Lstat, OnlyVettedTrees
  <1>3. CASE PromoteFails(i) \/ Throws(i) \/ Cleanup(i) \/ Crash(i)
    BY <1>3 DEF PromoteFails, Throws, Cleanup, Crash
  <1> QED
    BY <1>1, <1>2, <1>3

LEMMA MkdirKeeps == ASSUME SwapInv, NEW i \in Installers, Mkdir(i) PROVE SwapInv'
  <1> USE DEF SwapInv
  <1>1. UNCHANGED <<target, backups, setAside>> /\ mutex'
    BY DEF Mkdir, Begin
  <1>2. /\ pc[i] = "idle" /\ \A h \in Installers \ {i} : pc'[h] = pc[h]
        /\ pc'[i] = IF mutex THEN "done" ELSE "manifest"
        /\ pc' \in [Installers -> Live \cup {"idle", "done", "crashed"}]
    BY DEF Mkdir, Begin, GoTo, Live, Reading
  <1>3. Exclusion'
    BY <1>1, <1>2 DEF Exclusion, Live, Reading, Working
  <1>4. OnlyVettedTrees' /\ SetAsideIsKept' /\ TreesAreApart'
    BY <1>1 DEF OnlyVettedTrees, SetAsideIsKept, TreesAreApart
  <1>5. \A h \in Installers : Unspent(h)' /\ Swapping(h)'
    BY <1>1, <1>2 DEF Unspent, Swapping, Fresh, Reading, Working
  <1> QED
    BY <1>1, <1>2, <1>3, <1>4, <1>5

\* Only the installer at work is between the renames.
LEMMA AloneInSwap ==
  ASSUME SwapInv, NEW i \in Installers, pc[i] \in Live
  PROVE  \A h \in Installers \ {i} : pc[h] \notin Live
  BY DEF SwapInv, Exclusion

LEMMA SetAsideKeeps == ASSUME SwapInv, NEW i \in Installers, SetAside(i) PROVE SwapInv'
  <1> USE DEF SwapInv
  <1>1. /\ pc[i] = "setAside" /\ pc' = [pc EXCEPT ![i] = "promote"] /\ UNCHANGED mutex
        /\ target' = NoTree /\ backups' = [backups EXCEPT ![i] = target]
        /\ setAside' = IF target = NoTree THEN setAside ELSE target
    BY DEF SetAside, GoTo
  <1>2. /\ \A h \in Installers \ {i} : pc'[h] = pc[h] /\ backups'[h] = backups[h] /\ pc[h] \notin Live
        /\ pc'[i] = "promote" /\ backups'[i] = target /\ backups[i] = NoTree /\ DOMAIN backups' = Installers
        /\ target \in Vetted \cup {NoTree, OldTree}
    BY <1>1, AloneInSwap DEF Unspent, Swapping, Fresh, Live, Working
  <1>3. Exclusion' /\ pc' \in [Installers -> Live \cup {"idle", "done", "crashed"}]
    BY <1>1, <1>2 DEF Exclusion, Live, Working
  <1>4. OnlyVettedTrees'
    BY <1>1, <1>2 DEF OnlyVettedTrees
  <1>5. SetAsideIsKept' /\ TreesAreApart'
    BY <1>1, <1>2 DEF SetAsideIsKept, TreesAreApart
  <1>6. \A t \in Vetted : t # NoTree
    BY TreesAssumption DEF Vetted
  <1>7. \A h \in Installers : Unspent(h)'
    BY <1>1, <1>2, <1>6 DEF Unspent, Fresh, Reading, Working
  <1>8. \A h \in Installers : Swapping(h)'
    BY <1>1, <1>2 DEF Swapping, Live, Working
  <1> QED
    BY <1>2, <1>3, <1>4, <1>5, <1>7, <1>8

LEMMA PromoteKeeps == ASSUME SwapInv, PreparedInv, NEW i \in Installers, Promote(i) PROVE SwapInv'
  <1> USE DEF SwapInv
  <1>1. /\ pc[i] = "promote" /\ pc' = [pc EXCEPT ![i] = "cleanup"] /\ UNCHANGED <<mutex, backups, setAside>>
        /\ target' = StagedTree(i)
    BY DEF Promote, GoTo
  <1>2. StagedTree(i) \in Vetted /\ StagedTree(i).by = i
    BY <1>1, StagedIsVetted DEF PreparedInv
  <1>3. /\ \A h \in Installers \ {i} : pc'[h] = pc[h] /\ pc[h] \notin Live
        /\ pc'[i] = "cleanup" /\ target = NoTree
    BY <1>1, AloneInSwap DEF Swapping, Live
  <1>4. Exclusion' /\ pc' \in [Installers -> Live \cup {"idle", "done", "crashed"}]
    BY <1>1, <1>3 DEF Exclusion, Live
  <1>5. OnlyVettedTrees' /\ SetAsideIsKept'
    BY <1>1, <1>2 DEF OnlyVettedTrees, SetAsideIsKept
  <1>6. \A j \in Installers : StagedTree(i) # backups[j]
    BY <1>1, <1>2 DEF Unspent
  <1>7. TreesAreApart'
    BY <1>1, <1>6 DEF TreesAreApart
  <1>8. \A h \in Installers : Unspent(h)'
    BY <1>1, <1>2, <1>3 DEF Unspent, Fresh, Reading, Working
  <1>9. \A h \in Installers : Swapping(h)'
    BY <1>1, <1>3 DEF Swapping, Live, Working
  <1> QED
    BY <1>1, <1>4, <1>5, <1>7, <1>8, <1>9

\* A backup is renamed back into the empty place, while nobody else runs.
AloneAt(i) ==
    /\ target = NoTree /\ UNCHANGED mutex
    /\ pc' \in [Installers -> Live \cup {"idle", "done", "crashed"}]
    /\ \A h \in Installers :
          \/ pc'[h] = pc[h] /\ pc[h] \notin Live
          \/ h = i /\ pc[h] \in Live /\ pc'[h] = "cleanup"

LEMMA RollbackKeeps ==
  ASSUME SwapInv, NEW i \in Installers, Rollback(i), AloneAt(i)
  PROVE  SwapInv'
  <1> USE DEF SwapInv, AloneAt
  <1>1. /\ backups[i] # NoTree /\ target' = backups[i] /\ setAside' = NoTree
        /\ backups' = [backups EXCEPT ![i] = NoTree]
    BY DEF Rollback
  <1>2. /\ \A h \in Installers \ {i} : backups'[h] = backups[h]
        /\ backups'[i] = NoTree /\ DOMAIN backups' = Installers
    BY <1>1
  <1>3. Exclusion'
    BY DEF Exclusion, Live
  <1>4. OnlyVettedTrees' /\ SetAsideIsKept'
    BY <1>1, <1>2 DEF OnlyVettedTrees, SetAsideIsKept
  <1>5. TreesAreApart'
    BY <1>1, <1>2 DEF TreesAreApart
  <1>6. \A t \in Vetted : t # NoTree
    BY TreesAssumption DEF Vetted
  <1>7. ASSUME NEW h \in Installers PROVE Unspent(h)'
    <2>1. pc'[h] \in Fresh \cup {"promote"} => pc[h] = pc'[h]
      BY DEF Fresh, Reading, Working
    <2> QED
      BY <1>1, <1>2, <1>6, <2>1 DEF Unspent
  <1>8. \A h \in Installers : Swapping(h)'
    BY DEF Swapping, Live, Working
  <1> QED
    BY <1>2, <1>3, <1>4, <1>5, <1>7, <1>8

LEMMA RestoreKeeps == ASSUME SwapInv, NEW i \in Installers, Restore(i) PROVE SwapInv'
  <1> USE DEF SwapInv
  <1>1. /\ pc[i] = "restore" /\ pc' = [pc EXCEPT ![i] = "cleanup"] /\ UNCHANGED mutex
    BY DEF Restore, GoTo
  <1>2. /\ \A h \in Installers \ {i} : pc'[h] = pc[h] /\ pc[h] \notin Live
        /\ pc[i] \in Live /\ pc'[i] = "cleanup" /\ target = NoTree
        /\ pc' \in [Installers -> Live \cup {"idle", "done", "crashed"}]
    BY <1>1, AloneInSwap DEF Swapping, Live
  <1>3. CASE Rollback(i)
    <2>1. SwapInv /\ AloneAt(i)
      BY <1>1, <1>2 DEF AloneAt
    <2> HIDE DEF SwapInv
    <2> QED
      BY <1>3, <2>1, RollbackKeeps
  <1>4. CASE UNCHANGED <<target, backups, setAside>>
    <2>1. Advances(i)
      BY <1>1, <1>2, <1>4 DEF Advances, Fresh, Reading, Working, Live
    <2> QED
      BY <2>1, AdvancesKeep
  <1> QED
    BY <1>3, <1>4 DEF Restore

LEMMA UnlockKeeps == ASSUME SwapInv, NEW i \in Installers, Unlock(i) PROVE SwapInv'
  <1> USE DEF SwapInv
  <1>1. /\ pc[i] = "unlock" /\ pc' = [pc EXCEPT ![i] = "done"]
        /\ UNCHANGED <<target, backups, setAside>>
    BY DEF Unlock, GoTo
  <1>2. /\ \A h \in Installers \ {i} : pc'[h] = pc[h] /\ pc[h] \notin Live
        /\ pc'[i] = "done"
        /\ pc' \in [Installers -> Live \cup {"idle", "done", "crashed"}]
    BY <1>1, AloneInSwap DEF Live
  <1>3. Exclusion'
    BY <1>2 DEF Exclusion, Live, Reading, Working
  <1>4. OnlyVettedTrees' /\ SetAsideIsKept' /\ TreesAreApart'
    BY <1>1 DEF OnlyVettedTrees, SetAsideIsKept, TreesAreApart
  <1>5. \A h \in Installers : Unspent(h)' /\ Swapping(h)'
    BY <1>1, <1>2 DEF Unspent, Swapping, Fresh, Reading, Working, Live
  <1> QED
    BY <1>1, <1>2, <1>3, <1>4, <1>5

LEMMA SwapSteps == ASSUME PreparedInv, SwapInv, [Next]_vars PROVE SwapInv'
  <1> USE DEF SwapInv
  <1>1. ASSUME NEW i \in Installers,
               \/ Read(i) \/ Guard(i) \/ AllApproved(i) \/ Npm(i) \/ Verify(i) \/ Recheck(i) \/ Lstat(i)
               \/ PromoteFails(i) \/ Throws(i) \/ Cleanup(i) \/ Crash(i)
        PROVE  SwapInv'
    <2>1. Advances(i)
      BY <1>1, StepsAdvance
    <2> QED
      BY <2>1, AdvancesKeep
  <1>2. ASSUME NEW i \in Installers,
               Mkdir(i) \/ SetAside(i) \/ Promote(i) \/ Restore(i) \/ Unlock(i)
        PROVE  SwapInv'
    BY <1>2, MkdirKeeps, SetAsideKeeps, PromoteKeeps, RestoreKeeps, UnlockKeeps
  <1>3. ASSUME NEW i \in Installers, PutBack(i) PROVE SwapInv'
    <2>1. SwapInv /\ Rollback(i) /\ AloneAt(i)
      BY <1>3 DEF PutBack, NobodyRuns, AloneAt
    <2> HIDE DEF SwapInv
    <2> QED
      BY <2>1, RollbackKeeps
  <1>4. CASE Edit \/ UNCHANGED vars
    <2>1. UNCHANGED <<mutex, target, backups, pc, setAside>>
      BY <1>4 DEF Edit, vars
    <2> QED
      BY <2>1 DEF Exclusion, OnlyVettedTrees, Unspent, Swapping, SetAsideIsKept, TreesAreApart
  <1>5. CASE RemoveTree
    <2>1. UNCHANGED <<mutex, backups, pc, setAside>> /\ target' = NoTree
      BY <1>5 DEF RemoveTree
    <2>2. \A t \in Vetted : t # NoTree
      BY TreesAssumption DEF Vetted
    <2>3. Exclusion' /\ OnlyVettedTrees' /\ SetAsideIsKept' /\ TreesAreApart'
      BY <2>1 DEF Exclusion, OnlyVettedTrees, SetAsideIsKept, TreesAreApart
    <2>4. \A i \in Installers : Unspent(i)' /\ Swapping(i)'
      BY <2>1, <2>2 DEF Unspent, Swapping
    <2> QED
      BY <2>1, <2>3, <2>4
  <1>6. CASE ClearLock
    <2>1. UNCHANGED <<target, backups, pc, setAside>> /\ \A i \in Installers : pc[i] \notin Live
      BY <1>6 DEF ClearLock, NobodyRuns
    <2> QED
      BY <2>1 DEF Exclusion, OnlyVettedTrees, Unspent, Swapping, SetAsideIsKept, TreesAreApart
  <1> QED
    BY <1>1, <1>2, <1>3, <1>4, <1>5, <1>6 DEF Next, Step

LEMMA InstallInvariant == Spec => [](PreparedInv /\ SwapInv)
  <1>1. Init => PreparedInv /\ SwapInv
    BY PreparedStarts, SwapStarts
  <1>2. PreparedInv /\ SwapInv /\ [Next]_vars => (PreparedInv /\ SwapInv)'
    BY TypesSteps, PreparedSteps, SwapSteps
  <1> QED
    BY <1>1, <1>2, PTL DEF Spec

\* What is in node_modules, and in every backup the swap keeps, is what was
\* there before any install or a tree whose every locked package a report
\* allows (installProject, src/install.js).
THEOREM InstallsPromoteVetted == Spec => []OnlyVettedTrees
  <1>1. SwapInv => OnlyVettedTrees
    BY DEF SwapInv
  <1> QED
    BY <1>1, InstallInvariant, PTL

\* While node_modules is missing, the tree last moved aside is in a backup,
\* whatever throws, crashes or fails between and after the two renames of
\* src/install.js.
THEOREM InstallsKeepTheLastTree == Spec => []LastTreeSurvives
  <1>1. SwapInv => LastTreeSurvives
    BY DEF SwapInv, SetAsideIsKept, LastTreeSurvives
  <1> QED
    BY <1>1, InstallInvariant, PTL

-----------------------------------------------------------------------------
(* The refinement: only a promotion changes the tree, and keeps the old one. *)

\* The tree at i's backup is put back into the empty place it was moved from.
LEMMA PutBackStutters ==
  ASSUME SwapInv, NEW i \in Installers, Rollback(i), target = NoTree, setAside = backups[i]
  PROVE  UNCHANGED <<CurrentTree, KeptTrees>>
  <1>1. /\ backups[i] # NoTree /\ target' = backups[i] /\ setAside' = NoTree
        /\ backups'[i] = NoTree /\ \A h \in Installers \ {i} : backups'[h] = backups[h]
    BY DEF Rollback, SwapInv
  <1>2. \A h \in Installers \ {i} : backups[h] # backups[i]
    BY <1>1 DEF SwapInv, TreesAreApart
  <1>3. CurrentTree = backups[i] /\ CurrentTree' = backups[i]
    BY <1>1 DEF CurrentTree
  <1>4. KeptTrees = {backups[h] : h \in Installers} \ {NoTree, backups[i]}
    BY DEF KeptTrees
  <1>5. KeptTrees' = {backups'[h] : h \in Installers} \ {NoTree}
    BY <1>1 DEF KeptTrees
  <1>6. {backups'[h] : h \in Installers} \ {NoTree} = {backups[h] : h \in Installers} \ {NoTree, backups[i]}
    <2>1. ASSUME NEW t PROVE t \in {backups'[h] : h \in Installers} \ {NoTree}
                              <=> t \in {backups[h] : h \in Installers} \ {NoTree, backups[i]}
      BY <1>1, <1>2
    <2> QED
      BY <2>1
  <1> QED
    BY <1>3, <1>4, <1>5, <1>6

LEMMA SetAsideStutters ==
  ASSUME SwapInv, NEW i \in Installers, SetAside(i)
  PROVE  UNCHANGED <<CurrentTree, KeptTrees>>
  <1>1. /\ pc[i] = "setAside" /\ target' = NoTree /\ setAside' = IF target = NoTree THEN setAside ELSE target
        /\ backups'[i] = target /\ \A h \in Installers \ {i} : backups'[h] = backups[h]
    BY DEF SetAside, GoTo, SwapInv
  <1>2. backups[i] = NoTree
    BY <1>1 DEF SwapInv, Unspent, Fresh, Working
  <1>3. CurrentTree' = CurrentTree
    BY <1>1 DEF CurrentTree
  <1>4. \A h \in Installers : backups[h] # NoTree => backups[h] # target
    BY DEF SwapInv, TreesAreApart
  <1>5. KeptTrees' = {backups'[h] : h \in Installers} \ {NoTree, setAside'}
    BY <1>1 DEF KeptTrees
  <1>6. KeptTrees = {backups[h] : h \in Installers} \ {NoTree, IF target = NoTree THEN setAside ELSE NoTree}
    BY DEF KeptTrees
  <1>7. ASSUME NEW t PROVE t \in KeptTrees' <=> t \in KeptTrees
    BY <1>1, <1>2, <1>4, <1>5, <1>6
  <1> QED
    BY <1>3, <1>7

LEMMA PromoteReplaces ==
  ASSUME PreparedInv, SwapInv, NEW i \in Installers, Promote(i)
  PROVE  Atomic!Replace
  <1>1. pc[i] = "promote" /\ target' = StagedTree(i) /\ UNCHANGED <<backups, setAside>>
    BY DEF Promote, GoTo
  <1>2. target = NoTree
    BY <1>1 DEF SwapInv, Swapping
  <1>3. target' \in Vetted
    BY <1>1, StagedIsVetted DEF PreparedInv
  <1>4. target' # NoTree
    BY <1>3, TreesAssumption DEF Vetted
  <1>5. CurrentTree = setAside /\ CurrentTree' \in Vetted
    BY <1>2, <1>3, <1>4 DEF CurrentTree
  <1>6. KeptTrees = {backups[h] : h \in Installers} \ {NoTree, setAside}
    BY <1>2 DEF KeptTrees
  <1>7. KeptTrees' = {backups[h] : h \in Installers} \ {NoTree}
    BY <1>1, <1>4 DEF KeptTrees
  <1>8. setAside # NoTree => setAside \in {backups[h] : h \in Installers}
    BY DEF SwapInv, SetAsideIsKept
  <1>9. KeptTrees' = KeptTrees \cup ({CurrentTree} \ {NoTree})
    BY <1>5, <1>6, <1>7, <1>8
  <1> QED
    BY <1>5, <1>9 DEF Atomic!Replace

LEMMA StepsReplace ==
  ASSUME "removed" \notin Faults, PreparedInv, SwapInv, [Next]_vars
  PROVE  Atomic!Replace \/ UNCHANGED <<CurrentTree, KeptTrees>>
  <1>1. ASSUME UNCHANGED <<target, backups, setAside>> PROVE UNCHANGED <<CurrentTree, KeptTrees>>
    BY <1>1 DEF CurrentTree, KeptTrees
  <1>2. ASSUME NEW i \in Installers,
               \/ Read(i) \/ Guard(i) \/ AllApproved(i) \/ Npm(i) \/ Verify(i) \/ Recheck(i) \/ Lstat(i)
               \/ PromoteFails(i) \/ Throws(i) \/ Cleanup(i) \/ Crash(i)
        PROVE  UNCHANGED <<target, backups, setAside>>
    BY <1>2, StepsAdvance DEF Advances
  <1>3. ASSUME NEW i \in Installers, Mkdir(i) \/ Unlock(i) PROVE UNCHANGED <<target, backups, setAside>>
    BY <1>3 DEF Mkdir, Unlock
  <1>4. ASSUME NEW i \in Installers, Restore(i) PROVE UNCHANGED <<CurrentTree, KeptTrees>>
    <2>1. pc[i] = "restore" /\ (Rollback(i) \/ UNCHANGED <<target, backups, setAside>>)
      BY <1>4 DEF Restore, GoTo
    <2>2. target = NoTree /\ (backups[i] # NoTree => setAside = backups[i])
      BY <2>1 DEF SwapInv, Swapping
    <2>3. Rollback(i) => backups[i] # NoTree
      BY DEF Rollback
    <2> QED
      BY <1>1, <2>1, <2>2, <2>3, PutBackStutters
  <1>5. ASSUME NEW i \in Installers, PutBack(i) PROVE UNCHANGED <<CurrentTree, KeptTrees>>
    BY <1>5, PutBackStutters DEF PutBack
  <1>6. CASE Edit \/ ClearLock \/ UNCHANGED vars
    BY <1>1, <1>6 DEF Edit, ClearLock, vars
  <1>7. ~RemoveTree
    BY DEF RemoveTree
  <1> QED
    BY <1>1, <1>2, <1>3, <1>4, <1>5, <1>6, <1>7, SetAsideStutters, PromoteReplaces DEF Next, Step

\* To one who knows where the tree moved aside is, an install replaces
\* node_modules in one step, by a vetted tree, and the tree it replaces is
\* kept: neither a crash between the two renames of src/install.js nor their
\* failure shows anything else.  Nobody else removes node_modules.
THEOREM InstallsReplaceAtomically ==
  ASSUME "removed" \notin Faults PROVE Spec => ReplacesAtomically
  <1>1. Init => Atomic!Init
    BY DEF Init, Atomic!Init, CurrentTree, KeptTrees
  <1>2. PreparedInv /\ SwapInv /\ [Next]_vars => [Atomic!Replace]_<<CurrentTree, KeptTrees>>
    BY StepsReplace
  <1> QED
    BY <1>1, <1>2, InstallInvariant, PTL DEF Spec, ReplacesAtomically, Atomic!Spec
=============================================================================
