--------------------------- MODULE PinStoreProofs ---------------------------
(***************************************************************************)
(* For any packages, servers and processes, overlapping or not, the store  *)
(* is well typed and every decision in it was made by somebody.  If they   *)
(* do not overlap, no decision is lost and a recheck reports what it does  *)
(* unless it is interrupted before its output.                             *)
(*                                                                         *)
(* The second fact needs the copies: whoever is at work holds, of each name*)
(* it has not decided on itself, a decision somebody made.  The first one  *)
(* needs to know which verdicts a process has computed at which step.      *)
(***************************************************************************)
EXTENDS PinStore, TLAPS

Subjects == [server : Servers \cup {NoManifest}, manifest : Manifests \cup {NoManifest}]
Looks    == Verdicts \cup {"none", "unknown"}

StoreOK   == store \in [Names -> Records]
WorldOK   == world \in [Deps -> Verdicts] /\ served \in [Servers -> Manifests]
MineOK    == mine \in [Processes -> [Names -> Records]]
ControlOK ==
    /\ pc \in [Processes -> {"idle", "loaded", "asking", "saving", "saved", "reported", "done"}]
    /\ handled \in [Processes -> SUBSET Deps] /\ decided \in [Processes -> SUBSET Names]
    /\ changes \in 0..MaxChanges
    /\ \A p \in Processes :
          /\ pc[p] = "idle" => handled[p] = {}
          /\ pc[p] \in {"idle", "loaded"} => decided[p] = {}
FreshOK ==
    /\ fresh \in [Processes -> [Deps -> Looks]]
    /\ \A p \in Processes, d \in Deps :
          /\ pc[p] = "asking" => fresh[p][d] \in Verdicts
          /\ pc[p] = "loaded" /\ d \in handled[p] => fresh[p][d] \in Verdicts \cup {"unknown"}
SubjectOK ==
    /\ subject \in [Processes -> Subjects]
    /\ \A p \in Pinners \cup McpRecheckers :
          pc[p] = "loaded" => subject[p].server \in Servers /\ subject[p].manifest \in Manifests
CopiesMade ==
    \A p \in Processes, n \in Names :
        Active(p) /\ n \notin decided[p] => <<n, Human(mine[p][n])>> \in made
StoreMade == DecisionsWereMade

IInv == StoreOK /\ WorldOK /\ MineOK /\ ControlOK /\ FreshOK /\ SubjectOK /\ CopiesMade /\ StoreMade

USE DEF GoTo, Verdicts, Looks

LEMMA RefreshedRecord ==
    ASSUME NEW r \in Records, NEW v \in Verdicts
    PROVE  /\ Refreshed(r, v) \in Records
           /\ Human(Refreshed(r, v)) = Human(r)
  BY DEF Refreshed, Records, Human

LEMMA RefreshedMcpRecord ==
    ASSUME StoreAssumption, NEW r \in Records, NEW m \in Manifests
    PROVE  /\ RefreshedMcp(r, m) \in Records
           /\ Human(RefreshedMcp(r, m)) = Human(r)
  BY DEF RefreshedMcp, Records, Human, StoreAssumption

\* A copy in which one record is replaced.
LEMMA MineUpdated ==
    ASSUME MineOK, NEW p \in Processes, NEW n \in Names, NEW r \in Records,
           mine' = [mine EXCEPT ![p][n] = r]
    PROVE  /\ MineOK'
           /\ mine'[p][n] = r
           /\ \A q \in Processes, o \in Names : <<q, o>> # <<p, n>> => mine'[q][o] = mine[q][o]
  BY DEF MineOK

LEMMA InitIInv == ASSUME StoreAssumption, Init PROVE IInv
  <1>1. StoreOK  BY DEF Init, StoreOK, StoreAssumption
  <1>2. WorldOK  BY DEF Init, WorldOK
  <1>3. MineOK  BY DEF Init, MineOK, Empty, NoRecord, Records
  <1>4. ControlOK  BY DEF Init, ControlOK, StoreAssumption
  <1>5. FreshOK  BY DEF Init, FreshOK, Unheard
  <1>6. SubjectOK  BY DEF Init, SubjectOK, Subjects, Nobody, Processes
  <1>7. CopiesMade  BY DEF Init, CopiesMade, Active
  <1>8. StoreMade  BY DEF Init, StoreMade, DecisionsWereMade
  <1> QED BY <1>1, <1>2, <1>3, <1>4, <1>5, <1>6, <1>7, <1>8 DEF IInv

LEMMA LoadKeeps == ASSUME IInv, NEW p \in Processes, Load(p) PROVE IInv'
  <1>1. UNCHANGED <<store, world, served, fresh, handled, decided, changes, made>>
    BY DEF Load, history
  <1>2. pc[p] = "idle" /\ pc' = [pc EXCEPT ![p] = "loaded"] /\ mine' = [mine EXCEPT ![p] = store]
    BY DEF Load
  <1>3. PICK s \in Servers :
           subject' = [subject EXCEPT ![p] =
              IF p \in Pinners \cup McpRecheckers
              THEN [server |-> s, manifest |-> served[s]] ELSE Nobody]
    BY DEF Load
  <1>4. StoreOK' /\ WorldOK'  BY <1>1 DEF IInv, StoreOK, WorldOK
  <1>5. MineOK'  BY <1>2 DEF IInv, MineOK, StoreOK
  <1>6. ControlOK'  BY <1>1, <1>2 DEF IInv, ControlOK
  <1>7. FreshOK'  BY <1>1, <1>2 DEF IInv, FreshOK, ControlOK
  <1>8. SubjectOK'
    <2>1. served[s] \in Manifests  BY DEF IInv, WorldOK
    <2>2. subject' \in [Processes -> Subjects]
      BY <1>3, <2>1 DEF IInv, SubjectOK, Subjects, Nobody
    <2>3. ASSUME NEW q \in Pinners \cup McpRecheckers, pc'[q] = "loaded"
          PROVE  subject'[q].server \in Servers /\ subject'[q].manifest \in Manifests
      <3>1. q \in Processes  BY DEF Processes
      <3>2. CASE q = p  BY <1>3, <2>1, <3>1, <3>2 DEF IInv, SubjectOK
      <3>3. CASE q # p  BY <1>2, <1>3, <2>3, <3>1, <3>3 DEF IInv, SubjectOK, ControlOK
      <3> QED BY <3>2, <3>3
    <2> QED BY <2>2, <2>3 DEF SubjectOK
  <1>9. CopiesMade'
    BY <1>1, <1>2 DEF IInv, CopiesMade, StoreMade, DecisionsWereMade, MineOK, ControlOK, Active
  <1>10. StoreMade'  BY <1>1 DEF IInv, StoreMade, DecisionsWereMade
  <1> QED BY <1>4, <1>5, <1>6, <1>7, <1>8, <1>9, <1>10 DEF IInv

\* The memory of a process that ends is gone.
LEMMA ExitsKeeps ==
    ASSUME IInv, NEW p \in Processes, Exits(p), made \subseteq made', StoreOK', StoreMade',
           UNCHANGED <<world, served, changes>>
    PROVE  IInv'
  <1>1. WorldOK'  BY DEF IInv, WorldOK
  <1>2. MineOK'  BY DEF Exits, IInv, MineOK, Empty, NoRecord, Records
  <1>3. ControlOK'  BY DEF Exits, IInv, ControlOK
  <1>4. FreshOK'
    <2>1. fresh' \in [Processes -> [Deps -> Looks]]
      BY DEF Exits, IInv, FreshOK, Unheard
    <2>2. \A q \in Processes : q # p => fresh'[q] = fresh[q] /\ pc'[q] = pc[q] /\ handled'[q] = handled[q]
      BY DEF Exits, IInv, FreshOK, ControlOK
    <2>3. pc'[p] = "done"
      BY DEF Exits, IInv, ControlOK
    <2> QED BY <2>1, <2>2, <2>3 DEF IInv, FreshOK
  <1>5. SubjectOK'
    <2>1. subject' \in [Processes -> Subjects]
      BY DEF Exits, IInv, SubjectOK, Subjects, Nobody
    <2>2. \A q \in Processes : q # p => subject'[q] = subject[q] /\ pc'[q] = pc[q]
      BY DEF Exits, IInv, SubjectOK, ControlOK
    <2>3. pc'[p] = "done"
      BY DEF Exits, IInv, ControlOK
    <2> QED BY <2>1, <2>2, <2>3 DEF IInv, SubjectOK, Processes
  <1>6. CopiesMade'
    BY DEF Exits, IInv, CopiesMade, MineOK, ControlOK, Active
  <1> QED BY <1>1, <1>2, <1>3, <1>4, <1>5, <1>6 DEF IInv

LEMMA GivesUpKeeps == ASSUME IInv, NEW p \in Processes, GivesUp(p) \/ Outputs(p) PROVE IInv'
  <1>1. Exits(p) /\ UNCHANGED <<store, world, served, changes, made>>
    BY DEF GivesUp, Outputs
  <1>2. StoreOK' /\ StoreMade'
    BY <1>1 DEF IInv, StoreOK, StoreMade, DecisionsWereMade
  <1> QED BY <1>1, <1>2, ExitsKeeps

\* What a process did not decide was decided already, what it did is now.
LEMMA SaveKeeps == ASSUME IInv, NEW p \in Processes, Save(p) PROVE IInv'
  <1>1. store' = mine[p] /\ made' = made \cup {<<n, Human(mine[p][n])>> : n \in decided[p]}
    BY DEF Save
  <1>2. pc[p] \in {"asking", "saving"} /\ pc' = [pc EXCEPT ![p] = "saved"] /\ Active(p)
    BY DEF Save, Active
  <1>3. UNCHANGED <<world, served, mine, fresh, subject, handled, decided, changes>>
    BY DEF Save, local
  <1>4. StoreOK'  BY <1>1 DEF IInv, StoreOK, MineOK
  <1>5. StoreMade'
    BY <1>1, <1>2 DEF IInv, StoreMade, DecisionsWereMade, CopiesMade
  <1>6. WorldOK' /\ MineOK'  BY <1>3 DEF IInv, WorldOK, MineOK
  <1>7. ControlOK'  BY <1>2, <1>3 DEF IInv, ControlOK
  <1>8. FreshOK'  BY <1>2, <1>3 DEF IInv, FreshOK, ControlOK
  <1>9. SubjectOK'  BY <1>2, <1>3 DEF IInv, SubjectOK, ControlOK, Processes
  <1>10. CopiesMade'  BY <1>1, <1>2, <1>3 DEF IInv, CopiesMade, Active, ControlOK
  <1> QED BY <1>4, <1>5, <1>6, <1>7, <1>8, <1>9, <1>10 DEF IInv

-----------------------------------------------------------------------------
(* The work of each command *)

LEMMA AuditKeeps == ASSUME IInv, NEW p \in Processes, Audit(p) PROVE IInv'
  <1> DEFINE looks == [d \in Deps |-> TriageVerdict(p, d)]
  <1>1. UNCHANGED <<store, world, served, mine, subject, decided, changes, made>>
    BY DEF Audit
  <1>2. pc[p] = "loaded" /\ pc' = [pc EXCEPT ![p] = "asking"] /\ fresh' = [fresh EXCEPT ![p] = looks]
    BY DEF Audit
  <1>3. handled' \in [Processes -> SUBSET Deps]
    BY DEF Audit, IInv, ControlOK
  <1>4. looks \in [Deps -> Verdicts]
    BY DEF IInv, WorldOK, TriageVerdict
  <1> HIDE DEF looks
  <1>5. StoreOK' /\ WorldOK' /\ MineOK'  BY <1>1 DEF IInv, StoreOK, WorldOK, MineOK
  <1>6. ControlOK'
    BY <1>1, <1>2, <1>3 DEF Audit, IInv, ControlOK
  <1>7. FreshOK'
    <2>1. fresh' \in [Processes -> [Deps -> Looks]]
      BY <1>2, <1>4 DEF IInv, FreshOK
    <2>2. \A q \in Processes : q # p => fresh'[q] = fresh[q] /\ pc'[q] = pc[q] /\ handled'[q] = handled[q]
      BY <1>2 DEF Audit, IInv, FreshOK, ControlOK
    <2>3. fresh'[p] = looks /\ pc'[p] = "asking"
      BY <1>2 DEF IInv, FreshOK, ControlOK
    <2> QED BY <2>1, <2>2, <2>3, <1>4 DEF IInv, FreshOK
  <1>8. SubjectOK'  BY <1>1, <1>2 DEF IInv, SubjectOK, ControlOK, Processes
  <1>9. CopiesMade'  BY <1>1, <1>2 DEF IInv, CopiesMade, Active, ControlOK
  <1>10. StoreMade'  BY <1>1 DEF IInv, StoreMade, DecisionsWereMade
  <1> QED BY <1>5, <1>6, <1>7, <1>8, <1>9, <1>10 DEF IInv

LEMMA DecideKeeps == ASSUME StoreAssumption, IInv, NEW p \in Processes, Decide(p) PROVE IInv'
  <1>1. UNCHANGED <<store, world, served, pc, fresh, subject, changes, made>>
    BY DEF Decide, history
  <1>2. pc[p] = "asking"
    BY DEF Decide
  <1>3. PICK d \in Deps \ handled[p], choice \in {"allow", "block", "skip"} :
           /\ handled' = [handled EXCEPT ![p] = @ \cup {d}]
           /\ \/ choice = "skip" /\ UNCHANGED <<mine, decided>>
              \/ /\ choice # "skip"
                 /\ decided' = [decided EXCEPT ![p] = @ \cup {d}]
                 /\ mine' = [mine EXCEPT ![p][d] =
                       [decision |-> choice, verdict |-> fresh[p][d],
                        checked |-> TRUE, manifest |-> NoManifest]]
    BY DEF Decide
  <1>4. StoreOK' /\ WorldOK'  BY <1>1 DEF IInv, StoreOK, WorldOK
  <1>5. fresh[p][d] \in Verdicts
    BY <1>2 DEF IInv, FreshOK
  <1>6. d \in Names
    BY DEF Names
  <1>7. MineOK'
    <2>1. CASE UNCHANGED mine
      BY <2>1 DEF IInv, MineOK
    <2>2. CASE choice # "skip" /\ mine' = [mine EXCEPT ![p][d] =
                 [decision |-> choice, verdict |-> fresh[p][d],
                  checked |-> TRUE, manifest |-> NoManifest]]
      <3>1. [decision |-> choice, verdict |-> fresh[p][d],
             checked |-> TRUE, manifest |-> NoManifest] \in Records
        BY <1>5, <2>2 DEF Records
      <3> QED BY <1>6, <2>2, <3>1, MineUpdated DEF IInv
    <2> QED BY <1>3, <2>1, <2>2
  <1>8. ControlOK'
    <2>1. handled' \in [Processes -> SUBSET Deps]
      BY <1>3 DEF IInv, ControlOK
    <2>2. decided' \in [Processes -> SUBSET Names]
      BY <1>3, <1>6 DEF IInv, ControlOK
    <2>3. \A q \in Processes : q # p => handled'[q] = handled[q] /\ decided'[q] = decided[q]
      BY <1>3 DEF IInv, ControlOK
    <2> QED BY <1>1, <1>2, <2>1, <2>2, <2>3 DEF IInv, ControlOK
  <1>9. FreshOK'
    <2>1. \A q \in Processes : q # p => handled'[q] = handled[q]
      BY <1>3 DEF IInv, ControlOK
    <2> QED BY <1>1, <1>2, <2>1 DEF IInv, FreshOK
  <1>10. SubjectOK'  BY <1>1 DEF IInv, SubjectOK
  <1>11. CopiesMade'
    <2>1. ASSUME NEW q \in Processes, NEW n \in Names, Active(q)', n \notin decided'[q]
          PROVE  <<n, Human(mine'[q][n])>> \in made
      <3>1. Active(q)
        BY <1>1, <2>1 DEF Active
      <3>2. n \notin decided[q] /\ mine'[q][n] = mine[q][n]
        BY <1>3, <2>1 DEF IInv, MineOK, ControlOK
      <3> QED BY <3>1, <3>2 DEF IInv, CopiesMade
    <2> QED BY <1>1, <2>1 DEF CopiesMade, Human
  <1>12. StoreMade'  BY <1>1 DEF IInv, StoreMade, DecisionsWereMade
  <1> QED BY <1>4, <1>7, <1>8, <1>9, <1>10, <1>11, <1>12 DEF IInv

LEMMA EvaluateKeeps == ASSUME IInv, NEW p \in Processes, Evaluate(p) PROVE IInv'
  <1>1. UNCHANGED <<store, world, served, pc, mine, subject, decided, changes, made>>
    BY DEF Evaluate
  <1>2. pc[p] = "loaded"
    BY DEF Evaluate
  <1>3. PICK d \in Deps \ handled[p], v \in Verdicts \cup {"unknown"} :
           /\ handled' = [handled EXCEPT ![p] = @ \cup {d}]
           /\ fresh' = [fresh EXCEPT ![p][d] = v]
    BY DEF Evaluate, IInv, WorldOK
  <1>4. StoreOK' /\ WorldOK' /\ MineOK'  BY <1>1 DEF IInv, StoreOK, WorldOK, MineOK
  <1>5. ControlOK'
    BY <1>1, <1>2, <1>3 DEF IInv, ControlOK
  <1>6. FreshOK'
    <2>1. fresh' \in [Processes -> [Deps -> Looks]]
      BY <1>3 DEF IInv, FreshOK
    <2>2. \A q \in Processes : q # p => fresh'[q] = fresh[q] /\ handled'[q] = handled[q]
      BY <1>3 DEF IInv, FreshOK, ControlOK
    <2>3. /\ handled'[p] = handled[p] \cup {d} /\ fresh'[p][d] = v
          /\ \A e \in Deps : e # d => fresh'[p][e] = fresh[p][e]
      BY <1>3 DEF IInv, FreshOK, ControlOK
    <2>4. pc'[p] # "asking"
      BY <1>1, <1>2
    <2>5. ASSUME NEW e \in Deps
          PROVE  e \in handled'[p] => fresh'[p][e] \in Verdicts \cup {"unknown"}
      BY <2>3, <1>2 DEF IInv, FreshOK
    <2> QED BY <1>1, <2>1, <2>2, <2>4, <2>5 DEF IInv, FreshOK
  <1>7. SubjectOK'  BY <1>1 DEF IInv, SubjectOK
  <1>8. CopiesMade'  BY <1>1 DEF IInv, CopiesMade, Active
  <1>9. StoreMade'  BY <1>1 DEF IInv, StoreMade, DecisionsWereMade
  <1> QED BY <1>4, <1>5, <1>6, <1>7, <1>8, <1>9 DEF IInv

LEMMA RecheckSavesKeeps == ASSUME StoreAssumption, IInv, NEW p \in Processes, RecheckSaves(p) PROVE IInv'
  <1> DEFINE copy == [n \in Names |-> IF n \in Reevaluated(p) THEN Refreshed(mine[p][n], fresh[p][n])
                                      ELSE mine[p][n]]
  <1>1. UNCHANGED <<store, world, served, fresh, subject, handled, decided, changes, made>>
    BY DEF RecheckSaves, history
  <1>2. pc[p] = "loaded" /\ pc' = [pc EXCEPT ![p] = "saving"] /\ handled[p] = Deps
        /\ mine' = [mine EXCEPT ![p] = copy]
    BY DEF RecheckSaves
  <1>3. ASSUME NEW n \in Names
        PROVE  copy[n] \in Records /\ Human(copy[n]) = Human(mine[p][n])
    <2>1. mine[p][n] \in Records
      BY DEF IInv, MineOK
    <2>2. n \in Reevaluated(p) => fresh[p][n] \in Verdicts
      BY <1>2 DEF Reevaluated, IInv, FreshOK
    <2> QED BY <2>1, <2>2, RefreshedRecord
  <1>a. copy \in [Names -> Records]
    BY <1>3
  <1> HIDE DEF copy
  <1>4. StoreOK' /\ WorldOK'  BY <1>1 DEF IInv, StoreOK, WorldOK
  <1>5. MineOK'  BY <1>2, <1>a DEF IInv, MineOK
  <1>6. ControlOK'  BY <1>1, <1>2 DEF IInv, ControlOK
  <1>7. FreshOK'  BY <1>1, <1>2 DEF IInv, FreshOK, ControlOK
  <1>8. SubjectOK'  BY <1>1, <1>2 DEF IInv, SubjectOK, ControlOK, Processes
  <1>9. CopiesMade'
    <2>1. \A q \in Processes, n \in Names : Human(mine'[q][n]) = Human(mine[q][n])
      BY <1>2, <1>3 DEF IInv, MineOK
    <2>2. \A q \in Processes : Active(q)' => Active(q)
      BY <1>2 DEF Active, IInv, ControlOK
    <2>3. \A q \in Processes, n \in Names : Human(mine[q][n])' = Human(mine'[q][n])
      BY DEF Human
    <2> QED BY <1>1, <2>1, <2>2, <2>3 DEF IInv, CopiesMade
  <1>10. StoreMade'  BY <1>1 DEF IInv, StoreMade, DecisionsWereMade
  <1> QED BY <1>4, <1>5, <1>6, <1>7, <1>8, <1>9, <1>10 DEF IInv

\* Only the process's step changes.
LEMMA ReportsOnlyKeeps ==
    ASSUME IInv, NEW p \in Processes, pc[p] = "loaded", pc' = [pc EXCEPT ![p] = "reported"],
           UNCHANGED <<store, world, served, mine, fresh, subject, handled, decided, changes, made>>
    PROVE  IInv'
  <1>1. StoreOK' /\ WorldOK' /\ MineOK'  BY DEF IInv, StoreOK, WorldOK, MineOK
  <1>2. ControlOK'  BY DEF IInv, ControlOK
  <1>3. FreshOK'  BY DEF IInv, FreshOK, ControlOK
  <1>4. SubjectOK'  BY DEF IInv, SubjectOK, ControlOK, Processes
  <1>5. CopiesMade'  BY DEF IInv, CopiesMade, Active, ControlOK
  <1>6. StoreMade'  BY DEF IInv, StoreMade, DecisionsWereMade
  <1> QED BY <1>1, <1>2, <1>3, <1>4, <1>5, <1>6 DEF IInv

LEMMA RecheckReportsKeeps ==
    ASSUME IInv, NEW p \in Processes, RecheckReports(p) PROVE IInv'
  BY ReportsOnlyKeeps DEF RecheckReports, local, history

\* --pin decides on its server, so nothing is asked of the new record.
LEMMA PinKeeps == ASSUME StoreAssumption, IInv, NEW p \in Processes, Pin(p) PROVE IInv'
  <1>1. UNCHANGED <<store, world, served, fresh, subject, handled, changes, made>>
    BY DEF Pin
  <1>s. PICK s \in Names, m \in Manifests : s = subject[p].server /\ m = subject[p].manifest
    BY DEF Pin, IInv, SubjectOK, Names
  <1> DEFINE v == AuditVerdict[m]
  <1> DEFINE choice == IF v = "block" THEN "block" ELSE "allow"
  <1>3. PICK r \in Records : r = [decision |-> choice, verdict |-> v, checked |-> TRUE, manifest |-> m]
    <2>1. v \in Verdicts
      BY DEF StoreAssumption
    <2>2. choice \in {"allow", "block", "none"}
      OBVIOUS
    <2> HIDE DEF choice, v
    <2> QED BY <2>1, <2>2 DEF Records
  <1>2. pc[p] = "loaded" /\ pc' = [pc EXCEPT ![p] = "saving"]
        /\ mine' = [mine EXCEPT ![p][s] = r] /\ decided' = [decided EXCEPT ![p] = {s}]
    BY <1>s, <1>3 DEF Pin
  <1>5. MineOK' /\ \A q \in Processes, n \in Names : <<q, n>> # <<p, s>> => mine'[q][n] = mine[q][n]
    <2>1. MineOK /\ mine' = [mine EXCEPT ![p][s] = r] /\ s \in Names /\ r \in Records
      BY <1>2, <1>s, <1>3 DEF IInv
    <2>2. MineOK'
      BY <2>1 DEF MineOK
    <2>3. \A q \in Processes, n \in Names : <<q, n>> # <<p, s>> => mine'[q][n] = mine[q][n]
      BY <2>1 DEF MineOK
    <2> QED BY <2>2, <2>3
  <1>6. StoreOK' /\ WorldOK'  BY <1>1 DEF IInv, StoreOK, WorldOK
  <1>7. ControlOK'  BY <1>1, <1>2 DEF IInv, ControlOK
  <1>8. FreshOK'  BY <1>1, <1>2 DEF IInv, FreshOK, ControlOK
  <1>9. SubjectOK'  BY <1>1, <1>2 DEF IInv, SubjectOK, ControlOK, Processes
  <1>10. CopiesMade'
    <2>1. decided[p] = {} /\ Active(p)
      BY <1>2 DEF IInv, ControlOK, Active
    <2>2. ASSUME NEW q \in Processes, NEW n \in Names, Active(q)', n \notin decided'[q]
          PROVE  <<n, Human(mine'[q][n])>> \in made
      <3>1. <<q, n>> # <<p, s>> /\ mine'[q][n] = mine[q][n]
        BY <1>2, <1>5, <2>2 DEF IInv, ControlOK
      <3>2. Active(q) /\ n \notin decided[q]
        BY <1>2, <2>1, <2>2 DEF Active, IInv, ControlOK
      <3> QED BY <3>1, <3>2 DEF IInv, CopiesMade
    <2> QED BY <1>1, <2>2 DEF CopiesMade, Human
  <1>11. StoreMade'  BY <1>1 DEF IInv, StoreMade, DecisionsWereMade
  <1> QED BY <1>5, <1>6, <1>7, <1>8, <1>9, <1>10, <1>11 DEF IInv

LEMMA McpRefreshKeeps ==
    ASSUME StoreAssumption, IInv, NEW p \in Processes, McpRecheck(p), pc'[p] # "reported" PROVE IInv'
  <1>1. UNCHANGED <<store, world, served, fresh, subject, handled, decided, changes, made>>
    BY DEF McpRecheck
  <1>2. PICK s \in Names, m \in Manifests : s = subject[p].server /\ m = subject[p].manifest
    BY DEF McpRecheck, IInv, SubjectOK, Names
  <1>3. mine[p][s] \in Records
    BY DEF IInv, MineOK
  <1>4. PICK r \in Records : r = RefreshedMcp(mine[p][s], m) /\ Human(r) = Human(mine[p][s])
    BY <1>3, RefreshedMcpRecord
  <1>5. pc[p] = "loaded" /\ pc' = [pc EXCEPT ![p] = "saving"]
        /\ mine' = [mine EXCEPT ![p][subject[p].server] = RefreshedMcp(@, subject[p].manifest)]
    BY DEF McpRecheck, IInv, ControlOK
  <1>6. mine' = [mine EXCEPT ![p][s] = r]
    BY <1>2, <1>4, <1>5
  <1>7. /\ MineOK'
        /\ mine'[p][s] = r
        /\ \A q \in Processes, n \in Names : <<q, n>> # <<p, s>> => mine'[q][n] = mine[q][n]
    <2>1. MineOK /\ mine' = [mine EXCEPT ![p][s] = r] /\ s \in Names /\ r \in Records
      BY <1>2, <1>4, <1>6 DEF IInv
    <2>2. MineOK' /\ mine'[p][s] = r
      BY <2>1 DEF MineOK
    <2>3. \A q \in Processes, n \in Names : <<q, n>> # <<p, s>> => mine'[q][n] = mine[q][n]
      BY <2>1 DEF MineOK
    <2> QED BY <2>2, <2>3
  <1>8. StoreOK' /\ WorldOK'  BY <1>1 DEF IInv, StoreOK, WorldOK
  <1>9. ControlOK'  BY <1>1, <1>5 DEF IInv, ControlOK
  <1>10. FreshOK'  BY <1>1, <1>5 DEF IInv, FreshOK, ControlOK
  <1>11. SubjectOK'  BY <1>1, <1>5 DEF IInv, SubjectOK, ControlOK, Processes
  <1>12. CopiesMade'
    <2>1. ASSUME NEW q \in Processes, NEW n \in Names, Active(q)', n \notin decided'[q]
          PROVE  <<n, Human(mine'[q][n])>> \in made
      <3>1. Active(q) /\ n \notin decided[q]
        BY <1>1, <1>5, <2>1 DEF Active, IInv, ControlOK
      <3>2. Human(mine'[q][n]) = Human(mine[q][n])
        BY <1>4, <1>7
      <3> QED BY <3>1, <3>2 DEF IInv, CopiesMade
    <2> QED BY <1>1, <2>1 DEF CopiesMade, Human
  <1>13. StoreMade'  BY <1>1 DEF IInv, StoreMade, DecisionsWereMade
  <1> QED BY <1>7, <1>8, <1>9, <1>10, <1>11, <1>12, <1>13 DEF IInv

LEMMA McpRecheckKeeps ==
    ASSUME StoreAssumption, IInv, NEW p \in Processes, McpRecheck(p) PROVE IInv'
  <1>1. CASE pc'[p] # "reported"  BY <1>1, McpRefreshKeeps
  <1>2. CASE pc'[p] = "reported"
    <2>1. pc[p] = "loaded" /\ pc' = [pc EXCEPT ![p] = "reported"] /\ UNCHANGED mine
      BY <1>2 DEF McpRecheck, IInv, ControlOK
    <2> QED BY <2>1, ReportsOnlyKeeps DEF McpRecheck
  <1> QED BY <1>1, <1>2

LEMMA McpNoBaselineKeeps == ASSUME IInv, NEW p \in Processes, McpNoBaseline(p) PROVE IInv'
  BY ReportsOnlyKeeps DEF McpNoBaseline, history

\* The world outside, and stuttering, leave the processes alone.
LEMMA OutsideKeeps ==
    ASSUME IInv, WorldOK', changes' \in 0..MaxChanges,
           UNCHANGED <<store, pc, mine, fresh, subject, handled, decided, made>>
    PROVE  IInv'
  <1>1. StoreOK' /\ MineOK' /\ ControlOK'  BY DEF IInv, StoreOK, MineOK, ControlOK
  <1>2. FreshOK' /\ SubjectOK'  BY DEF IInv, FreshOK, SubjectOK
  <1>3. CopiesMade' /\ StoreMade'  BY DEF IInv, CopiesMade, Active, StoreMade, DecisionsWereMade
  <1> QED BY <1>1, <1>2, <1>3 DEF IInv

-----------------------------------------------------------------------------
LEMMA NextIInv == ASSUME StoreAssumption, IInv, [Next]_vars PROVE IInv'
  <1>1. ASSUME NEW p \in Processes, Load(p) PROVE IInv'  BY <1>1, LoadKeeps
  <1>2. ASSUME NEW p \in Processes, GivesUp(p) \/ Outputs(p) PROVE IInv'  BY <1>2, GivesUpKeeps
  <1>3. ASSUME NEW p \in Processes, Audit(p) PROVE IInv'  BY <1>3, AuditKeeps
  <1>4. ASSUME NEW p \in Processes, Decide(p) PROVE IInv'  BY <1>4, DecideKeeps
  <1>5. ASSUME NEW p \in Processes, Evaluate(p) PROVE IInv'  BY <1>5, EvaluateKeeps
  <1>6. ASSUME NEW p \in Processes, RecheckSaves(p) PROVE IInv'  BY <1>6, RecheckSavesKeeps
  <1>7. ASSUME NEW p \in Processes, Pin(p) PROVE IInv'  BY <1>7, PinKeeps
  <1>8. ASSUME NEW p \in Processes, McpRecheck(p) PROVE IInv'  BY <1>8, McpRecheckKeeps
  <1>9. ASSUME NEW p \in Processes, McpNoBaseline(p) PROVE IInv'  BY <1>9, McpNoBaselineKeeps
  <1>10. ASSUME NEW p \in Processes, Save(p) PROVE IInv'  BY <1>10, SaveKeeps
  <1>a. ASSUME NEW p \in Processes, RecheckReports(p) PROVE IInv'  BY <1>a, RecheckReportsKeeps
  <1>11. CASE WorldChanges
    <2>1. UNCHANGED <<store, pc, mine, fresh, subject, handled, decided, made>>
      BY <1>11 DEF WorldChanges, local, history
    <2>2. changes' \in 0..MaxChanges
      BY <1>11 DEF WorldChanges, IInv, ControlOK, StoreAssumption
    <2>3. WorldOK'
      <3>1. CASE (\E d \in Deps, v \in Verdicts : v # world[d] /\ world' = [world EXCEPT ![d] = v])
                 /\ UNCHANGED served
        BY <3>1 DEF IInv, WorldOK
      <3>2. CASE (\E s \in Servers, m \in Manifests :
                    m # served[s] /\ served' = [served EXCEPT ![s] = m]) /\ UNCHANGED world
        BY <3>2 DEF IInv, WorldOK
      <3> QED BY <1>11, <3>1, <3>2 DEF WorldChanges
    <2> QED BY <2>1, <2>2, <2>3, OutsideKeeps
  <1>12. CASE UNCHANGED vars
    <2>1. UNCHANGED <<store, world, served, pc, mine, fresh, subject, handled, decided, changes, made>>
      BY <1>12 DEF vars, local, history
    <2>2. WorldOK' /\ changes' \in 0..MaxChanges
      BY <2>1 DEF IInv, WorldOK, ControlOK
    <2> QED BY <2>1, <2>2, OutsideKeeps
  <1> QED
    BY <1>1, <1>2, <1>3, <1>4, <1>5, <1>6, <1>7, <1>8, <1>9, <1>10, <1>a, <1>11, <1>12 DEF Next

\* The store and every copy of it are well typed, whatever overlaps.
THEOREM StoreTypes == ASSUME StoreAssumption PROVE Spec => []TypeOK
  <1>1. Init => IInv
    BY InitIInv
  <1>2. IInv /\ [Next]_vars => IInv'
    BY NextIInv
  <1>3. IInv => TypeOK
    BY DEF IInv, TypeOK, StoreOK, WorldOK, MineOK, ControlOK
  <1> QED BY <1>1, <1>2, <1>3, PTL DEF Spec

\* Overlapping commands can lose decisions but never invent or mix them:
\* every decision in the store, with the manifest it approves, was made.
THEOREM DecisionsAreMade == ASSUME StoreAssumption PROVE Spec => []DecisionsWereMade
  <1>1. Init => IInv
    BY InitIInv
  <1>2. IInv /\ [Next]_vars => IInv'
    BY NextIInv
  <1>3. IInv => DecisionsWereMade
    BY DEF IInv, StoreMade
  <1> QED BY <1>1, <1>2, <1>3, PTL DEF Spec
-----------------------------------------------------------------------------
(* Commands that run one at a time: whoever is at work holds the last      *)
(* decision on each name it has not decided on, and says of a package what *)
(* its copy does to the verdict.                                           *)

Reports == {"none", "unknown", "no-baseline", "regressed", "improved", "unchanged",
            "drifted", "error"}

Alone == \A p, q \in Processes : Active(p) /\ Active(q) => p = q
CopyIsLast ==
    \A p \in Processes, n \in Names :
        Active(p) /\ n \notin decided[p] => Human(mine[p][n]) = last[n]
LoadedIsStore == \A p \in Processes : pc[p] = "loaded" => mine[p] = store
ReportsOK == report \in [Processes -> [Names -> Reports]]
ReportsAreDrifts ==
    \A p \in Processes, d \in Deps :
        pc[p] = "loaded" /\ d \in handled[p] =>
            report[p][d] = Drift(Baseline(mine[p][d]), fresh[p][d])
CopyIsReported ==
    \A p \in Processes, n \in Names :
        Active(p) /\ n \notin decided[p] /\ Rises(store[n], mine[p][n]) => report[p][n] = "regressed"

SerialInv ==
    /\ Alone /\ DecisionsSurvive /\ CopyIsLast /\ ReportsOK
    /\ LoadedIsStore /\ ReportsAreDrifts /\ CopyIsReported /\ AlarmsAreHeard

LEMMA DriftIsReport == \A b, v : Drift(b, v) \in Reports
  BY DEF Drift, Reports

\* Only a rise in rank is called regressed.
LEMMA RisesAreRegressions ==
    ASSUME NEW r \in Records, NEW v \in Verdicts, r.checked, r.verdict \in Verdicts,
           Rank(v) > Rank(r.verdict)
    PROVE  Drift(Baseline(r), v) = "regressed" /\ Drift(r.verdict, v) = "regressed"
  BY DEF Drift, Baseline

LEMMA InitSerial == ASSUME StoreAssumption, Init PROVE SerialInv
  <1>1. Alone /\ CopyIsLast /\ CopyIsReported  BY DEF Init, Alone, CopyIsLast, CopyIsReported, Active
  <1>2. DecisionsSurvive  BY DEF Init, DecisionsSurvive
  <1>3. ReportsOK  BY DEF Init, ReportsOK, Unsaid, Reports
  <1>4. LoadedIsStore /\ ReportsAreDrifts /\ AlarmsAreHeard
    BY DEF Init, LoadedIsStore, ReportsAreDrifts, AlarmsAreHeard
  <1> QED BY <1>1, <1>2, <1>3, <1>4 DEF SerialInv

LEMMA LoadSerial ==
    ASSUME ~Overlap, IInv, SerialInv, NEW p \in Processes, Load(p) PROVE SerialInv'
  <1>1. UNCHANGED <<store, fresh, handled, decided, report, last, alarm>>
    BY DEF Load, history
  <1>2. /\ pc[p] = "idle" /\ pc' = [pc EXCEPT ![p] = "loaded"] /\ mine' = [mine EXCEPT ![p] = store]
        /\ \A q \in Processes \ {p} : ~Active(q)
    BY DEF Load
  <1>3. \A q \in Processes : Active(q)' => q = p
    BY <1>2 DEF Active, IInv, ControlOK
  <1>4. mine'[p] = store /\ \A q \in Processes : q # p => mine'[q] = mine[q]
    BY <1>2 DEF IInv, MineOK
  <1>5. Alone'  BY <1>3 DEF Alone
  <1>6. DecisionsSurvive' /\ ReportsOK'  BY <1>1 DEF SerialInv, DecisionsSurvive, Human, ReportsOK
  <1>7. CopyIsLast'
    BY <1>1, <1>3, <1>4 DEF CopyIsLast, SerialInv, DecisionsSurvive, Human
  <1>8. LoadedIsStore'
    BY <1>1, <1>3, <1>4 DEF LoadedIsStore, Active
  <1>9. ReportsAreDrifts'
    <2>1. handled'[p] = {}
      BY <1>1, <1>2 DEF IInv, ControlOK
    <2> QED BY <1>3, <2>1 DEF ReportsAreDrifts, Active
  <1>10. CopyIsReported'
    <2>1. ASSUME NEW d \in Names PROVE ~Rises(store[d], store[d])
      BY DEF Rises, Rank
    <2>2. ASSUME NEW q \in Processes, NEW d \in Names, Active(q)', Rises(store'[d], mine'[q][d])
          PROVE  FALSE
      BY <1>1, <1>3, <1>4, <2>1, <2>2
    <2> QED BY <2>2 DEF CopyIsReported, Rises
  \* Nobody is between save and output, so nothing is due.
  <1>11. AlarmsAreHeard'
    <2>1. \A q \in Processes : pc[q] # "saved"
      BY <1>2 DEF Active
    <2> QED BY <1>1, <2>1 DEF SerialInv, AlarmsAreHeard
  <1> QED BY <1>5, <1>6, <1>7, <1>8, <1>9, <1>10, <1>11 DEF SerialInv

\* When the one process at work ends, nobody is.
LEMMA ExitsSerial ==
    ASSUME IInv, SerialInv, NEW p \in Processes, Active(p), Exits(p), DecisionsSurvive',
           \A n \in Names : alarm'[n] # "due"
    PROVE  SerialInv'
  <1>1. \A q \in Processes : pc'[q] \in {"idle", "done"}
    BY DEF Exits, SerialInv, Alone, Active, IInv, ControlOK
  <1>2. \A q \in Processes : ~Active(q)' /\ pc'[q] # "loaded"
    BY <1>1 DEF Active
  <1>3. Alone' /\ CopyIsLast' /\ LoadedIsStore' /\ ReportsAreDrifts' /\ CopyIsReported'
    BY <1>2 DEF Alone, CopyIsLast, LoadedIsStore, ReportsAreDrifts, CopyIsReported
  <1>4. ReportsOK'
    BY DEF Exits, SerialInv, ReportsOK, Unsaid, Reports
  <1>5. AlarmsAreHeard'
    BY DEF AlarmsAreHeard
  <1> QED BY <1>3, <1>4, <1>5 DEF SerialInv

\* Interrupted or not, the process that ends takes what was due with it.
LEMMA GivesUpSerial ==
    ASSUME IInv, SerialInv, NEW p \in Processes, GivesUp(p) \/ Outputs(p) PROVE SerialInv'
  <1>1. UNCHANGED <<store, last>> /\ Exits(p) /\ Active(p)
    BY DEF GivesUp, Outputs, Active
  <1>2. DecisionsSurvive'
    BY <1>1 DEF SerialInv, DecisionsSurvive, Human
  <1>3. ASSUME NEW n \in Names, alarm[n] = "due" PROVE pc[p] = "saved" /\ report[p][n] = "regressed"
    <2>1. PICK q \in Processes : pc[q] = "saved" /\ report[q][n] = "regressed"
      BY <1>3 DEF SerialInv, AlarmsAreHeard
    <2>2. Active(q)  BY <2>1 DEF Active
    <2> QED BY <1>1, <2>1, <2>2 DEF SerialInv, Alone
  <1>4. \A n \in Names : alarm'[n] # "due"
    BY <1>3 DEF GivesUp, Outputs
  <1> QED BY <1>1, <1>2, <1>4, ExitsSerial

\* Nothing is due before the save, and what the save raises is reported.
LEMMA SaveSerial == ASSUME IInv, SerialInv, NEW p \in Processes, Save(p) PROVE SerialInv'
  <1>1. /\ store' = mine[p]
        /\ last' = [n \in Names |-> IF n \in decided[p] THEN Human(mine[p][n]) ELSE last[n]]
        /\ alarm' = [n \in Names |->
              IF n \in decided[p] THEN "heard"
              ELSE IF Rises(store[n], mine[p][n]) THEN "due" ELSE alarm[n]]
    BY DEF Save
  <1>2. /\ pc[p] \in {"asking", "saving"} /\ Active(p)
        /\ pc'[p] = "saved" /\ \A q \in Processes : q # p => pc'[q] = pc[q]
    BY DEF Save, Active, IInv, ControlOK
  <1>3. UNCHANGED <<mine, fresh, handled, decided, report>>
    BY DEF Save, local
  <1>4. \A q \in Processes : Active(q)' => q = p
    BY <1>2 DEF SerialInv, Alone, Active
  <1>5. DecisionsSurvive'
    BY <1>1, <1>2 DEF SerialInv, DecisionsSurvive, CopyIsLast, Human
  <1>6. Alone'  BY <1>4 DEF Alone
  <1>7. CopyIsLast'
    BY <1>1, <1>2, <1>3, <1>4 DEF SerialInv, CopyIsLast, Human
  <1>8. ReportsOK'  BY <1>3 DEF SerialInv, ReportsOK
  <1>9. LoadedIsStore' /\ ReportsAreDrifts'
    BY <1>2, <1>4 DEF LoadedIsStore, ReportsAreDrifts, Active
  <1>10. CopyIsReported'
    <2>1. ASSUME NEW n \in Names PROVE ~Rises(store'[n], mine'[p][n])
      BY <1>1, <1>3 DEF Rises, Rank
    <2> QED BY <1>4, <2>1 DEF CopyIsReported, Rises, Rank
  <1>11. AlarmsAreHeard'
    <2>1. ASSUME NEW n \in Names, alarm[n] = "due" PROVE FALSE
      <3>1. PICK q \in Processes : pc[q] = "saved"
        BY <2>1 DEF SerialInv, AlarmsAreHeard
      <3>2. Active(q)  BY <3>1 DEF Active
      <3> QED BY <1>2, <3>1, <3>2 DEF SerialInv, Alone
    <2>2. ASSUME NEW n \in Names, alarm'[n] = "due" PROVE report[p][n] = "regressed"
      <3>1. n \notin decided[p] /\ Rises(store[n], mine[p][n])
        BY <1>1, <2>1, <2>2
      <3> QED BY <1>2, <3>1 DEF SerialInv, CopyIsReported
    <2> QED BY <1>2, <1>3, <2>2 DEF AlarmsAreHeard
  <1> QED BY <1>5, <1>6, <1>7, <1>8, <1>9, <1>10, <1>11 DEF SerialInv

\* A step of the process at work, which moves between its own steps.
LEMMA WorkSerial ==
    ASSUME IInv, SerialInv, NEW p \in Processes, Active(p), pc[p] # "saved",
           UNCHANGED <<store, last, alarm>>,
           \A q \in Processes : q # p => pc'[q] = pc[q]
    PROVE  /\ Alone' /\ DecisionsSurvive' /\ AlarmsAreHeard'
           /\ \A q \in Processes : Active(q)' => q = p
  <1>1. \A q \in Processes : Active(q)' => q = p
    BY DEF SerialInv, Alone, Active
  <1>2. \A q \in Processes : pc[q] # "saved"
    BY DEF SerialInv, Alone, Active
  <1> QED BY <1>1, <1>2 DEF Alone, SerialInv, DecisionsSurvive, AlarmsAreHeard, Human

LEMMA AuditSerial == ASSUME IInv, SerialInv, NEW p \in Processes, Audit(p) PROVE SerialInv'
  <1>1. UNCHANGED <<store, mine, decided, report, last, alarm>> /\ Active(p) /\ pc[p] # "saved"
    BY DEF Audit, Active
  <1>2. pc'[p] = "asking" /\ \A q \in Processes : q # p => pc'[q] = pc[q]
    BY DEF Audit, IInv, ControlOK
  <1>3. Alone' /\ DecisionsSurvive' /\ AlarmsAreHeard' /\ \A q \in Processes : Active(q)' => q = p
    BY <1>1, <1>2, WorkSerial
  <1>4. CopyIsLast' /\ ReportsOK' /\ CopyIsReported'
    BY <1>1, <1>3 DEF SerialInv, CopyIsLast, ReportsOK, CopyIsReported, Human, Rises, Rank
  <1>5. LoadedIsStore' /\ ReportsAreDrifts'
    BY <1>2, <1>3 DEF LoadedIsStore, ReportsAreDrifts, Active
  <1> QED BY <1>3, <1>4, <1>5 DEF SerialInv

LEMMA DecideSerial == ASSUME IInv, SerialInv, NEW p \in Processes, Decide(p) PROVE SerialInv'
  <1>1. UNCHANGED <<store, pc, report, last, alarm>> /\ pc[p] = "asking" /\ Active(p)
    BY DEF Decide, Active, history
  <1>2. PICK d \in Deps :
           \/ UNCHANGED <<mine, decided>>
           \/ /\ decided' = [decided EXCEPT ![p] = @ \cup {d}]
              /\ \E r : mine' = [mine EXCEPT ![p][d] = r]
    BY DEF Decide
  <1>3. \A n \in Names : n \notin decided'[p] => n \notin decided[p] /\ mine'[p][n] = mine[p][n]
    BY <1>2 DEF IInv, ControlOK, MineOK
  <1>4. Alone' /\ DecisionsSurvive' /\ AlarmsAreHeard' /\ \A q \in Processes : Active(q)' => q = p
    BY <1>1, WorkSerial
  <1>5. CopyIsLast' /\ ReportsOK'
    BY <1>1, <1>3, <1>4 DEF SerialInv, CopyIsLast, ReportsOK, Human
  <1>6. CopyIsReported'
    BY <1>1, <1>3, <1>4 DEF SerialInv, CopyIsReported, Rises, Rank, Names
  <1>7. LoadedIsStore' /\ ReportsAreDrifts'
    BY <1>1, <1>4 DEF LoadedIsStore, ReportsAreDrifts, Active
  <1> QED BY <1>4, <1>5, <1>6, <1>7 DEF SerialInv

LEMMA EvaluateSerial == ASSUME IInv, SerialInv, NEW p \in Processes, Evaluate(p) PROVE SerialInv'
  <1>1. UNCHANGED <<store, pc, mine, decided, last, alarm>> /\ pc[p] = "loaded" /\ Active(p)
    BY DEF Evaluate, Active
  <1>2. PICK d \in Deps \ handled[p] : \E w \in {world[d], "unknown"} :
           /\ handled' = [handled EXCEPT ![p] = @ \cup {d}]
           /\ fresh' = [fresh EXCEPT ![p][d] = w]
           /\ report' = [report EXCEPT ![p][d] = Drift(Baseline(mine[p][d]), w)]
    BY DEF Evaluate
  <1>v. PICK v \in {world[d], "unknown"} :
           /\ handled' = [handled EXCEPT ![p] = @ \cup {d}]
           /\ fresh' = [fresh EXCEPT ![p][d] = v]
           /\ report' = [report EXCEPT ![p][d] = Drift(Baseline(mine[p][d]), v)]
    BY <1>2
  <1>3. /\ handled'[p] = handled[p] \cup {d} /\ fresh'[p][d] = v
        /\ report'[p][d] = Drift(Baseline(mine[p][d]), v)
        /\ \A e \in Deps : e # d => fresh'[p][e] = fresh[p][e] /\ report'[p][e] = report[p][e]
    BY <1>v DEF IInv, ControlOK, FreshOK, SerialInv, ReportsOK, Names
  <1>4. Alone' /\ DecisionsSurvive' /\ AlarmsAreHeard' /\ \A q \in Processes : Active(q)' => q = p
    BY <1>1, WorkSerial
  <1>5. CopyIsLast'  BY <1>1 DEF SerialInv, CopyIsLast, Human, Active
  <1>6. ReportsOK'
    <2>1. Drift(Baseline(mine[p][d]), v) \in Reports
      BY DriftIsReport
    <2> QED BY <1>v, <2>1 DEF SerialInv, ReportsOK, Names
  <1>7. LoadedIsStore'  BY <1>1 DEF SerialInv, LoadedIsStore
  <1>8. ReportsAreDrifts'
    <2>1. ASSUME NEW e \in Deps, e \in handled'[p]
          PROVE  report'[p][e] = Drift(Baseline(mine'[p][e]), fresh'[p][e])
      <3>1. CASE e = d  BY <1>1, <1>3, <3>1
      <3>2. CASE e # d  BY <1>1, <1>3, <2>1, <3>2 DEF SerialInv, ReportsAreDrifts
      <3> QED BY <3>1, <3>2
    <2>2. \A b, w : Drift(b, w)' = Drift(b, w)
      BY DEF Drift, Rank
    <2> QED BY <1>4, <2>1 DEF ReportsAreDrifts, Active, Baseline
  \* Nothing has been refreshed yet: the copy is the store.
  <1>9. CopyIsReported'
    <2>1. mine'[p] = store'
      BY <1>1 DEF SerialInv, LoadedIsStore
    <2> QED BY <1>4, <2>1 DEF CopyIsReported, Rises, Rank
  <1> QED BY <1>4, <1>5, <1>6, <1>7, <1>8, <1>9 DEF SerialInv

LEMMA RecheckSavesSerial ==
    ASSUME IInv, SerialInv, NEW p \in Processes, RecheckSaves(p) PROVE SerialInv'
  <1>1. UNCHANGED <<store, fresh, decided, report, last, alarm>> /\ Active(p)
    BY DEF RecheckSaves, Active, history
  <1>2. pc[p] = "loaded" /\ handled[p] = Deps
        /\ pc'[p] = "saving" /\ \A q \in Processes : q # p => pc'[q] = pc[q]
    BY DEF RecheckSaves, IInv, ControlOK
  <1>3. \A n \in Names :
           mine'[p][n] = IF n \in Reevaluated(p) THEN Refreshed(mine[p][n], fresh[p][n]) ELSE mine[p][n]
    BY DEF RecheckSaves, IInv, MineOK
  <1>4. Alone' /\ DecisionsSurvive' /\ AlarmsAreHeard' /\ \A q \in Processes : Active(q)' => q = p
    BY <1>1, <1>2, WorkSerial
  <1>5. \A n \in Reevaluated(p) : n \in Deps /\ fresh[p][n] \in Verdicts
    BY <1>2 DEF Reevaluated, IInv, FreshOK
  <1>6. ASSUME NEW n \in Names PROVE Human(mine'[p][n]) = Human(mine[p][n])
    <2>1. mine[p][n] \in Records
      BY DEF IInv, MineOK
    <2> QED BY <1>3, <1>5, <2>1, RefreshedRecord
  <1>7. CopyIsLast'
    BY <1>1, <1>4, <1>6 DEF SerialInv, CopyIsLast, Human
  <1>8. ReportsOK'  BY <1>1 DEF SerialInv, ReportsOK
  <1>9. LoadedIsStore' /\ ReportsAreDrifts'
    BY <1>2, <1>4 DEF LoadedIsStore, ReportsAreDrifts, Active
  <1>10. CopyIsReported'
    <2>1. ASSUME NEW d \in Names, Rises(store[d], mine'[p][d]) PROVE report[p][d] = "regressed"
      <3>1. mine[p][d] = store[d] /\ store[d] \in Records
        BY <1>2 DEF SerialInv, LoadedIsStore, IInv, StoreOK
      <3>2. d \in Reevaluated(p)
        BY <1>3, <2>1, <3>1 DEF Rises, Rank
      <3>3. mine'[p][d].verdict = fresh[p][d]
        BY <1>3, <3>1, <3>2 DEF Refreshed, Records
      <3>4. report[p][d] = Drift(Baseline(store[d]), fresh[p][d])
        BY <1>2, <1>5, <3>1, <3>2 DEF SerialInv, ReportsAreDrifts
      <3>5. store[d].checked /\ store[d].verdict \in Verdicts /\ Rank(fresh[p][d]) > Rank(store[d].verdict)
        BY <2>1, <3>3 DEF Rises
      <3> QED BY <1>5, <3>1, <3>2, <3>4, <3>5, RisesAreRegressions
    <2> QED BY <1>1, <1>4, <2>1 DEF CopyIsReported, Rises, Rank
  <1> QED BY <1>4, <1>7, <1>8, <1>9, <1>10 DEF SerialInv
LEMMA PinSerial ==
    ASSUME StoreAssumption, IInv, SerialInv, NEW p \in Processes, Pin(p) PROVE SerialInv'
  <1>1. UNCHANGED <<store, report, last, alarm>> /\ Active(p) /\ pc[p] # "saved"
    BY DEF Pin, Active
  <1>2. pc'[p] = "saving" /\ \A q \in Processes : q # p => pc'[q] = pc[q]
    BY DEF Pin, IInv, ControlOK
  <1>3. /\ decided[p] = {} /\ decided'[p] = {subject[p].server}
        /\ \A n \in Names : n # subject[p].server => mine'[p][n] = mine[p][n]
    BY DEF Pin, IInv, ControlOK, MineOK
  <1>4. Alone' /\ DecisionsSurvive' /\ AlarmsAreHeard' /\ \A q \in Processes : Active(q)' => q = p
    BY <1>1, <1>2, WorkSerial
  <1>5. CopyIsLast' /\ ReportsOK'
    BY <1>1, <1>3, <1>4 DEF SerialInv, CopyIsLast, ReportsOK, Human
  <1>6. CopyIsReported'
    BY <1>1, <1>3, <1>4 DEF SerialInv, CopyIsReported, Rises, Rank, Names
  <1>7. LoadedIsStore' /\ ReportsAreDrifts'
    BY <1>2, <1>4 DEF LoadedIsStore, ReportsAreDrifts, Active
  <1> QED BY <1>4, <1>5, <1>6, <1>7 DEF SerialInv

LEMMA McpReportIsReport == \A r, m : McpReport(r, m) \in Reports
  BY DEF McpReport, Reports

\* The server is no package, so what is said of packages stays.
\* What is refreshed is compared with the verdict the store has.
LEMMA McpRecheckSerial ==
    ASSUME StoreAssumption, IInv, SerialInv, NEW p \in Processes, McpRecheck(p) PROVE SerialInv'
  <1> DEFINE s == subject[p].server
             m == subject[p].manifest
  <1>1. UNCHANGED <<store, decided, last, alarm>> /\ Active(p) /\ pc[p] = "loaded"
    BY DEF McpRecheck, Active
  <1>2. pc'[p] \in {"saving", "reported"} /\ \A q \in Processes : q # p => pc'[q] = pc[q]
    BY DEF McpRecheck, IInv, ControlOK
  <1>3. s \in Servers /\ s \notin Deps /\ s \in Names /\ m \in Manifests
    BY DEF McpRecheck, IInv, SubjectOK, Names, StoreAssumption
  <1>4. /\ report' = [report EXCEPT ![p][s] = McpReport(mine[p][s], m)]
        /\ mine' \in {mine, [mine EXCEPT ![p][s] = RefreshedMcp(@, m)]}
    BY DEF McpRecheck
  <1> HIDE DEF s, m
  <1>5. /\ mine'[p][s] \in {mine[p][s], RefreshedMcp(mine[p][s], m)}
        /\ \A n \in Names : n # s => mine'[p][n] = mine[p][n]
    BY <1>3, <1>4 DEF IInv, MineOK
  <1>r. /\ report'[p][s] = McpReport(mine[p][s], m)
        /\ \A n \in Names : n # s => report'[p][n] = report[p][n]
    BY <1>3, <1>4 DEF SerialInv, ReportsOK
  <1>6. Alone' /\ DecisionsSurvive' /\ AlarmsAreHeard' /\ \A q \in Processes : Active(q)' => q = p
    BY <1>1, <1>2, WorkSerial
  <1>7. ASSUME NEW n \in Names PROVE Human(mine'[p][n]) = Human(mine[p][n])
    <2>1. mine[p][n] \in Records
      BY DEF IInv, MineOK
    <2> QED BY <1>3, <1>5, <2>1, RefreshedMcpRecord
  <1>8. CopyIsLast'
    BY <1>1, <1>6, <1>7 DEF SerialInv, CopyIsLast, Human
  <1>9. ReportsOK'
    <2>1. McpReport(mine[p][s], m) \in Reports
      BY McpReportIsReport
    <2> QED BY <1>3, <1>4, <2>1 DEF SerialInv, ReportsOK
  <1>10. LoadedIsStore' /\ ReportsAreDrifts'
    BY <1>2, <1>6 DEF LoadedIsStore, ReportsAreDrifts, Active
  <1>11. CopyIsReported'
    <2>1. ASSUME NEW n \in Names, Rises(store[n], mine'[p][n]) PROVE report'[p][n] = "regressed"
      <3>1. mine[p][n] = store[n] /\ store[n] \in Records
        BY <1>1 DEF SerialInv, LoadedIsStore, IInv, StoreOK
      <3>2. mine'[p][n] # mine[p][n]
        BY <2>1, <3>1 DEF Rises, Rank
      <3>3. n = s /\ mine'[p][s] = RefreshedMcp(store[s], m)
        BY <1>5, <3>1, <3>2
      <3>4. mine'[p][s].verdict = AuditVerdict[m] /\ AuditVerdict[m] \in Verdicts
        BY <1>3, <3>1, <3>3 DEF RefreshedMcp, Records, StoreAssumption
      <3>5. store[s].checked /\ store[s].verdict \in Verdicts /\ Rank(AuditVerdict[m]) > Rank(store[s].verdict)
        BY <2>1, <3>3, <3>4 DEF Rises
      <3>6. Drift(store[s].verdict, AuditVerdict[m]) = "regressed"
        BY <3>1, <3>3, <3>4, <3>5, RisesAreRegressions
      <3> QED BY <1>r, <3>1, <3>3, <3>6 DEF McpReport
    <2> QED BY <1>1, <1>6, <2>1 DEF CopyIsReported, Rises, Rank
  <1> QED BY <1>6, <1>8, <1>9, <1>10, <1>11 DEF SerialInv

\* What is only reported is not written: the copy is still the store.
LEMMA ReportsOnlySerial ==
    ASSUME IInv, SerialInv, NEW p \in Processes, pc[p] = "loaded", pc' = [pc EXCEPT ![p] = "reported"],
           UNCHANGED <<store, mine, decided, last, alarm>>, ReportsOK'
    PROVE  SerialInv'
  <1>1. Active(p)
    BY DEF Active
  <1>2. pc'[p] = "reported" /\ \A q \in Processes : q # p => pc'[q] = pc[q]
    BY DEF IInv, ControlOK
  <1>3. Alone' /\ DecisionsSurvive' /\ AlarmsAreHeard' /\ \A q \in Processes : Active(q)' => q = p
    BY <1>1, <1>2, WorkSerial
  <1>4. CopyIsLast'  BY <1>1, <1>3 DEF SerialInv, CopyIsLast, Human
  <1>5. LoadedIsStore' /\ ReportsAreDrifts'
    BY <1>2, <1>3 DEF LoadedIsStore, ReportsAreDrifts, Active
  <1>6. CopyIsReported'
    <2>1. mine'[p] = store'
      BY DEF SerialInv, LoadedIsStore
    <2> QED BY <1>3, <2>1 DEF CopyIsReported, Rises, Rank
  <1> QED BY <1>3, <1>4, <1>5, <1>6 DEF SerialInv

LEMMA RecheckReportsSerial ==
    ASSUME IInv, SerialInv, NEW p \in Processes, RecheckReports(p) PROVE SerialInv'
  <1>1. UNCHANGED <<store, mine, decided, report, last, alarm>>
    BY DEF RecheckReports, local, history
  <1>2. ReportsOK'  BY <1>1 DEF SerialInv, ReportsOK
  <1> QED BY <1>1, <1>2, ReportsOnlySerial DEF RecheckReports

LEMMA McpNoBaselineSerial ==
    ASSUME StoreAssumption, IInv, SerialInv, NEW p \in Processes, McpNoBaseline(p) PROVE SerialInv'
  <1>1. UNCHANGED <<store, mine, decided, last, alarm>>
    BY DEF McpNoBaseline, history
  <1>2. PICK s \in Servers, r \in {"error", "no-baseline"} : report' = [report EXCEPT ![p][s] = r]
    BY DEF McpNoBaseline, IInv, SubjectOK
  <1>3. ReportsOK'
    BY <1>2 DEF SerialInv, ReportsOK, Reports, Names
  <1> QED BY <1>1, <1>3, ReportsOnlySerial DEF McpNoBaseline

LEMMA OutsideSerial ==
    ASSUME SerialInv, UNCHANGED <<store, pc, local, history>> PROVE SerialInv'
  <1>1. UNCHANGED <<store, pc, mine, fresh, handled, decided, report, last, alarm>>
    BY DEF local, history
  <1>2. Alone' /\ DecisionsSurvive' /\ CopyIsLast' /\ ReportsOK' /\ AlarmsAreHeard'
    BY <1>1 DEF SerialInv, Alone, Active, DecisionsSurvive, CopyIsLast, Human, ReportsOK, AlarmsAreHeard
  <1>3. LoadedIsStore' /\ CopyIsReported'
    BY <1>1 DEF SerialInv, LoadedIsStore, Active, CopyIsReported, Rises, Rank
  <1>4. ReportsAreDrifts'
    BY <1>1 DEF SerialInv, ReportsAreDrifts, Drift, Baseline, Rank
  <1> QED BY <1>2, <1>3, <1>4 DEF SerialInv

LEMMA NextSerial ==
    ASSUME StoreAssumption, ~Overlap, IInv, SerialInv, [Next]_vars PROVE SerialInv'
  <1>1. ASSUME NEW p \in Processes, Load(p) PROVE SerialInv'  BY <1>1, LoadSerial
  <1>2. ASSUME NEW p \in Processes, GivesUp(p) \/ Outputs(p) PROVE SerialInv'  BY <1>2, GivesUpSerial
  <1>3. ASSUME NEW p \in Processes, Audit(p) PROVE SerialInv'  BY <1>3, AuditSerial
  <1>4. ASSUME NEW p \in Processes, Decide(p) PROVE SerialInv'  BY <1>4, DecideSerial
  <1>5. ASSUME NEW p \in Processes, Evaluate(p) PROVE SerialInv'  BY <1>5, EvaluateSerial
  <1>6. ASSUME NEW p \in Processes, RecheckSaves(p) PROVE SerialInv'  BY <1>6, RecheckSavesSerial
  <1>7. ASSUME NEW p \in Processes, Pin(p) PROVE SerialInv'  BY <1>7, PinSerial
  <1>8. ASSUME NEW p \in Processes, McpRecheck(p) PROVE SerialInv'  BY <1>8, McpRecheckSerial
  <1>9. ASSUME NEW p \in Processes, McpNoBaseline(p) PROVE SerialInv'  BY <1>9, McpNoBaselineSerial
  <1>10. ASSUME NEW p \in Processes, Save(p) PROVE SerialInv'  BY <1>10, SaveSerial
  <1>a. ASSUME NEW p \in Processes, RecheckReports(p) PROVE SerialInv'  BY <1>a, RecheckReportsSerial
  <1>11. CASE WorldChanges  BY <1>11, OutsideSerial DEF WorldChanges
  <1>12. CASE UNCHANGED vars  BY <1>12, OutsideSerial DEF vars
  <1> QED
    BY <1>1, <1>2, <1>3, <1>4, <1>5, <1>6, <1>7, <1>8, <1>9, <1>10, <1>a, <1>11, <1>12 DEF Next

\* Commands that run one at a time lose no decision: every save started from
\* the store the last one wrote.  Overlapping ones lose some (the run
\* store_lost_decision).
THEOREM SerialDecisionsSurvive ==
    ASSUME StoreAssumption, ~Overlap PROVE Spec => []DecisionsSurvive
  <1>1. Init => IInv /\ SerialInv
    BY InitIInv, InitSerial
  <1>2. IInv /\ SerialInv /\ [Next]_vars => IInv' /\ SerialInv'
    BY NextIInv, NextSerial
  <1>3. SerialInv => DecisionsSurvive
    BY DEF SerialInv
  <1> QED BY <1>1, <1>2, <1>3, PTL DEF Spec

\* Only a recheck of a manifest reports on a server that it said nothing of.
LEMMA UnchangedIsApproved ==
    ASSUME StoreAssumption, IInv, SerialInv, [Next]_vars,
           NEW p \in McpRecheckers, NEW s \in Servers,
           report[p][s] = "none", report'[p][s] = "unchanged"
    PROVE  subject[p].manifest = last[s][2]
  <1>a. p \in Processes /\ s \in Names /\ s \notin Deps
    BY DEF Processes, Names, StoreAssumption
  <1>1. ASSUME NEW q \in Processes, Exits(q) PROVE FALSE
    BY <1>1, <1>a DEF Exits, SerialInv, ReportsOK, Unsaid
  <1>2. ASSUME NEW q \in Processes, Evaluate(q) PROVE FALSE
    <2>1. PICK d \in Deps : \E r : report' = [report EXCEPT ![q][d] = r]
      BY <1>2 DEF Evaluate
    <2> QED BY <1>a, <2>1 DEF SerialInv, ReportsOK
  <1>3. ASSUME NEW q \in Processes, McpNoBaseline(q) PROVE FALSE
    <2>1. PICK r \in {"error", "no-baseline"} : report' = [report EXCEPT ![q][subject[q].server] = r]
      BY <1>3 DEF McpNoBaseline
    <2> QED BY <1>a, <2>1 DEF SerialInv, ReportsOK
  <1>4. ASSUME NEW q \in Processes, McpRecheck(q) PROVE subject[p].manifest = last[s][2]
    <2>1. /\ report' = [report EXCEPT ![q][subject[q].server] =
                          McpReport(mine[q][subject[q].server], subject[q].manifest)]
          /\ pc[q] = "loaded"
      BY <1>4 DEF McpRecheck
    <2>2. q = p /\ subject[q].server = s
      BY <1>a, <2>1 DEF SerialInv, ReportsOK
    <2>3. McpReport(mine[p][s], subject[p].manifest) = "unchanged"
      BY <1>a, <2>1, <2>2 DEF SerialInv, ReportsOK
    <2>4. mine[p][s].manifest = subject[p].manifest
      BY <2>3 DEF McpReport
    <2>5. Active(p) /\ s \notin decided[p]
      BY <1>a, <2>1, <2>2 DEF Active, IInv, ControlOK
    <2>6. Human(mine[p][s]) = last[s]
      BY <1>a, <2>5 DEF SerialInv, CopyIsLast
    <2> QED BY <2>4, <2>6 DEF Human
  <1>5. CASE UNCHANGED report  BY <1>5
  <1>6. ASSUME NEW q \in Processes,
               \/ Load(q) \/ Audit(q) \/ Decide(q) \/ RecheckSaves(q) \/ RecheckReports(q)
               \/ Pin(q) \/ Save(q)
        PROVE  UNCHANGED report
    BY <1>6 DEF Load, Audit, Decide, RecheckSaves, RecheckReports, Pin, Save, local
  <1>7. WorldChanges \/ UNCHANGED vars => UNCHANGED report
    BY DEF WorldChanges, vars, local
  <1> QED BY <1>1, <1>2, <1>3, <1>4, <1>5, <1>6, <1>7 DEF Next, GivesUp, Outputs

\* Of commands that run one at a time, a recheck calls a manifest unchanged
\* only if it is the one somebody approved last.
THEOREM SerialUnchangedMeansApproved ==
    ASSUME StoreAssumption, ~Overlap PROVE Spec => UnchangedMeansApproved
  <1>1. Init => IInv /\ SerialInv
    BY InitIInv, InitSerial
  <1>2. IInv /\ SerialInv /\ [Next]_vars => IInv' /\ SerialInv'
    BY NextIInv, NextSerial
  <1>3. IInv /\ SerialInv /\ [Next]_vars =>
           [\A p \in McpRecheckers, s \in Servers :
               report[p][s] = "none" /\ report'[p][s] = "unchanged" =>
                  subject[p].manifest = last[s][2]]_vars
    BY UnchangedIsApproved
  <1> QED BY <1>1, <1>2, <1>3, PTL DEF Spec, UnchangedMeansApproved

\* Of commands that run one at a time, none makes a stored verdict worse
\* without a decision or a report of it in its memory, and only its
\* interruption between the save and the output loses that report.
THEOREM SerialAlarmsAreHeard ==
    ASSUME StoreAssumption, ~Overlap PROVE Spec => []AlarmsAreHeard
  <1>1. Init => IInv /\ SerialInv
    BY InitIInv, InitSerial
  <1>2. IInv /\ SerialInv /\ [Next]_vars => IInv' /\ SerialInv'
    BY NextIInv, NextSerial
  <1>3. SerialInv => AlarmsAreHeard
    BY DEF SerialInv
  <1> QED BY <1>1, <1>2, <1>3, PTL DEF Spec
=============================================================================
