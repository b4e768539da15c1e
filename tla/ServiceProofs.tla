--------------------------- MODULE ServiceProofs ---------------------------
(***************************************************************************)
(* The services around the guard.  What a report of the canary sandbox     *)
(* (CanarySandbox) is worth, whatever the payload's processes do; what     *)
(* holds of the shared tarballs (RepoTarball) for every list of refs and   *)
(* every limit; what the example registry proxy (VerdictGate) delivers;    *)
(* what the guard hook's allow (InstallHook) means for every command and   *)
(* session; the frames the MCP proxy's transport (McpTransport) writes     *)
(* whatever its two sides send; the enumeration of a server's tools        *)
(* (McpEnumerate) for every limit on pages and output and every frames;    *)
(* and what a lockfile audit (LockfileAudit) reports of any lockfile.      *)
(***************************************************************************)
EXTENDS CanarySandbox, RepoTarball, VerdictGate, InstallHook, McpTransport, McpEnumerate,
        LockfileAudit, FoldTheorems

-----------------------------------------------------------------------------
(* The canary sandbox.                                                       *)

Hits == [id : Nat, to : Destinations, token : BOOLEAN, open : BOOLEAN, carries : BOOLEAN]

CanaryTypes ==
    /\ machine \in Hosts /\ options \in Options /\ sends \in Nat
    /\ hits \subseteq Hits
    /\ inFlight \subseteq [id : Nat, to : Destinations, where : Places]

\* A hit that stands for a message: its token was seen, or will be when the connection ends.
StandsFor(h, m) == h.to = m.to /\ (m.where \in Scanned => h.token \/ (h.open /\ h.carries))

NothingIsLost == \A m \in sent : \E h \in hits : StandsFor(h, m)

\* Before the wrapper is known nothing runs, and the strongest claim rests on the self-test.
ClaimsAreTested ==
    /\ canaryAt = "start" => procs = {} /\ ~escaped
    /\ level = "bwrap+netns" => machine.isolates

CanaryInv == CanaryTypes /\ NothingIsLost /\ ClaimsAreTested /\ ReportsAreHonest

-----------------------------------------------------------------------------

LEMMA CanaryStarts == CanaryInit => CanaryInv
  BY DEF CanaryInit, CanaryInv, CanaryTypes, NothingIsLost, ClaimsAreTested, ReportsAreHonest,
         TransmissionsAreReported, ConfinementIsReal

\* Steps that touch neither what was recorded nor what is claimed.
LEMMA CanaryStutters ==
  ASSUME CanaryInv,
         UNCHANGED <<machine, options, level, inFlight, hits, sent, escaped, verdict>>, sends' \in Nat,
         canaryAt' # "start", canaryAt' = "done" => canaryAt = "done"
  PROVE  CanaryInv'
  <1> USE DEF CanaryInv
  <1>1. CanaryTypes' /\ ClaimsAreTested'
    BY DEF CanaryTypes, ClaimsAreTested
  <1>2. NothingIsLost'
    BY DEF NothingIsLost, StandsFor
  <1>3. ReportsAreHonest'
    BY DEF ReportsAreHonest, TransmissionsAreReported, ConfinementIsReal
  <1> QED
    BY <1>1, <1>2, <1>3

LEMMA PrepareHonest ==
  ASSUME CanaryInv, NEW dial, NEW seeded \in BOOLEAN, Prepare(dial, seeded)
  PROVE  CanaryInv'
  <1> USE DEF CanaryInv
  <1>1. UNCHANGED <<machine, options, inFlight, hits, sends, sent, escaped, verdict, procs>>
    BY DEF Prepare
  <1>2. canaryAt = "start" /\ canaryAt' \in {"refused", "running", "failed"}
    BY DEF Prepare
  <1>3. level' = "bwrap+netns" => level = "bwrap+netns" \/ machine.isolates
    BY CanaryAssumption DEF Prepare, DialAnswers, SelfTest, DetectSandboxWrapper, CanaryTypes
  <1>4. CanaryTypes'
    BY <1>1 DEF CanaryTypes
  <1>5. NothingIsLost'
    BY <1>1 DEF NothingIsLost, StandsFor
  <1>6. ClaimsAreTested'
    BY <1>1, <1>2, <1>3 DEF ClaimsAreTested
  <1>7. ReportsAreHonest'
    BY <1>1, <1>2 DEF ReportsAreHonest, TransmissionsAreReported, ConfinementIsReal, ClaimsAreTested
  <1> QED
    BY <1>4, <1>5, <1>6, <1>7

\* What arrives, and what becomes of an open connection: no message is lost.
LEMMA MessagesAreKept ==
  ASSUME CanaryInv, Listens, hits' \subseteq Hits, \A m \in sent' : \E h \in hits' : StandsFor(h, m),
         inFlight' \subseteq inFlight, sends' \in Nat,
         UNCHANGED <<machine, options, level, escaped, verdict, procs, canaryAt>>
  PROVE  CanaryInv'
  <1> USE DEF CanaryInv
  <1>1. CanaryTypes' /\ ClaimsAreTested'
    BY DEF CanaryTypes, ClaimsAreTested
  <1>2. NothingIsLost'
    BY DEF NothingIsLost, StandsFor
  <1>3. ReportsAreHonest'
    BY DEF ReportsAreHonest, TransmissionsAreReported, ConfinementIsReal, Listens, ProxyIsUp
  <1> QED BY <1>1, <1>2, <1>3

LEMMA ConnectsHonest ==
  ASSUME CanaryInv, NEW p \in procs, NEW to \in Destinations, NEW where \in Places, Connects(p, to, where)
  PROVE  CanaryInv'
  <1> DEFINE g == Recorded(to, where = "head")
             m == [to |-> to, where |-> where]
  <1>1. /\ UNCHANGED <<machine, options, level, inFlight, escaped, verdict, procs, canaryAt>>
        /\ where \in {"none", "head"} /\ sends' = sends + 1
    BY DEF Connects, facts
  <1>2. sends' \in Nat /\ options.mitm \in BOOLEAN
    BY <1>1, CanaryAssumption DEF CanaryInv, CanaryTypes
  <1>3. g \in Hits
    BY <1>1, <1>2 DEF Recorded, Hits
  <1>4. StandsFor(g, m)
    BY <1>1 DEF Recorded, StandsFor, Scanned
  <1>5. CASE Listens /\ hits' = hits \cup {g} /\ sent' = sent \cup {m}
    <2> HIDE DEF g, m
    <2>1. \A n \in sent : \E h \in hits : StandsFor(h, n)
      BY DEF CanaryInv, NothingIsLost
    <2>2. hits' \subseteq Hits /\ \A n \in sent' : \E h \in hits' : StandsFor(h, n)
      BY <1>3, <1>4, <1>5, <2>1 DEF CanaryInv, CanaryTypes
    <2> QED BY <1>1, <1>2, <1>5, <2>2, MessagesAreKept
  <1>6. CASE UNCHANGED <<hits, sent>>
    <2>1. canaryAt # "start"
      BY DEF CanaryInv, ClaimsAreTested
    <2> QED BY <1>1, <1>2, <1>6, <2>1, CanaryStutters
  <1> QED BY <1>5, <1>6 DEF Connects

LEMMA TunnelCarriesHonest ==
  ASSUME CanaryInv, NEW h \in hits, TunnelCarries(h)
  PROVE  CanaryInv'
  <1> DEFINE g == [h EXCEPT !.carries = TRUE]
             m == [to |-> h.to, where |-> "body"]
  <1>1. /\ UNCHANGED <<machine, options, level, inFlight, sends, escaped, verdict, procs, canaryAt>>
        /\ Listens /\ h.open
        /\ hits' = (hits \ {h}) \cup {g} /\ sent' = sent \cup {m}
    BY DEF TunnelCarries, facts
  <1>2. h \in Hits /\ sends \in Nat
    BY DEF CanaryInv, CanaryTypes
  <1>3. g \in Hits /\ g.to = h.to /\ g.token = h.token /\ g.open = h.open /\ g.carries
    BY <1>2 DEF Hits
  <1>4. StandsFor(g, m) /\ \A n : StandsFor(h, n) => StandsFor(g, n)
    <2> HIDE DEF g
    <2> QED BY <1>1, <1>3 DEF StandsFor
  <1> HIDE DEF g, m
  <1>5. \A e \in {h}, n \in sent : StandsFor(e, n) => StandsFor(g, n)
    BY <1>4
  <1>6. \A n \in sent : \E e \in hits : StandsFor(e, n)
    BY DEF CanaryInv, NothingIsLost
  <1>7. \A n \in sent : \E e \in hits' : StandsFor(e, n)
    BY <1>1, <1>5, <1>6
  <1>8. hits' \subseteq Hits /\ \A n \in sent' : \E e \in hits' : StandsFor(e, n)
    BY <1>1, <1>3, <1>4, <1>7 DEF CanaryInv, CanaryTypes
  <1> QED BY <1>1, <1>2, <1>8, MessagesAreKept

LEMMA SendsRequestHonest ==
  ASSUME CanaryInv, NEW p \in procs, NEW to \in Destinations, NEW where \in Places,
         SendsRequest(p, to, where)
  PROVE  CanaryInv'
  <1> USE DEF CanaryInv
  <1>1. /\ UNCHANGED <<machine, options, level, hits, sent, escaped, verdict, procs, canaryAt>>
        /\ sends' = sends + 1
        /\ inFlight' \subseteq inFlight \cup {[id |-> sends + 1, to |-> to, where |-> where]}
    BY DEF SendsRequest, facts
  <1>2. CanaryTypes' /\ ClaimsAreTested'
    BY <1>1 DEF CanaryTypes, ClaimsAreTested
  <1>3. NothingIsLost'
    BY <1>1 DEF NothingIsLost, StandsFor
  <1>4. ReportsAreHonest'
    BY <1>1 DEF ReportsAreHonest, TransmissionsAreReported, ConfinementIsReal
  <1> QED BY <1>2, <1>3, <1>4

LEMMA RequestIsReadHonest ==
  ASSUME CanaryInv, NEW r \in inFlight, RequestIsRead(r)
  PROVE  CanaryInv'
  <1> DEFINE seen == r.where \in Scanned
             g == [id |-> r.id, to |-> r.to, token |-> seen, open |-> FALSE, carries |-> FALSE]
             m == [to |-> r.to, where |-> r.where]
  <1>1. /\ UNCHANGED <<machine, options, level, sends, escaped, verdict, procs, canaryAt>>
        /\ Listens /\ inFlight' = inFlight \ {r}
        /\ hits' = hits \cup {g} /\ sent' = sent \cup {m}
    BY DEF RequestIsRead, facts
  <1>2. r.id \in Nat /\ r.to \in Destinations /\ sends \in Nat
    BY DEF CanaryInv, CanaryTypes
  <1>3. seen \in BOOLEAN
    OBVIOUS
  <1>4. g \in Hits
    <2> HIDE DEF seen
    <2> QED BY <1>2, <1>3 DEF Hits
  <1>5. StandsFor(g, m)
    BY DEF StandsFor
  <1> HIDE DEF g, m
  <1>6. \A n \in sent : \E h \in hits : StandsFor(h, n)
    BY DEF CanaryInv, NothingIsLost
  <1>7. hits' \subseteq Hits /\ \A n \in sent' : \E h \in hits' : StandsFor(h, n)
    BY <1>1, <1>4, <1>5, <1>6 DEF CanaryInv, CanaryTypes
  <1> QED BY <1>1, <1>2, <1>7, MessagesAreKept

LEMMA ConnectionEndsHonest ==
  ASSUME CanaryInv, NEW h \in hits, ConnectionEnds(h)
  PROVE  CanaryInv'
  <1> DEFINE seen == h.token \/ (h.open /\ h.carries)
  <1>1. /\ UNCHANGED <<machine, options, level, inFlight, sends, escaped, verdict, procs, canaryAt, sent>>
        /\ Listens /\ hits' = (hits \ {h}) \cup {Folded(h)}
    BY DEF ConnectionEnds, facts
  <1>2. h \in Hits /\ sends \in Nat
    BY DEF CanaryInv, CanaryTypes
  <1>3. Folded(h) \in Hits /\ Folded(h).to = h.to /\ (Folded(h).token <=> seen)
    BY <1>2 DEF Folded, Hits
  <1>4. \A e \in {h}, m \in sent : StandsFor(e, m) => StandsFor(Folded(h), m)
    BY <1>3 DEF StandsFor
  <1>5. \A n \in sent : \E e \in hits : StandsFor(e, n)
    BY DEF CanaryInv, NothingIsLost
  <1>6. hits' \subseteq Hits /\ \A n \in sent' : \E e \in hits' : StandsFor(e, n)
    BY <1>1, <1>3, <1>4, <1>5 DEF CanaryInv, CanaryTypes
  <1> QED BY <1>1, <1>2, <1>6, MessagesAreKept

LEMMA EvaluateHonest ==
  ASSUME CanaryInv, NEW access \in BOOLEAN, Evaluate(access)
  PROVE  CanaryInv'
  <1> USE DEF CanaryInv
  <1>1. UNCHANGED <<machine, options, level, escaped, inFlight, hits, sends, sent, procs>>
    BY DEF Evaluate, facts
  <1>2. canaryAt' = "done" /\ \A h \in hits : ~h.open
    BY DEF Evaluate
  <1>3. verdict' = IF runtimeHooks \/ \E h \in hits : h.token \/ h.to = "callback" THEN "block"
                   ELSE IF hits # {} \/ access THEN "review" ELSE "not-observed"
    BY DEF Evaluate
  <1>4. TransmissionsAreReported'
    <2> SUFFICES ASSUME NEW m \in sent
                 PROVE  /\ verdict' # "not-observed"
                        /\ m.to = "callback" \/ m.where \in Scanned => verdict' = "block"
      BY <1>1 DEF TransmissionsAreReported
    <2>1. PICK h \in hits : StandsFor(h, m)
      BY DEF NothingIsLost
    <2>2. hits # {}
      BY <2>1
    <2>3. m.to = "callback" \/ m.where \in Scanned => h.token \/ h.to = "callback"
      BY <1>2, <2>1 DEF StandsFor
    <2> QED
      BY <1>3, <2>1, <2>2, <2>3
  <1>5. ConfinementIsReal'
    BY <1>1 DEF ReportsAreHonest, ConfinementIsReal
  <1>6. CanaryTypes' /\ ClaimsAreTested'
    BY <1>1, <1>2 DEF CanaryTypes, ClaimsAreTested
  <1>7. NothingIsLost'
    BY <1>1 DEF NothingIsLost, StandsFor
  <1> QED
    BY <1>4, <1>5, <1>6, <1>7 DEF ReportsAreHonest

LEMMA DialsHonest ==
  ASSUME CanaryInv, NEW p \in procs, Dials(p)
  PROVE  CanaryInv'
  <1> USE DEF CanaryInv
  <1>1. UNCHANGED <<machine, options, level, inFlight, hits, sends, sent, verdict, procs, canaryAt>>
    BY DEF Dials, facts
  <1>2. level \in {"sandbox-exec", "bwrap+netns"} => ~escaped'
    BY DEF Dials, ClaimsAreTested, ReportsAreHonest, ConfinementIsReal
  <1>3. canaryAt # "start"
    BY DEF ClaimsAreTested
  <1>4. CanaryTypes' /\ ClaimsAreTested'
    BY <1>1, <1>3 DEF CanaryTypes, ClaimsAreTested
  <1>5. NothingIsLost'
    BY <1>1 DEF NothingIsLost, StandsFor
  <1>6. ReportsAreHonest'
    BY <1>1, <1>2 DEF ReportsAreHonest, TransmissionsAreReported, ConfinementIsReal
  <1> QED
    BY <1>4, <1>5, <1>6

LEMMA CanarySteps == CanaryInv /\ [CanaryNext]_canaryVars => CanaryInv'
  <1> SUFFICES ASSUME CanaryInv, [CanaryNext]_canaryVars PROVE CanaryInv'
    OBVIOUS
  <1>1. sends \in Nat /\ \A p \in procs : canaryAt # "start"
    BY DEF CanaryInv, CanaryTypes, ClaimsAreTested
  <1>2. CASE PhaseStarts \/ TimesOut \/ PhaseCloses \/ GraceEnds
    BY <1>1, <1>2, CanaryStutters DEF PhaseStarts, TimesOut, PhaseCloses, GraceEnds, facts
  <1>3. ASSUME NEW p \in procs, NEW held \in BOOLEAN, NEW left \in BOOLEAN, Forks(p, held, left)
        PROVE  CanaryInv'
    BY <1>1, <1>3, CanaryStutters DEF Forks, facts
  <1>4. ASSUME NEW p \in procs, ProcessEnds(p) \/ ReadsDecoy(p) \/ Tampers(p)
        PROVE  CanaryInv'
    BY <1>1, <1>4, CanaryStutters DEF ProcessEnds, ReadsDecoy, Tampers, facts
  <1>5. CASE UNCHANGED canaryVars
    <2>1. CASE canaryAt = "start"
      BY <1>5, <2>1 DEF canaryVars, CanaryInv, CanaryTypes, NothingIsLost, StandsFor, ClaimsAreTested,
                   ReportsAreHonest, TransmissionsAreReported, ConfinementIsReal
    <2>2. CASE canaryAt # "start"
      BY <1>1, <1>5, <2>2, CanaryStutters DEF canaryVars
    <2> QED
      BY <2>1, <2>2
  <1>6. ASSUME NEW r \in inFlight, RequestIsCut(r) PROVE CanaryInv'
    <2>1. /\ UNCHANGED <<machine, options, level, sends, hits, sent, escaped, verdict, procs, canaryAt>>
          /\ inFlight' \subseteq inFlight
      BY <1>6 DEF RequestIsCut, facts
    <2> QED BY <2>1 DEF CanaryInv, CanaryTypes, NothingIsLost, StandsFor, ClaimsAreTested,
                        ReportsAreHonest, TransmissionsAreReported, ConfinementIsReal
  <1> QED
    BY <1>2, <1>3, <1>4, <1>5, <1>6, PrepareHonest, ConnectsHonest, TunnelCarriesHonest,
       SendsRequestHonest, RequestIsReadHonest, ConnectionEndsHonest, EvaluateHonest,
       DialsHonest DEF CanaryNext

-----------------------------------------------------------------------------
(* On any machine and for any payload, what was sent to the proxy while it  *)
(* recorded is in the verdict, and a run that claims to be confined let no  *)
(* direct connection out (runCanarySandbox, src/sandbox.js).                *)
THEOREM CanaryReportsAreHonest == CanarySpec => []ReportsAreHonest
  <1>1. CanaryInv => ReportsAreHonest
    BY DEF CanaryInv
  <1> QED
    BY CanaryStarts, CanarySteps, <1>1, PTL DEF CanarySpec

-----------------------------------------------------------------------------
(* The shared tarballs.                                                      *)

Steps == {"looking", "requesting", "receiving", "failing", "thrown", "returned", "null", "failed",
          "crashed"}

FetchTypes ==
    /\ step \in [Fetchers -> Steps]
    /\ ref \in [Fetchers -> Nat \ {0}]
    /\ stream \in [Fetchers -> {"none", "opening", "open", "closed"}]
    /\ present \in [Fetchers -> BOOLEAN]
    /\ missed \in [Fetchers -> SUBSET RefNames]
    /\ DOMAIN status = Fetchers
    /\ DOMAIN tarballs = RefNames

\* A fetch that is past looking works on a candidate; refs passed over were denied.
RefsInOrder ==
    \A f \in Fetchers :
        /\ step[f] \notin {"looking", "null", "failed", "crashed"} => ref[f] \in DOMAIN Candidates
        /\ \A k \in DOMAIN Candidates : k < ref[f] => Candidates[k] \in missed[f]

\* Only a running download has a stream; a download of codeload's is over when its stream is closed,
\* and a stream still opening is what may bring the file back.
FilesAreOwned ==
    \A f \in Fetchers :
        /\ step[f] \in {"looking", "returned", "null", "failed"} => ~present[f] /\ stream[f] = "none"
        /\ step[f] = "crashed" => stream[f] = "none"
        /\ step[f] = "thrown" /\ ~Team => ~present[f] /\ stream[f] = "closed"

TarballsWhole ==
    /\ \A r \in RefNames :
         /\ tarballs[r].chunks \in {0, ChunksOf[r]}
         /\ tarballs[r].fresh => tarballs[r].chunks = ChunksOf[r]
    /\ \A f \in Fetchers :
         step[f] = "returned" => tarballs[Candidate(f)].chunks = ChunksOf[Candidate(f)]

FetchInv == FetchTypes /\ RefsInOrder /\ FilesAreOwned /\ TarballsWhole

-----------------------------------------------------------------------------
(* Each step.                                                              *)

LEMMA CandidatesAreRefs ==
  /\ Len(Candidates) \in Nat /\ DOMAIN Candidates = 1..Len(Candidates)
  /\ \A k \in DOMAIN Candidates : Candidates[k] \in RefNames
  <1> DEFINE Given == {Candidates[k] : k \in DOMAIN Candidates}
  <1>1. Candidates \in Seq(Given)
    BY CandidatesAssumption
  <1>2. Len(Candidates) \in Nat /\ DOMAIN Candidates = 1..Len(Candidates)
    <2> HIDE DEF Given
    <2> QED
      BY <1>1
  <1>3. ASSUME NEW k \in DOMAIN Candidates PROVE Candidates[k] \in RefNames
    BY DEF RefNames
  <1> QED
    BY <1>2, <1>3

LEMMA FetchStarts == FetchInit => FetchInv
  <1> SUFFICES ASSUME FetchInit PROVE FetchInv
    OBVIOUS
  <1>1. FetchTypes
    BY DEF FetchInit, FetchTypes, Steps
  <1>2. RefsInOrder
    <2>1. \A f \in Fetchers : ref[f] = 1 /\ step[f] = "looking"
      BY DEF FetchInit
    <2>2. \A k \in DOMAIN Candidates : k \in Nat /\ ~(k < 1)
      BY CandidatesAreRefs
    <2> QED
      BY <2>1, <2>2 DEF RefsInOrder
  <1>3. FilesAreOwned
    BY DEF FetchInit, FilesAreOwned
  <1>4. TarballsWhole
    BY DEF FetchInit, TarballsWhole, NoTarball
  <1> QED
    BY <1>1, <1>2, <1>3, <1>4 DEF FetchInv

LEMMA FetchSteps == FetchInv /\ [FetchNext]_fetchVars => FetchInv'
  <1> SUFFICES ASSUME FetchInv, [FetchNext]_fetchVars PROVE FetchInv'
    OBVIOUS
  <1> USE CandidatesAreRefs DEF FetchInv, FetchTypes, RefsInOrder, FilesAreOwned, TarballsWhole, Steps,
        Candidate, Team, Transferring
  <1>1. ASSUME NEW f \in Fetchers, FindsTarball(f) PROVE FetchInv'
    <2>1. CASE ref[f] > Len(Candidates) /\ step' = [step EXCEPT ![f] = "null"]
               /\ UNCHANGED <<hop, got, status, stream>>
      BY <1>1, <2>1 DEF FindsTarball
    <2>2. CASE /\ ref[f] <= Len(Candidates) /\ tarballs[Candidate(f)].fresh
               /\ step' = [step EXCEPT ![f] = "returned"]
               /\ UNCHANGED <<hop, got, status, stream>>
      BY <1>1, <2>2 DEF FindsTarball
    <2>3. CASE /\ ref[f] <= Len(Candidates)
               /\ step' = [step EXCEPT ![f] = "requesting"]
               /\ stream' = [stream EXCEPT ![f] = "opening"]
               /\ status' = [status EXCEPT ![f] = "none"]
      BY <1>1, <2>3 DEF FindsTarball
    <2> QED
      BY <1>1, <2>1, <2>2, <2>3 DEF FindsTarball
  <1>2. ASSUME NEW f \in Fetchers, NEW why \in {"error", "404"}, Transferring(f), Fails(f, why)
        PROVE  FetchInv'
    BY <1>2 DEF Fails
  <1>3. ASSUME NEW f \in Fetchers, FileOpens(f) PROVE FetchInv'
    BY <1>3 DEF FileOpens
  <1>4. ASSUME NEW f \in Fetchers, OpenFails(f) PROVE FetchInv'
    <2>1. CASE step' = [step EXCEPT ![f] = "failing"] /\ status' = [status EXCEPT ![f] = "error"]
      BY <1>4, <2>1 DEF OpenFails
    <2>2. CASE UNCHANGED <<step, status>>
      BY <1>4, <2>2 DEF OpenFails
    <2> QED BY <1>4, <2>1, <2>2 DEF OpenFails
  <1>5. ASSUME NEW f \in Fetchers, NEW location \in Locations, Redirected(f, location)
        PROVE  FetchInv'
    <2>1. CASE Fails(f, "error")
      BY <1>2, <1>5, <2>1 DEF Redirected
    <2>2. CASE UNCHANGED <<published, config, step, ref, stream, got, present, status, missed, tarballs,
                           tarballCrashes>>
      BY <2>2
    <2> QED
      BY <1>5, <2>1, <2>2 DEF Redirected
  <1>6. ASSUME NEW f \in Fetchers, Answered(f) PROVE FetchInv'
    BY <1>6 DEF Answered
  <1>7. ASSUME NEW f \in Fetchers, Receives(f) PROVE FetchInv'
    <2>1. CASE Fails(f, "error")
      BY <1>2, <1>7, <2>1 DEF Receives
    <2>2. CASE UNCHANGED <<published, config, step, ref, hop, stream, present, status, missed, tarballs,
                           tarballCrashes>>
      BY <2>2
    <2> QED
      BY <1>7, <2>1, <2>2 DEF Receives
  <1>8. ASSUME NEW f \in Fetchers, Renames(f) PROVE FetchInv'
    BY <1>8 DEF Renames, Flushed
  <1>9. ASSUME NEW f \in Fetchers, FileCloses(f) PROVE FetchInv'
    BY <1>9 DEF FileCloses
  <1>10. ASSUME NEW f \in Fetchers, Unlinks(f) PROVE FetchInv'
    BY <1>10 DEF Unlinks, AwaitsClose
  <1>11. ASSUME NEW f \in Fetchers, Retries(f) PROVE FetchInv'
    <2>1. FetchTypes'
      <3>1. Candidate(f) \in RefNames
        BY <1>11 DEF Retries
      <3>2. missed' \in [Fetchers -> SUBSET RefNames]
        <4> HIDE DEF Candidate
        <4> QED
          BY <1>11, <3>1 DEF Retries
      <3>3. ref' \in [Fetchers -> Nat \ {0}]
        BY <1>11 DEF Retries
      <3>4. step' \in [Fetchers -> Steps]
        BY <1>11 DEF Retries
      <3> QED
        BY <1>11, <3>2, <3>3, <3>4 DEF Retries
    <2>2. FilesAreOwned'
      BY <1>11 DEF Retries
    <2>3. TarballsWhole'
      BY <1>11 DEF Retries
    <2>4. RefsInOrder'
      <3>1. CASE step' = [step EXCEPT ![f] = "failed"] /\ UNCHANGED <<missed, ref>>
        BY <3>1
      <3>2. CASE /\ step' = [step EXCEPT ![f] = "looking"]
                 /\ missed' = [missed EXCEPT ![f] = @ \cup {Candidate(f)}]
                 /\ ref' = [ref EXCEPT ![f] = @ + 1]
        <4>1. ref[f] \in DOMAIN Candidates
          BY <1>11 DEF Retries
        <4>2. \A k \in DOMAIN Candidates : k < ref[f] + 1 => k < ref[f] \/ k = ref[f]
          OBVIOUS
        <4>3. \A k \in DOMAIN Candidates : k < ref'[f] => Candidates[k] \in missed'[f]
          BY <3>2, <4>1, <4>2
        <4> QED
          BY <3>2, <4>3
      <3> QED
        BY <1>11, <3>1, <3>2 DEF Retries
    <2> QED
      BY <2>1, <2>2, <2>3, <2>4
  <1>12. ASSUME NEW f \in Fetchers, FetchCrashes(f) PROVE FetchInv'
    BY <1>12 DEF FetchCrashes
  <1>13. ASSUME NEW r \in RefNames, TarballExpires(r) PROVE FetchInv'
    BY <1>13 DEF TarballExpires
  <1>14. ASSUME NEW r \in RefNames, Publishes(r) PROVE FetchInv'
    BY <1>14 DEF Publishes
  <1>15. CASE UNCHANGED fetchVars
    BY <1>15 DEF fetchVars
  <1> QED
    BY <1>1, <1>2, <1>3, <1>4, <1>5, <1>6, <1>7, <1>8, <1>9, <1>10, <1>11, <1>12, <1>13, <1>14, <1>15
    DEF FetchNext, Cut, DeadlinePasses, Refused, Errors

\* Nothing beyond the limit is received, and so nothing beyond it is shared.
Metered ==
    /\ DOMAIN tarballs = RefNames
    /\ got \in [Fetchers -> 0 .. MaxChunks]
    /\ \A r \in RefNames : tarballs[r].chunks \in 0 .. MaxChunks

LEMMA MeterStarts == FetchInit => Metered
  BY LimitAssumption DEF FetchInit, Metered, NoTarball

LEMMA MeterHolds == Metered /\ [FetchNext]_fetchVars => Metered'
  <1> SUFFICES ASSUME Metered, [FetchNext]_fetchVars PROVE Metered'
    OBVIOUS
  <1> USE LimitAssumption DEF Metered
  <1>1. CASE UNCHANGED <<got, tarballs>>
    BY <1>1
  <1>2. ASSUME NEW f \in Fetchers, FindsTarball(f) PROVE Metered'
    <2>1. UNCHANGED tarballs /\ (UNCHANGED got \/ got' = [got EXCEPT ![f] = 0])
      BY <1>2 DEF FindsTarball
    <2> QED BY <2>1
  <1>3. ASSUME NEW f \in Fetchers, Receives(f) PROVE Metered'
    <2>1. UNCHANGED tarballs /\ (UNCHANGED got \/ (got[f] < MaxChunks /\ got' = [got EXCEPT ![f] = @ + 1]))
      BY <1>3 DEF Receives, Fails
    <2> QED BY <2>1
  <1>4. ASSUME NEW f \in Fetchers, Renames(f) PROVE Metered'
    <2>1. UNCHANGED got /\ tarballs' = [tarballs EXCEPT ![Candidate(f)] = [chunks |-> got[f], fresh |-> TRUE]]
      BY <1>4 DEF Renames
    <2> HIDE DEF Metered
    <2>2. got[f] \in 0 .. MaxChunks
      BY DEF Metered
    <2> QED BY <2>1, <2>2 DEF Metered
  <1>5. ASSUME NEW r \in RefNames, TarballExpires(r) PROVE Metered'
    <2>1. UNCHANGED got /\ tarballs' = [tarballs EXCEPT ![r].fresh = FALSE]
      BY <1>5 DEF TarballExpires
    <2>2. \A q \in RefNames : tarballs'[q].chunks = tarballs[q].chunks
      BY <2>1
    <2>3. DOMAIN tarballs' = RefNames
      BY <2>1
    <2> QED BY <2>1, <2>2, <2>3
  <1>6. ASSUME NEW f \in Fetchers,
               \/ Cut(f) \/ DeadlinePasses(f) \/ FileOpens(f) \/ OpenFails(f) \/ Refused(f) \/ Errors(f)
               \/ Answered(f) \/ FileCloses(f) \/ Unlinks(f) \/ Retries(f) \/ FetchCrashes(f)
               \/ \E location \in Locations : Redirected(f, location)
        PROVE  Metered'
    BY <1>1, <1>6 DEF Cut, DeadlinePasses, FileOpens, OpenFails, Refused, Errors, Answered, FileCloses,
                      Unlinks, Retries, FetchCrashes, Redirected, Fails
  <1>7. CASE \E r \in RefNames : Publishes(r)
    BY <1>1, <1>7 DEF Publishes
  <1> QED BY <1>1, <1>2, <1>3, <1>4, <1>5, <1>6, <1>7 DEF FetchNext, fetchVars

-----------------------------------------------------------------------------
(* For any refs, sizes, redirects and any number of fetchers and crashes,    *)
(* every file of the shared directory is whole and within the limit, a       *)
(* failed download's file is gone although it may have been opening, and a   *)
(* ref is passed over only after upstream denied it                          *)
(* (fetchRepoTarballForVersion of src/github.js, downloadFile of             *)
(* src/http-client.js).                                                      *)
THEOREM SharedTarballsAreWhole == FetchSpec => []TarballsAreWhole
  <1>1. FetchInv /\ Metered => TarballsAreWhole
    BY LimitAssumption DEF FetchInv, FetchTypes, RefsInOrder, FilesAreOwned, TarballsWhole, Metered,
                           TarballsAreWhole
  <1> QED
    BY FetchStarts, FetchSteps, MeterStarts, MeterHolds, <1>1, PTL DEF FetchSpec

-----------------------------------------------------------------------------
(* The verdict gate of the registry proxy.                                   *)

Stages == {"new", "acquiring", "passing", "scanning", "serving", "rechecking", "planning",
           "done", "gone"}
CallRecords == [at : Stages, pkg : Packages, sha : Artifacts \cup {NoBytes},
                policy : Policies \cup {"none"}, during : SUBSET Policies, todo : SUBSET Packages]

GateTypes ==
    /\ calls \in [Callers -> CallRecords]
    /\ DOMAIN store = Packages /\ DOMAIN saved = Packages /\ DOMAIN looked = Packages
    /\ \A p \in Packages : store[p].at \in Nat /\ saved[p].at \in Nat
    /\ clock \in Nat /\ policy \in Policies /\ upstream \in Artifacts

\* An entry with an approval is the last completed look at its package.
EntryIsLook(e, look) ==
    e.binding.approval # << >> =>
       /\ look.kind = "scan" /\ look.complete
       /\ look.sha = e.binding.sha
       /\ look.build = e.binding.approval.build
       /\ look.policy = e.binding.approval.policy
       /\ look.decision = e.decision
       /\ look.at = e.at
EntriesAreLooks == \A p \in Packages : p \notin forgotten => EntryIsLook(store[p], looked[p])

ApprovalInv == GateTypes /\ EntriesAreLooks

LEMMA NoCallType == NoCall \in CallRecords
  <1>1. (CHOOSE p \in Packages : TRUE) \in Packages
    BY VerdictGateAssumption
  <1> QED BY <1>1 DEF NoCall, CallRecords, Stages

\* Moving a request on keeps it a request.
LEMMA EndedType ==
    ASSUME NEW at \in Stages
    PROVE  [NoCall EXCEPT !.at = at] \in CallRecords
  BY NoCallType DEF CallRecords

LEMMA GateStarts == GateInit => ApprovalInv
  <1> SUFFICES ASSUME GateInit PROVE ApprovalInv
    OBVIOUS
  <1>1. policy \in Policies /\ upstream \in Artifacts
    BY VerdictGateAssumption DEF GateInit
  <1>2. GateTypes
    BY <1>1, NoCallType DEF GateInit, GateTypes, NoEntry
  <1>3. EntriesAreLooks
    BY DEF GateInit, EntriesAreLooks, EntryIsLook, NoEntry, Unbound
  <1> QED BY <1>2, <1>3 DEF ApprovalInv

\* A step of one request that leaves the store alone.
LEMMA StoreUntouched ==
    ASSUME ApprovalInv, calls' \in [Callers -> CallRecords],
           UNCHANGED <<store, saved, looked, clock, policy, upstream, forgotten>>
    PROVE  ApprovalInv'
  BY DEF ApprovalInv, GateTypes, EntriesAreLooks

LEMMA RequestEnds ==
    ASSUME ApprovalInv, NEW r \in Callers, Ends(r)
    PROVE  calls' \in [Callers -> CallRecords]
  <1>1. [NoCall EXCEPT !.at = "done"] \in CallRecords
    BY EndedType DEF Stages
  <1> QED BY <1>1 DEF ApprovalInv, GateTypes, Ends

\* Recording a decision together with the look it comes from.
LEMMA RecordedIsLook ==
    ASSUME ApprovalInv, NEW p \in Packages, NEW decision, NEW binding, NEW persisted \in BOOLEAN,
           NEW kind, NEW sha, NEW a,
           Record(p, decision, binding, persisted), Looks(p, kind, sha, a),
           calls' \in [Callers -> CallRecords], UNCHANGED <<clock, policy, upstream, forgotten>>,
           binding.approval # << >> =>
              /\ kind = "scan" /\ a.complete /\ binding.approval = a
              /\ binding.sha = sha /\ a.decision = decision
    PROVE  ApprovalInv'
  <1> DEFINE entry == [decision |-> decision, at |-> clock, binding |-> binding]
             look  == [kind |-> kind, sha |-> sha, policy |-> a.policy, build |-> a.build,
                       decision |-> a.decision, complete |-> a.complete, at |-> clock]
  <1>1. EntryIsLook(entry, look)
    BY DEF EntryIsLook
  <1>2. /\ store' = [store EXCEPT ![p] = entry] /\ looked' = [looked EXCEPT ![p] = look]
        /\ saved' = store' \/ saved' = saved
    BY DEF Record, Looks
  <1>0. clock \in Nat /\ entry.at = clock
    BY DEF ApprovalInv, GateTypes
  <1> HIDE DEF entry, look
  <1>3. GateTypes'
    BY <1>0, <1>2 DEF ApprovalInv, GateTypes
  <1>4. EntriesAreLooks'
    BY <1>1, <1>2 DEF ApprovalInv, GateTypes, EntriesAreLooks
  <1> QED BY <1>3, <1>4 DEF ApprovalInv

LEMMA RequestKeeps ==
    ASSUME ApprovalInv, NEW r \in Callers, NEW path \in Paths, NEW method, Request(r, path, method)
    PROVE  ApprovalInv'
  <1>1. CASE Ends(r)
    BY <1>1, RequestEnds, StoreUntouched DEF Request, world
  <1>2. CASE /\ IsCanonical(path)
             /\ Fetch(r, [name |-> path.name, version |-> path.file[2]])
    <2> DEFINE p == [name |-> path.name, version |-> path.file[2]]
    <2>1. p \in Packages
      BY <1>2, VerdictGateAssumption DEF IsCanonical, Names, Versions
    <2> HIDE DEF p
    <2>2. [NoCall EXCEPT !.at = "acquiring", !.pkg = p] \in CallRecords
      BY <2>1, NoCallType DEF CallRecords, Stages
    <2>3. calls' \in [Callers -> CallRecords]
      BY <1>2, <2>2 DEF Fetch, ApprovalInv, GateTypes, p
    <2> QED BY <2>3, StoreUntouched DEF Request, world
  <1>3. CASE calls' = [calls EXCEPT ![r] = [NoCall EXCEPT !.at = "passing"]]
    <2>1. [NoCall EXCEPT !.at = "passing"] \in CallRecords
      BY EndedType DEF Stages
    <2>2. calls' \in [Callers -> CallRecords]
      BY <1>3, <2>1 DEF ApprovalInv, GateTypes
    <2> QED BY <2>2, StoreUntouched DEF Request, world
  <1> QED BY <1>1, <1>2, <1>3 DEF Request

LEMMA AcquireKeeps ==
    ASSUME ApprovalInv, NEW r \in Callers, Acquire(r)
    PROVE  ApprovalInv'
  <1> DEFINE c == [calls[r] EXCEPT !.sha = upstream, !.policy = policy]
  <1>1. c \in CallRecords
    BY DEF ApprovalInv, GateTypes, CallRecords
  <1> HIDE DEF c
  <1>2. \/ calls' = [calls EXCEPT ![r] = [c EXCEPT !.at = "serving"]]
        \/ Ends(r)
        \/ calls' = [calls EXCEPT ![r] = [c EXCEPT !.at = "scanning", !.during = {policy}]]
    BY DEF Acquire, c
  <1>3. /\ [c EXCEPT !.at = "serving"] \in CallRecords
        /\ [c EXCEPT !.at = "scanning", !.during = {policy}] \in CallRecords
    BY <1>1 DEF ApprovalInv, GateTypes, CallRecords, Stages
  <1>4. calls' \in [Callers -> CallRecords]
    BY <1>2, <1>3, RequestEnds DEF ApprovalInv, GateTypes
  <1> QED BY <1>4, StoreUntouched DEF Acquire, world

LEMMA ScanEndsKeeps ==
    ASSUME ApprovalInv, NEW r \in Callers, NEW decision \in Cacheable, NEW a \in Receipts(r, decision),
           NEW persisted \in BOOLEAN, ScanEnds(r, decision, a, persisted)
    PROVE  ApprovalInv'
  <1>1. calls[r] \in CallRecords /\ calls[r].pkg \in Packages
    BY DEF ApprovalInv, GateTypes, CallRecords
  <1>2. calls' \in [Callers -> CallRecords]
    <2>1. CASE calls' = [calls EXCEPT ![r].at = "serving"]
      <3>1. [calls[r] EXCEPT !.at = "serving"] \in CallRecords
        BY <1>1 DEF CallRecords, Stages
      <3> QED BY <2>1, <3>1 DEF ApprovalInv, GateTypes
    <2>2. CASE Ends(r)
      BY <2>2, RequestEnds
    <2> QED BY <2>1, <2>2 DEF ScanEnds
  <1>3. CASE UNCHANGED <<store, saved, looked>>
    BY <1>2, <1>3, StoreUntouched DEF ScanEnds, world
  <1>4. CASE /\ decision = "block" \/ Bound(a, calls[r], decision)
             /\ Record(calls[r].pkg, decision, BindingOf(r, decision, a), persisted)
             /\ Looks(calls[r].pkg, "scan", calls[r].sha, a)
    <2> DEFINE binding == BindingOf(r, decision, a)
    <2>1. /\ binding.sha = calls[r].sha
          /\ binding.approval = IF decision = "block" THEN << >> ELSE a
      BY DEF BindingOf
    <2>2. a.decision = decision
      BY DEF Receipts
    <2>3. decision # "block" => a.complete
      BY <1>4 DEF Bound
    <2> HIDE DEF binding
    <2> QED BY <1>1, <1>2, <1>4, <2>1, <2>2, <2>3, RecordedIsLook DEF ScanEnds, world, binding
  <1> QED BY <1>3, <1>4 DEF ScanEnds

\* A look by name and version leaves an entry that approves nothing.
LEMMA RecheckKeeps ==
    ASSUME ApprovalInv, NEW r \in Callers, NEW p \in Packages, NEW d, NEW persisted \in BOOLEAN,
           RecheckOne(r, p, d, persisted)
    PROVE  ApprovalInv'
  <1>1. [calls[r] EXCEPT !.todo = @ \ {p}] \in CallRecords
    BY DEF ApprovalInv, GateTypes, CallRecords
  <1>2. calls' \in [Callers -> CallRecords]
    <2>1. CASE calls' = [calls EXCEPT ![r].todo = @ \ {p}]
      BY <1>1, <2>1 DEF ApprovalInv, GateTypes
    <2>2. CASE Ends(r)
      BY <2>2, RequestEnds
    <2> QED BY <2>1, <2>2 DEF RecheckOne
  <1>3. CASE UNCHANGED <<store, saved, looked>>
    BY <1>2, <1>3, StoreUntouched DEF RecheckOne, world
  <1>4. CASE Record(p, d, Unbound, persisted) /\ Looks(p, "name", NoBytes, ByName(d))
    <2>1. Unbound.approval = << >>
      BY DEF Unbound
    <2> QED BY <1>2, <1>4, <2>1, RecordedIsLook DEF RecheckOne, world
  <1> QED BY <1>3, <1>4 DEF RecheckOne

LEMMA PlanEndsKeeps ==
    ASSUME ApprovalInv, NEW r \in Callers, NEW d, NEW persisted \in BOOLEAN, PlanEnds(r, d, persisted)
    PROVE  ApprovalInv'
  <1>1. calls' \in [Callers -> CallRecords]
    BY RequestEnds DEF PlanEnds
  <1>2. CASE UNCHANGED <<store, saved, looked>>
    BY <1>1, <1>2, StoreUntouched DEF PlanEnds, world
  <1>3. CASE Record(calls[r].pkg, d, Unbound, persisted) /\ Looks(calls[r].pkg, "name", NoBytes, ByName(d))
    <2>1. calls[r].pkg \in Packages
      BY DEF ApprovalInv, GateTypes, CallRecords
    <2>2. Unbound.approval = << >>
      BY DEF Unbound
    <2> QED BY <1>1, <1>3, <2>1, <2>2, RecordedIsLook DEF PlanEnds, world
  <1> QED BY <1>2, <1>3 DEF PlanEnds

\* The other steps of a request move it along and no more.
LEMMA RequestMoves ==
    ASSUME ApprovalInv, NEW r \in Callers,
           \/ PassThrough(r) \/ AcquireFails(r) \/ ScanFails(r) \/ Served(r) \/ RecheckEnds(r)
           \/ \E p \in Packages : Plan(r, p)
           \/ \E person \in Persons, method \in {"GET", "POST"} : Recheck(r, person, method)
    PROVE  ApprovalInv'
  <1>1. CASE Ends(r) /\ UNCHANGED <<store, saved, looked, world>>
    BY <1>1, RequestEnds, StoreUntouched DEF world
  <1>2. CASE PassThrough(r) \/ AcquireFails(r) \/ ScanFails(r) \/ Served(r) \/ RecheckEnds(r)
    BY <1>1, <1>2 DEF PassThrough, AcquireFails, ScanFails, Served, RecheckEnds
  <1>3. ASSUME NEW p \in Packages, Plan(r, p) PROVE ApprovalInv'
    <2>1. CASE calls' = [calls EXCEPT ![r].at = "planning", ![r].pkg = p]
      <3>1. [calls[r] EXCEPT !.at = "planning", !.pkg = p] \in CallRecords
        BY DEF ApprovalInv, GateTypes, CallRecords, Stages
      <3>2. calls' \in [Callers -> CallRecords]
        BY <2>1, <3>1 DEF ApprovalInv, GateTypes
      <3> QED BY <1>3, <3>2, StoreUntouched DEF Plan, world
    <2> QED BY <1>1, <1>3, <2>1 DEF Plan
  <1>4. ASSUME NEW person \in Persons, NEW method \in {"GET", "POST"}, Recheck(r, person, method)
        PROVE  ApprovalInv'
    <2>1. CASE calls' = [calls EXCEPT ![r].at = "rechecking", ![r].todo = Entries]
      <3>1. Entries \subseteq Packages
        BY DEF Entries
      <3>2. [calls[r] EXCEPT !.at = "rechecking", !.todo = Entries] \in CallRecords
        BY <3>1 DEF ApprovalInv, GateTypes, CallRecords, Stages
      <3>3. calls' \in [Callers -> CallRecords]
        BY <2>1, <3>2 DEF ApprovalInv, GateTypes
      <3> QED BY <1>4, <3>3, StoreUntouched DEF Recheck, world
    <2> QED BY <1>1, <1>4, <2>1 DEF Recheck
  <1> QED BY <1>2, <1>3, <1>4

LEMMA WorldMoves ==
    ASSUME ApprovalInv,
           \/ Tick
           \/ \E new \in Policies : EditPolicy(new)
           \/ \E new \in Artifacts : Republish(new)
           \/ \E new \in Builds : Upgrade(new)
    PROVE  ApprovalInv'
  <1> USE DEF ApprovalInv, GateTypes, EntriesAreLooks
  <1>1. CASE Tick
    BY <1>1 DEF Tick
  <1>2. ASSUME NEW new \in Policies, EditPolicy(new) PROVE ApprovalInv'
    <2>1. \A r \in Callers : [calls[r] EXCEPT !.during = @ \cup {new}] \in CallRecords
      BY DEF CallRecords
    <2> QED BY <1>2, <2>1 DEF EditPolicy
  <1>3. ASSUME NEW new \in Artifacts, Republish(new) PROVE ApprovalInv'
    BY <1>3 DEF Republish
  <1>4. ASSUME NEW new \in Builds, Upgrade(new) PROVE ApprovalInv'
    BY <1>4 DEF Upgrade
  <1> QED BY <1>1, <1>2, <1>3, <1>4

\* A restart takes the store back to its file and remembers what that lost.
LEMMA RestartKeeps ==
    ASSUME ApprovalInv, NEW serveReview \in BOOLEAN, Restart(serveReview)
    PROVE  ApprovalInv'
  <1>1. \A r \in Callers : calls'[r] \in CallRecords
    <2>1. \A at \in Stages : [NoCall EXCEPT !.at = at] \in CallRecords
      BY EndedType
    <2>2. ASSUME NEW r \in Callers
          PROVE  calls'[r] = [NoCall EXCEPT !.at = IF calls[r].at = "new" THEN "new"
                                 ELSE IF r \in snapshots THEN "gone" ELSE "done"]
      BY DEF Restart
    <2> QED BY <2>1, <2>2 DEF Stages
  <1>2. GateTypes'
    BY <1>1 DEF Restart, ApprovalInv, GateTypes
  <1>3. EntriesAreLooks'
    <2>1. \A p \in Packages : p \notin forgotten' => p \notin forgotten /\ store'[p] = store[p]
      BY DEF Restart
    <2> QED BY <2>1 DEF Restart, ApprovalInv, EntriesAreLooks
  <1> QED BY <1>2, <1>3 DEF ApprovalInv

LEMMA ApprovalStep == ApprovalInv /\ [GateNext]_gateVars => ApprovalInv'
  <1> SUFFICES ASSUME ApprovalInv, [GateNext]_gateVars PROVE ApprovalInv'
    OBVIOUS
  <1>1. CASE UNCHANGED gateVars
    BY <1>1 DEF gateVars, ApprovalInv, GateTypes, EntriesAreLooks
  <1> QED BY <1>1, RequestKeeps, AcquireKeeps, ScanEndsKeeps, RecheckKeeps, PlanEndsKeeps,
             RequestMoves, WorldMoves, RestartKeeps DEF GateNext

\* The two steps that begin to serve.
Approved(r) ==
    LET c    == calls'[r]
        look == looked'[c.pkg]
    IN  \/ /\ look.kind = "scan" /\ look.complete /\ look.sha = c.sha
           /\ look.build = gateConfig.build /\ look.policy = c.policy
           /\ Serves(look.decision) /\ clock - look.at <= Ttl
        \/ c.pkg \in forgotten

LEMMA HitIsApproved ==
    ASSUME ApprovalInv, NEW r \in Callers, Acquire(r), calls'[r].at = "serving"
    PROVE  Approved(r)
  <1> DEFINE c == [calls[r] EXCEPT !.sha = upstream, !.policy = policy]
             e == store[c.pkg]
  <1>1. c \in CallRecords /\ c.pkg \in Packages
    BY DEF ApprovalInv, GateTypes, CallRecords
  <1> HIDE DEF c
  <1>2. Valid(e, c) /\ ~IsStale(e) /\ Serves(e.decision)
        /\ calls' = [calls EXCEPT ![r] = [c EXCEPT !.at = "serving"]]
    <2>1. Ends(r) => calls'[r].at # "serving"
      BY NoCallType DEF Ends, ApprovalInv, GateTypes, CallRecords
    <2>2. calls' = [calls EXCEPT ![r] = [c EXCEPT !.at = "scanning", !.during = {policy}]]
            => calls'[r].at # "serving"
      BY <1>1 DEF ApprovalInv, GateTypes, CallRecords
    <2> QED BY <2>1, <2>2 DEF Acquire, c
  <1>3. calls'[r].pkg = c.pkg /\ calls'[r].sha = c.sha /\ calls'[r].policy = c.policy
    BY <1>1, <1>2 DEF ApprovalInv, GateTypes, CallRecords
  <1>4. UNCHANGED looked
    BY DEF Acquire
  <1> HIDE DEF e
  <1>5. e.decision # "block"
    BY <1>2 DEF Serves
  <1>6. /\ e.binding.sha = c.sha /\ e.binding.approval # << >>
        /\ e.binding.approval.build = gateConfig.build /\ e.binding.approval.policy = c.policy
    BY <1>2, <1>5 DEF Valid, Bound
  <1>7. clock - e.at <= Ttl
    <2>1. e.at \in Nat
      BY <1>1 DEF ApprovalInv, GateTypes, e
    <2> QED BY <1>2, <2>1, VerdictGateAssumption DEF IsStale, ApprovalInv, GateTypes
  <1>8. c.pkg \notin forgotten => EntryIsLook(e, looked[c.pkg])
    BY <1>1 DEF ApprovalInv, EntriesAreLooks, e
  <1> QED BY <1>2, <1>3, <1>4, <1>6, <1>7, <1>8 DEF Approved, EntryIsLook

LEMMA ScanIsApproved ==
    ASSUME ApprovalInv, NEW r \in Callers, NEW decision \in Cacheable, NEW a \in Receipts(r, decision),
           NEW persisted \in BOOLEAN, ScanEnds(r, decision, a, persisted), calls'[r].at = "serving"
    PROVE  Approved(r)
  <1>1. calls[r] \in CallRecords /\ calls[r].pkg \in Packages
    BY DEF ApprovalInv, GateTypes, CallRecords
  <1>2. Ends(r) => calls'[r].at # "serving"
    BY NoCallType DEF Ends, ApprovalInv, GateTypes, CallRecords
  <1>3. /\ decision = "block" \/ Bound(a, calls[r], decision)
        /\ Serves(decision)
        /\ Looks(calls[r].pkg, "scan", calls[r].sha, a)
        /\ calls' = [calls EXCEPT ![r].at = "serving"]
        /\ UNCHANGED <<gateConfig, clock>>
    BY <1>2 DEF ScanEnds, world
  <1>4. /\ a.complete /\ a.build = gateConfig.build /\ a.policy = calls[r].policy /\ a.decision = decision
    BY <1>3 DEF Bound, Serves
  <1>5. calls'[r].pkg = calls[r].pkg /\ calls'[r].sha = calls[r].sha /\ calls'[r].policy = calls[r].policy
    BY <1>1, <1>3 DEF ApprovalInv, GateTypes, CallRecords
  <1>6. looked'[calls[r].pkg] =
           [kind |-> "scan", sha |-> calls[r].sha, policy |-> a.policy, build |-> a.build,
            decision |-> a.decision, complete |-> a.complete, at |-> clock]
    BY <1>1, <1>3 DEF Looks, ApprovalInv, GateTypes
  <1>7. clock - clock <= Ttl
    BY VerdictGateAssumption DEF ApprovalInv, GateTypes
  <1> QED BY <1>3, <1>4, <1>5, <1>6, <1>7 DEF Approved

\* What the proxy begins to serve was approved by the last completed look at the
\* package: a complete scan of these bytes, by this build, under the policy the
\* request loaded and within the time to live (artifact-gate.js:68), whatever
\* changed, was rechecked, failed to be saved or restarted in between.
THEOREM DeliveriesAreApproved == GateSpec => DeliveryIsApproved
  <1>1. ApprovalInv /\ [GateNext]_gateVars
           => [\A r \in Callers : calls[r].at # "serving" /\ calls'[r].at = "serving" =>
                 LET c    == calls'[r]
                     look == looked'[c.pkg]
                 IN  \/ /\ look.kind = "scan" /\ look.complete /\ look.sha = c.sha
                        /\ look.build = gateConfig.build /\ look.policy = c.policy
                        /\ Serves(look.decision) /\ clock - look.at <= Ttl
                     \/ c.pkg \in forgotten]_gateVars
    <2> SUFFICES ASSUME ApprovalInv, GateNext, NEW r \in Callers,
                        calls[r].at # "serving", calls'[r].at = "serving"
                 PROVE  Approved(r)
      BY DEF Approved
    <2> USE DEF ApprovalInv, GateTypes
    <2>1. ASSUME NEW q \in Callers, Ends(q) PROVE FALSE
      BY <2>1, NoCallType DEF Ends, CallRecords
    <2>2. ASSUME NEW q \in Callers, NEW path \in Paths, NEW method, Request(q, path, method) PROVE FALSE
      <3>1. calls'[q].at # "serving" /\ (q # r => calls'[r] = calls[r])
        BY <2>1, <2>2, NoCallType DEF Request, Fetch, CallRecords
      <3> QED BY <3>1
    <2>3. ASSUME NEW q \in Callers,
                 \/ PassThrough(q) \/ AcquireFails(q) \/ ScanFails(q) \/ Served(q) \/ RecheckEnds(q)
                 \/ \E d \in Outcomes, persisted \in BOOLEAN : PlanEnds(q, d, persisted)
          PROVE  FALSE
      BY <2>1, <2>3 DEF PassThrough, AcquireFails, ScanFails, Served, RecheckEnds, PlanEnds
    <2>4. ASSUME NEW q \in Callers, NEW p \in Packages, NEW d, NEW persisted \in BOOLEAN,
                 RecheckOne(q, p, d, persisted)
          PROVE  FALSE
      <3>1. calls' = [calls EXCEPT ![q].todo = @ \ {p}] /\ calls[q].at = "rechecking"
        BY <2>1, <2>4 DEF RecheckOne
      <3>2. calls'[q].at = "rechecking" /\ (q # r => calls'[r] = calls[r])
        BY <3>1 DEF CallRecords
      <3> QED BY <3>2
    <2>5. ASSUME NEW q \in Callers, NEW p \in Packages, Plan(q, p) PROVE FALSE
      <3>1. calls' = [calls EXCEPT ![q].at = "planning", ![q].pkg = p]
        BY <2>1, <2>5 DEF Plan
      <3>2. calls'[q].at = "planning" /\ (q # r => calls'[r] = calls[r])
        BY <3>1 DEF CallRecords
      <3> QED BY <3>2
    <2>6. ASSUME NEW q \in Callers, NEW person, NEW method, Recheck(q, person, method) PROVE FALSE
      <3>1. calls' = [calls EXCEPT ![q].at = "rechecking", ![q].todo = Entries]
        BY <2>1, <2>6 DEF Recheck
      <3>2. calls'[q].at = "rechecking" /\ (q # r => calls'[r] = calls[r])
        BY <3>1 DEF CallRecords
      <3> QED BY <3>2
    <2>7. ASSUME NEW q \in Callers, Acquire(q) PROVE Approved(r)
      <3>1. q = r
        BY <2>1, <2>7 DEF Acquire
      <3> QED BY <2>7, <3>1, HitIsApproved
    <2>8. ASSUME NEW q \in Callers, NEW decision \in Cacheable, NEW a \in Receipts(q, decision),
                 NEW persisted \in BOOLEAN, ScanEnds(q, decision, a, persisted)
          PROVE  Approved(r)
      <3>1. q = r
        BY <2>1, <2>8 DEF ScanEnds
      <3> QED BY <2>8, <3>1, ScanIsApproved
    <2>9. ASSUME \/ Tick
                 \/ \E new \in Policies : EditPolicy(new)
                 \/ \E new \in Artifacts : Republish(new)
                 \/ \E new \in Builds : Upgrade(new)
          PROVE  FALSE
      <3>1. calls'[r].at = calls[r].at
        BY <2>9 DEF Tick, EditPolicy, Republish, Upgrade, CallRecords
      <3> QED BY <3>1
    <2>10. ASSUME NEW serveReview \in BOOLEAN, Restart(serveReview) PROVE FALSE
      BY <2>10, NoCallType DEF Restart, CallRecords
    <2> QED BY <2>2, <2>3, <2>4, <2>5, <2>6, <2>7, <2>8, <2>9, <2>10 DEF GateNext
  <1> QED BY <1>1, GateStarts, ApprovalStep, PTL DEF GateSpec, DeliveryIsApproved

-----------------------------------------------------------------------------
(* The guard hook (InstallHook).                                           *)

\* The verdicts a check can end with.
CheckVerdicts == {"safe", "review", "block", "unknown"}

\* A result belongs to the package it stands for, in the memo too; what is still awaited has no
\* result, and then the event has no answer.
ResultsFit ==
    /\ DOMAIN results = DOMAIN specs
    /\ \A i \in DOMAIN results :
          results[i] # NoResult => results[i].spec.ref = specs[i].ref /\ results[i].verdict \in CheckVerdicts
    /\ \A named \in DOMAIN memo : memo[named].spec.ref = named /\ memo[named].verdict \in CheckVerdicts
ChecksAreAwaited ==
    \A i \in checking : i \in DOMAIN results /\ results[i] = NoResult /\ hookAt = "checking"
\* Only an edit, or a retrofit, goes on to the file, and only a manifest to the audit.
StagesFit ==
    /\ event.kind = "command" => hookAt \in {"checking", "idle"} /\ specs = ParseInstalls(event.command)
    /\ hookAt \in {"wrapping", "writing"} => event.kind \in {"config", "retrofit"}
AllowsFit ==
    event.kind = "command" /\ hookAt = "idle" /\ outcome = "allow" =>
        AllIn /\ \A i \in DOMAIN results : results[i].verdict \in LetThrough
HookInv == ResultsFit /\ ChecksAreAwaited /\ StagesFit /\ AllowsFit

\* The fold allows only what the policy lets through, one by one.
LEMMA AllAllowed ==
    ASSUME NEW rs, DecideAll(rs) = "allow", NEW r \in rs, r.verdict \in CheckVerdicts
    PROVE  r.verdict \in LetThrough
  <1>1. DecideResult(r) \notin {"deny", "ask"}
    BY DEF DecideAll
  <1>2. Decide(r.verdict) \in {"deny", "ask", "allow"}
    BY DEF Decide
  <1>3. Decide(r.verdict) = "allow"
    BY <1>1, <1>2 DEF DecideResult
  <1> QED BY <1>3 DEF Decide, CheckVerdicts, LetThrough

LEMMA CheckGives == ASSUME NEW s, NEW p \in Processes PROVE Check(s, p) \in CheckVerdicts
  <1>1. p.decision \in {"block", "review", "allow", "none"}
    BY DEF Processes
  <1> QED BY <1>1 DEF Check, VerdictFromDecision, VerdictFromExit, CheckVerdicts

LEMMA HookStarts == HookInit => HookInv
  BY DEF HookInit, HookInv, ResultsFit, ChecksAreAwaited, StagesFit, AllowsFit, NoEvent

LEMMA HookSteps == HookInv /\ [HookNext]_hookVars => HookInv'
  <1> SUFFICES ASSUME HookInv, [HookNext]_hookVars PROVE HookInv'
    OBVIOUS
  <1>0. LetThrough' = LetThrough
    BY DEF HookNext, hookVars, LetThrough
  <1> USE <1>0 DEF HookInv, ResultsFit, ChecksAreAwaited, StagesFit, AllowsFit
  <1>1. ASSUME NEW e \in Events, Happens(e) PROVE HookInv'
    <2>1. /\ event' = e /\ specs' = SpecsOf(e) /\ results' = [i \in DOMAIN SpecsOf(e) |-> NoResult]
          /\ hookAt = "idle" /\ UNCHANGED <<checking, memo>>
      BY <1>1 DEF Happens
    <2>2. checking = {}
      BY <2>1
    <2>3. ResultsFit' /\ ChecksAreAwaited'
      BY <2>1, <2>2
    <2>4. /\ hookAt' \in {"idle", "auditing", "checking"}
          /\ e.kind # "manifest" => hookAt' = "checking"
      BY <1>1 DEF Happens
    <2>5. e.kind = "command" => SpecsOf(e) = ParseInstalls(e.command)
      BY DEF SpecsOf
    <2>6. StagesFit'
      BY <2>1, <2>4, <2>5
    <2>7. AllowsFit'
      BY <2>1, <2>4
    <2> QED BY <2>3, <2>6, <2>7
  <1>2. ASSUME NEW i \in DOMAIN specs, StartCheck(i) PROVE HookInv'
    <2>1. /\ hookAt = "checking" /\ i \notin checking /\ results[i] = NoResult
          /\ UNCHANGED <<event, hookAt, specs, memo, outcome>>
      BY <1>2 DEF StartCheck
    <2>2. CASE /\ specs[i].ref \in DOMAIN memo
               /\ results' = [results EXCEPT ![i] = memo[specs[i].ref]] /\ UNCHANGED checking
      <3>1. ResultsFit'
        BY <2>1, <2>2
      <3>2. ChecksAreAwaited'
        BY <2>1, <2>2
      <3> QED BY <2>1, <3>1, <3>2
    <2>3. CASE checking' = checking \cup {i} /\ UNCHANGED results
      BY <2>1, <2>3 DEF AllIn
    <2> QED BY <1>2, <2>2, <2>3 DEF StartCheck
  <1>3. ASSUME NEW i \in DOMAIN specs, NEW p \in Processes, EndCheck(i, p) PROVE HookInv'
    <2> DEFINE v == Check(specs[i], p)
               r == [verdict |-> v, spec |-> specs[i]]
    <2>1. /\ i \in checking /\ hookAt = "checking" /\ checking' = checking \ {i}
          /\ results' = [results EXCEPT ![i] = r]
          /\ UNCHANGED <<event, hookAt, specs, outcome>>
      BY <1>3 DEF EndCheck
    <2>2. memo' = memo \/ memo' = [named \in DOMAIN memo \cup {specs[i].ref} |->
                                           IF named = specs[i].ref THEN r ELSE memo[named]]
      BY <1>3 DEF EndCheck
    <2>3. r.spec.ref = specs[i].ref /\ r.verdict \in CheckVerdicts
      BY CheckGives
    <2> HIDE DEF r
    <2>4. \A named \in DOMAIN memo' : memo'[named].spec.ref = named /\ memo'[named].verdict \in CheckVerdicts
      BY <2>2, <2>3
    <2>5. ResultsFit'
      BY <2>1, <2>3, <2>4
    <2>6. ChecksAreAwaited'
      BY <2>1
    <2> QED BY <2>1, <2>5, <2>6
  <1>4. CASE Checked
    <2>1. /\ hookAt = "checking" /\ AllIn /\ UNCHANGED <<event, specs, results, checking, memo>>
      BY <1>4 DEF Checked
    <2>2. checking = {}
      BY <2>1 DEF AllIn
    <2>3. event.kind = "command" =>
             /\ hookAt' = "idle"
             /\ outcome' = "allow" => DecideAll({results[i] : i \in DOMAIN results}) = "allow"
      BY <1>4 DEF Checked, Answer
    <2>4. hookAt' \in {"wrapping", "writing"} => event.kind = "config"
      BY <1>4 DEF Checked, Answer
    <2>5. StagesFit'
      BY <2>1, <2>3, <2>4
    <2>6. AllowsFit'
      <3> SUFFICES ASSUME event.kind = "command", outcome' = "allow"
                   PROVE  AllIn' /\ \A i \in DOMAIN results : results[i].verdict \in LetThrough
        BY <2>1
      <3>1. AllIn'
        BY <2>1 DEF AllIn
      <3>2. ASSUME NEW i \in DOMAIN results PROVE results[i].verdict \in LetThrough
        <4>1. DecideAll({results[n] : n \in DOMAIN results}) = "allow"
          BY <2>3
        <4>2. results[i].verdict \in CheckVerdicts
          BY <2>1 DEF AllIn
        <4> QED BY <4>1, <4>2, AllAllowed
      <3> QED BY <3>1, <3>2
    <2> QED BY <2>1, <2>2, <2>5, <2>6
  <1>5. ASSUME NEW code \in {0, 1, 2, 3}, Audited(code) PROVE HookInv'
    <2>1. hookAt = "auditing" /\ hookAt' = "idle" /\ UNCHANGED <<event, specs, results, checking, memo>>
      BY <1>5 DEF Audited, Answer
    <2> QED BY <2>1
  <1>6. ASSUME event'.kind \in {"retrofit", "recheck"}, specs' = << >>, results' = << >>,
               hookAt = "idle", hookAt' = "idle" \/ (hookAt' = "wrapping" /\ event'.kind = "retrofit"),
               UNCHANGED <<checking, memo>>
        PROVE  HookInv'
    BY <1>6
  <1>7. CASE Retrofit
    BY <1>6, <1>7 DEF Retrofit
  <1>8. ASSUME NEW p \in Processes, NEW regressed \in SUBSET {"review", "block"}, RecheckProject(p, regressed)
        PROVE  HookInv'
    BY <1>6, <1>8 DEF RecheckProject
  <1>9. ASSUME hookAt \in {"wrapping", "writing"}, hookAt' \in {"idle", "writing"},
               UNCHANGED <<event, specs, results, checking, memo>>
        PROVE  HookInv'
    BY <1>9
  <1>10. CASE ReadConfig
    BY <1>9, <1>10 DEF ReadConfig
  <1>11. CASE WriteConfig
    BY <1>9, <1>11 DEF WriteConfig
  <1>12. ASSUME NEW f, OthersEdit(f) PROVE HookInv'
    BY <1>12 DEF OthersEdit, AllIn
  <1>13. CASE UNCHANGED hookVars
    BY <1>13 DEF hookVars, AllIn
  <1> QED
    BY <1>1, <1>2, <1>3, <1>4, <1>5, <1>7, <1>8, <1>10, <1>11, <1>12, <1>13 DEF HookNext

\* Whatever the policy, the commands, the session before them, the number of workers and the guard's
\* runs, a command is allowed without a question only when each package it fetches has a verdict of
\* this session: a safe one, unless the policy is permissive, which only a block stops.
THEOREM HookVets == HookSpec => []AllowedMeansVetted
  <1>1. HookInv => AllowedMeansVetted
    <2> SUFFICES ASSUME HookInv, event.kind = "command", hookAt = "idle", outcome = "allow",
                        NEW named \in Refs(event.command)
                 PROVE  \E i \in DOMAIN results : results[i] # NoResult /\ results[i].spec.ref = named
                                                  /\ results[i].verdict \in LetThrough
      BY DEF AllowedMeansVetted
    <2>1. specs = ParseInstalls(event.command)
      BY DEF HookInv, StagesFit
    <2>2. PICK i \in DOMAIN specs : specs[i].ref = named
      BY <2>1 DEF Refs
    <2> QED BY <2>2 DEF HookInv, ResultsFit, AllowsFit, AllIn
  <1> QED BY <1>1, HookStarts, HookSteps, PTL DEF HookSpec

-----------------------------------------------------------------------------
(* The transport of the MCP proxy (McpTransport): its queue.               *)

Turns == Lines \cup {ExitTask}

\* The transport's queue keeps the order of arrival, and one handler at most is at work, that of
\* the line started last.
FirstOf(a, s, q) ==
    /\ a \in Seq(Turns) /\ s \in Seq(Turns) /\ q \in Seq(Turns)
    /\ Len(s) + Len(q) <= Len(a)
    /\ \A i \in 1 .. Len(s) : a[i] = s[i]
    /\ \A i \in 1 .. Len(q) : a[Len(s) + i] = q[i]
    /\ \A i, j \in 1 .. Len(a) : a[i] = a[j] => i = j
OneAtWork(s, r, ex) ==
    \/ r = 0 /\ ex = {}
    \/ r = 1 /\ Len(s) > 0 /\ ex = {s[Len(s)]}
LaneInv ==
    /\ FirstOf(accepted, started, tasks)
    /\ ~closing => Len(accepted) = Len(started) + Len(tasks)
    /\ OneAtWork(started, running, executing)

\* What the drain loop does with one slot: it starts n lines, the head of the queue or nothing.
Drained(q, r, ex, n) ==
    /\ n = 1 => r = 0 /\ ~closing /\ Len(q) > 0
    /\ tasks' \in Seq(Turns) /\ Len(tasks') = Len(q) - n /\ \A i \in 1 .. Len(tasks') : tasks'[i] = q[i + n]
    /\ started' \in Seq(Turns) /\ Len(started') = Len(started) + n
    /\ \A i \in 1 .. Len(started) : started'[i] = started[i]
    /\ n = 1 => started'[Len(started')] = q[1]
    /\ running' = r + n
    /\ executing' = IF n = 1 THEN ex \cup {q[1]} ELSE ex

LEMMA LaneDrain ==
    ASSUME NEW q \in Seq(Turns), NEW r \in {0, 1}, NEW ex, Queue!Drain(q, r, ex), started \in Seq(Turns)
    PROVE  \E n \in {0, 1} : Drained(q, r, ex, n)
  <1> DEFINE n == Queue!Slots(q, r)
             batch == SubSeq(q, 1, n)
  <1>1. /\ tasks' = SubSeq(q, n + 1, Len(q)) /\ running' = r + n
        /\ executing' = ex \cup Queue!ToSet(batch) /\ started' = started \o batch
    BY DEF Queue!Drain
  <1>2. Len(q) \in Nat
    OBVIOUS
  <1>3. n \in {0, 1} /\ (n = 1 => r = 0 /\ ~closing /\ Len(q) > 0)
    <2>1. n = IF closing THEN 0 ELSE IF 1 - r < Len(q) THEN 1 - r ELSE Len(q)
      BY DEF Queue!Slots
    <2> HIDE DEF n
    <2>2. CASE closing
      BY <2>1, <2>2
    <2>3. CASE ~closing /\ r = 0
      <3>1. n = IF 1 < Len(q) THEN 1 ELSE Len(q)
        BY <2>1, <2>3
      <3>2. (n = 1 /\ Len(q) > 0) \/ n = 0
        <4>1. CASE 1 < Len(q)
          BY <1>2, <3>1, <4>1
        <4>2. CASE Len(q) = 1
          BY <3>1, <4>2
        <4>3. CASE Len(q) = 0
          BY <3>1, <4>3
        <4> QED BY <1>2, <4>1, <4>2, <4>3
      <3> QED BY <2>3, <3>2
    <2>4. CASE ~closing /\ r = 1
      <3>1. n = IF 0 < Len(q) THEN 0 ELSE Len(q)
        BY <2>1, <2>4
      <3> QED BY <1>2, <3>1
    <2> QED BY <2>2, <2>3, <2>4
  <1> HIDE DEF n
  <1>4. n \in Nat /\ n <= Len(q)
    BY <1>2, <1>3
  <1>5. batch \in Seq(Turns) /\ Len(batch) = n /\ \A i \in 1 .. n : batch[i] = q[i]
    BY <1>4
  <1>6. /\ tasks' \in Seq(Turns) /\ Len(tasks') = Len(q) - n
        /\ \A i \in 1 .. Len(tasks') : tasks'[i] = q[i + n]
    BY <1>1, <1>4
  <1> HIDE DEF batch
  <1>7. Queue!ToSet(batch) = {batch[i] : i \in DOMAIN batch} /\ DOMAIN batch = 1 .. n
    BY <1>5 DEF Queue!ToSet
  <1>8. executing' = IF n = 1 THEN ex \cup {q[1]} ELSE ex
    <2>1. CASE n = 0
      BY <1>1, <1>7, <2>1
    <2>2. CASE n = 1
      BY <1>1, <1>5, <1>7, <2>2
    <2> QED BY <1>3, <2>1, <2>2
  <1>9. /\ started' \in Seq(Turns) /\ Len(started') = Len(started) + n
        /\ \A i \in 1 .. Len(started) : started'[i] = started[i]
        /\ n = 1 => started'[Len(started')] = q[1]
    <2>1. /\ started' \in Seq(Turns) /\ Len(started') = Len(started) + Len(batch)
          /\ \A i \in 1 .. Len(started) + Len(batch) :
                started'[i] = IF i <= Len(started) THEN started[i] ELSE batch[i - Len(started)]
      BY <1>1, <1>5, ConcatProperties
    <2>2. Len(started) \in Nat
      OBVIOUS
    <2>3. ASSUME NEW i \in 1 .. Len(started) PROVE started'[i] = started[i]
      <3>1. i \in 1 .. Len(started) + Len(batch) /\ i <= Len(started)
        BY <1>4, <1>5, <2>2
      <3> QED BY <2>1, <3>1
    <2>4. ASSUME n = 1 PROVE started'[Len(started')] = q[1]
      <3>1. PICK k \in 1 .. Len(started) + Len(batch) : k = Len(started')
        BY <1>5, <2>1, <2>2, <2>4
      <3>2. ~(k <= Len(started)) /\ k - Len(started) = 1
        BY <1>5, <2>1, <2>2, <2>4, <3>1
      <3>3. started'[k] = batch[1]
        BY <2>1, <3>2
      <3> QED BY <1>5, <2>4, <3>1, <3>3
    <2> QED BY <1>5, <2>1, <2>3, <2>4
  <1> QED BY <1>1, <1>3, <1>6, <1>8, <1>9 DEF Drained

\* A step of the queue that has ex at work besides starts one line at most, when there is none.
Moves(ex) ==
    /\ started' \in Seq(Turns)
    /\ \A i \in 1 .. Len(started) : started'[i] = started[i]
    /\ \/ Len(started') = Len(started) /\ executing' = ex
       \/ Len(started') = Len(started) + 1 /\ ex = {} /\ executing' = {started'[Len(started')]}

LEMMA LaneKept ==
    ASSUME NEW a, NEW q, NEW r \in {0, 1}, NEW ex, Queue!Drain(q, r, ex),
           FirstOf(a, started, q), OneAtWork(started, r, ex)
    PROVE  /\ FirstOf(a, started', tasks') /\ Len(started') + Len(tasks') = Len(started) + Len(q)
           /\ OneAtWork(started', running', executing') /\ Moves(ex)
  <1>1. PICK n \in {0, 1} : Drained(q, r, ex, n)
    BY LaneDrain DEF FirstOf
  <1>2. /\ a \in Seq(Turns) /\ Len(a) \in Nat /\ Len(started) \in Nat /\ Len(q) \in Nat
        /\ started \in Seq(Turns) /\ Len(started) + Len(q) <= Len(a)
    BY DEF FirstOf
  <1>3. /\ tasks' \in Seq(Turns) /\ Len(tasks') = Len(q) - n
        /\ \A i \in 1 .. Len(tasks') : tasks'[i] = q[i + n]
        /\ started' \in Seq(Turns) /\ Len(started') = Len(started) + n
        /\ \A i \in 1 .. Len(started) : started'[i] = started[i]
    BY <1>1 DEF Drained
  <1>4. n = 1 => /\ r = 0 /\ Len(q) > 0 /\ started'[Len(started')] = q[1]
                 /\ running' = 1 /\ executing' = ex \cup {q[1]}
    BY <1>1 DEF Drained
  <1>5. n = 0 => running' = r /\ executing' = ex
    BY <1>1 DEF Drained
  <1>6. Len(started') + Len(tasks') = Len(started) + Len(q)
    BY <1>2, <1>3
  <1>7. ASSUME NEW i \in 1 .. Len(started') PROVE a[i] = started'[i]
    <2>1. CASE i \in 1 .. Len(started)
      BY <1>3, <2>1 DEF FirstOf
    <2>2. CASE n = 1 /\ i = Len(started) + 1
      <3>1. 1 \in 1 .. Len(q)
        BY <1>2, <1>4, <2>2
      <3>2. a[Len(started) + 1] = q[1]
        BY <3>1 DEF FirstOf
      <3> QED BY <1>3, <1>4, <2>2, <3>2
    <2>3. i \in 1 .. Len(started) \/ (n = 1 /\ i = Len(started) + 1)
      BY <1>2, <1>3
    <2> QED BY <2>1, <2>2, <2>3
  <1>8. ASSUME NEW i \in 1 .. Len(tasks') PROVE a[Len(started') + i] = tasks'[i]
    <2>1. PICK k \in 1 .. Len(q) : k = i + n
      BY <1>2, <1>3
    <2>2. a[Len(started) + k] = q[k]
      BY DEF FirstOf
    <2>3. Len(started) + k = Len(started') + i
      BY <1>2, <1>3, <2>1
    <2> QED BY <1>3, <2>1, <2>2, <2>3
  <1>9. FirstOf(a, started', tasks')
    BY <1>2, <1>3, <1>6, <1>7, <1>8 DEF FirstOf
  <1>10. OneAtWork(started', running', executing') /\ Moves(ex)
    <2>1. CASE n = 0
      <3>1. Len(started') = Len(started)
        BY <1>2, <1>3, <2>1
      <3>2. Len(started) > 0 => started'[Len(started)] = started[Len(started)]
        BY <1>2, <1>3
      <3> QED BY <1>3, <1>5, <2>1, <3>1, <3>2 DEF OneAtWork, Moves
    <2>2. CASE n = 1
      <3>1. Len(started') = Len(started) + 1 /\ Len(started') > 0
        BY <1>2, <1>3, <2>2
      <3>2. ex = {}
        BY <1>4, <2>2 DEF OneAtWork
      <3>3. running' = 1 /\ executing' = {started'[Len(started')]}
        BY <1>4, <2>2, <3>2
      <3> QED BY <1>3, <3>1, <3>2, <3>3 DEF OneAtWork, Moves
    <2> QED BY <2>1, <2>2
  <1> QED BY <1>6, <1>9, <1>10

LEMMA LaneAccepts ==
    ASSUME LaneInv, NEW t \in Turns, Queue!Accepts(t) PROVE LaneInv' /\ Moves(executing)
  <1> DEFINE q == Append(tasks, t)
             a == accepted'
  <1>1. /\ t \notin Queue!ToSet(accepted) /\ ~closing /\ accepted' = Append(accepted, t)
        /\ Queue!Drain(q, running, executing) /\ closing' = closing
    BY DEF Queue!Accepts, Queue!HasRoom
  <1>2. /\ accepted \in Seq(Turns) /\ started \in Seq(Turns) /\ tasks \in Seq(Turns)
        /\ Len(accepted) \in Nat /\ Len(started) \in Nat /\ Len(tasks) \in Nat
        /\ Len(accepted) = Len(started) + Len(tasks)
    BY <1>1 DEF LaneInv, FirstOf
  <1>3. /\ q \in Seq(Turns) /\ Len(q) = Len(tasks) + 1 /\ q[Len(tasks) + 1] = t
        /\ \A i \in 1 .. Len(tasks) : q[i] = tasks[i]
    BY <1>2
  <1>4. /\ a \in Seq(Turns) /\ Len(a) = Len(accepted) + 1 /\ a[Len(accepted) + 1] = t
        /\ \A i \in 1 .. Len(accepted) : a[i] = accepted[i]
    BY <1>1, <1>2
  <1>5. \A i \in 1 .. Len(accepted) : accepted[i] # t
    BY <1>1, <1>2 DEF Queue!ToSet
  <1> HIDE DEF q, a
  <1>6. FirstOf(a, started, q)
    <2>1. \A i, j \in 1 .. Len(a) : a[i] = a[j] => i = j
      <3> SUFFICES ASSUME NEW i \in 1 .. Len(a), NEW j \in 1 .. Len(a), a[i] = a[j] PROVE i = j
        OBVIOUS
      <3>1. (i \in 1 .. Len(accepted) \/ i = Len(a)) /\ (j \in 1 .. Len(accepted) \/ j = Len(a))
        BY <1>4, \A k \in Nat : \A m \in 1 .. k + 1 : m \in 1 .. k \/ m = k + 1, <1>2
      <3>2. CASE i \in 1 .. Len(accepted) /\ j \in 1 .. Len(accepted)
        BY <1>4, <3>2 DEF LaneInv, FirstOf
      <3> QED BY <1>4, <1>5, <3>1, <3>2
    <2>2. \A i \in 1 .. Len(started) : a[i] = started[i]
      <3> SUFFICES ASSUME NEW i \in 1 .. Len(started) PROVE a[i] = started[i]
        OBVIOUS
      <3>1. i \in 1 .. Len(accepted)
        BY <1>2
      <3> QED BY <1>4, <3>1 DEF LaneInv, FirstOf
    <2>3. ASSUME NEW i \in 1 .. Len(q) PROVE a[Len(started) + i] = q[i]
      <3>1. CASE i \in 1 .. Len(tasks)
        <4>1. accepted[Len(started) + i] = tasks[i]
          BY <3>1 DEF LaneInv, FirstOf
        <4>2. Len(started) + i \in 1 .. Len(accepted)
          BY <1>2, <3>1
        <4> QED BY <1>3, <1>4, <3>1, <4>1, <4>2
      <3>2. CASE i = Len(tasks) + 1
        <4>1. Len(started) + i = Len(accepted) + 1
          BY <1>2, <3>2
        <4> QED BY <1>3, <1>4, <3>2, <4>1
      <3> QED BY <1>2, <1>3, <3>1, <3>2
    <2>4. Len(started) + Len(q) <= Len(a)
      BY <1>2, <1>3, <1>4
    <2> QED BY <1>2, <1>3, <1>4, <2>1, <2>2, <2>3, <2>4 DEF FirstOf
  <1>7. running \in {0, 1} /\ OneAtWork(started, running, executing)
    BY DEF LaneInv, OneAtWork
  <1>8. /\ FirstOf(a, started', tasks') /\ Len(started') + Len(tasks') = Len(started) + Len(q)
        /\ OneAtWork(started', running', executing') /\ Moves(executing)
    BY <1>1, <1>6, <1>7, LaneKept
  <1>9. Len(a) = Len(started') + Len(tasks')
    BY <1>2, <1>3, <1>4, <1>8
  <1> QED BY <1>8, <1>9 DEF LaneInv, a

LEMMA LaneFinally ==
    ASSUME LaneInv, NEW t \in Turns, Queue!Finally(t) PROVE LaneInv' /\ Moves({})
  <1>1. /\ t \in executing /\ Queue!Drain(tasks, running - 1, executing \ {t})
        /\ closing' = closing /\ accepted' = accepted
    BY DEF Queue!Finally
  <1>2. running = 1 /\ executing \ {t} = {}
    BY <1>1 DEF LaneInv, OneAtWork
  <1>3. Queue!Drain(tasks, 0, {})
    BY <1>1, <1>2
  <1>4. /\ FirstOf(accepted, started', tasks') /\ Len(started') + Len(tasks') = Len(started) + Len(tasks)
        /\ OneAtWork(started', running', executing') /\ Moves({})
    BY <1>3, LaneKept DEF LaneInv, OneAtWork
  <1> QED BY <1>1, <1>4 DEF LaneInv

LEMMA LaneDrops ==
    ASSUME LaneInv, Queue!Drops, UNCHANGED <<executing, running, accepted, started>> PROVE LaneInv'
  <1>1. closing' = TRUE /\ tasks' = << >>
    BY DEF Queue!Drops
  <1> QED BY <1>1 DEF LaneInv, FirstOf

LEMMA LaneRests ==
    ASSUME LaneInv, UNCHANGED <<tasks, executing, running, closing, accepted, started>> PROVE LaneInv'
  BY DEF LaneInv, FirstOf, OneAtWork

-----------------------------------------------------------------------------
(* The transport: its handlers and its end.                                *)

FramesOf(t) == {<<Frames[t].writes[k], t>> : k \in DOMAIN Frames[t].writes}
Written == {written[i] : i \in DOMAIN written}
LastOnes ==
    \A n \in DOMAIN accepted :
        (\A m \in 1 .. n : accepted[m] # ExitTask) => FramesOf(accepted[n]) \subseteq Written

SessionTypes ==
    /\ DOMAIN proxy = {"settled", "code", "paused", "ended", "crashed"} /\ proxy.settled \in BOOLEAN
    /\ DOMAIN turn = {"task", "begun", "done"} /\ turn.begun \in BOOLEAN /\ turn.done \in Nat
    /\ written \in Seq(Sides \X Lines)
\* The handler at work is of a line that executes; until the session ends none has failed or
\* was told to do nothing.
TurnFits ==
    /\ turn.task \in executing \cup {0}
    /\ ~proxy.settled => /\ failing = {} /\ proxy.code = "none"
                         /\ turn.task # 0 => turn.begun
\* The frames written are of lines started, in their order.
WritesInOrder ==
    /\ \A i \in 1 .. Len(written) : \E n \in 1 .. Len(started) : started[n] = written[i][2]
    /\ \A i, j \in 1 .. Len(written), m, n \in 1 .. Len(started) :
          i < j /\ started[m] = written[i][2] /\ started[n] = written[j][2] => m <= n
\* Until the session ends what is through has written all its frames, and what is at work those
\* it has come to.
AllWritten ==
    ~proxy.settled =>
        /\ \A n \in 1 .. Len(started) :
              started[n] \in Lines \ executing => FramesOf(started[n]) \subseteq Written
        /\ turn.task \in Lines =>
              \A k \in DOMAIN Frames[turn.task].writes :
                  k <= turn.done => <<Frames[turn.task].writes[k], turn.task>> \in Written
SessionInv ==
    /\ SessionTypes /\ TurnFits /\ WritesInOrder /\ AllWritten
    /\ proxy.settled /\ proxy.code = "0" => LastOnes

lanes == <<tasks, executing, running, closing, accepted, started>>

\* What leaves the handler and the session alone.
LEMMA SessionRests ==
    ASSUME SessionInv, UNCHANGED <<lanes, failing, turn, written>>,
           DOMAIN proxy' = DOMAIN proxy, proxy'.settled = proxy.settled, proxy'.code = proxy.code
    PROVE  SessionInv'
  <1> USE DEF lanes
  <1>1. SessionTypes'
    BY DEF SessionInv, SessionTypes
  <1>2. TurnFits' /\ WritesInOrder'
    BY DEF SessionInv, TurnFits, WritesInOrder
  <1>3. Written' = Written
    BY DEF Written
  <1>4. AllWritten' /\ (LastOnes => LastOnes')
    BY <1>3 DEF SessionInv, AllWritten, LastOnes
  <1> QED BY <1>1, <1>2, <1>4 DEF SessionInv

\* What ends the session, or comes after its end.
LEMMA SessionEndsInv ==
    ASSUME SessionInv, UNCHANGED <<executing, accepted, started, written>>,
           DOMAIN proxy' = DOMAIN proxy, proxy'.settled, proxy'.settled \in BOOLEAN,
           DOMAIN turn' = DOMAIN turn, turn'.task = turn.task, turn'.begun = turn.begun, turn'.done \in Nat,
           proxy'.code = "0" => (proxy.settled /\ proxy.code = "0") \/ LastOnes
    PROVE  SessionInv'
  <1>1. SessionTypes'
    BY DEF SessionInv, SessionTypes
  <1>2. TurnFits' /\ WritesInOrder' /\ AllWritten'
    BY DEF SessionInv, TurnFits, WritesInOrder, AllWritten
  <1>3. LastOnes => LastOnes'
    BY DEF LastOnes, Written
  <1> QED BY <1>1, <1>2, <1>3 DEF SessionInv

LEMMA SettleEnds ==
    ASSUME SessionTypes, NEW code, NEW paused, Settle(code, paused)
    PROVE  /\ DOMAIN proxy' = DOMAIN proxy /\ proxy'.settled /\ proxy'.settled \in BOOLEAN
           /\ proxy'.code = IF proxy.settled THEN proxy.code ELSE code
  <1>1. CASE proxy.settled
    <2>1. proxy' = [proxy EXCEPT !.paused = paused]
      BY <1>1 DEF Settle
    <2> QED BY <1>1, <2>1 DEF SessionTypes
  <1>2. CASE ~proxy.settled
    <2>1. proxy' = [proxy EXCEPT !.settled = TRUE, !.code = code, !.paused = paused \cup {"host"}]
      BY <1>2 DEF Settle
    <2> QED BY <1>2, <2>1 DEF SessionTypes
  <1> QED BY <1>1, <1>2

LEMMA StartsOnce ==
    ASSUME LaneInv, LaneInv', NEW ex, Moves(ex)
    PROVE  /\ Len(started) \in Nat /\ Len(started') \in Nat
           /\ Len(started') = Len(started) \/ Len(started') = Len(started) + 1
           /\ \A i \in 1 .. Len(started) : started'[i] = started[i]
           /\ \A i, j \in 1 .. Len(started') : started'[i] = started'[j] => i = j
  <1>1. /\ Len(accepted') \in Nat /\ Len(started') \in Nat /\ Len(tasks') \in Nat
        /\ Len(started') + Len(tasks') <= Len(accepted')
        /\ \A i \in 1 .. Len(started') : accepted'[i] = started'[i]
        /\ \A i, j \in 1 .. Len(accepted') : accepted'[i] = accepted'[j] => i = j
    BY DEF LaneInv, FirstOf
  <1>2. Len(started) \in Nat
    BY DEF LaneInv, FirstOf
  <1>3. ASSUME NEW i \in 1 .. Len(started'), NEW j \in 1 .. Len(started'), started'[i] = started'[j]
        PROVE  i = j
    <2>1. i \in 1 .. Len(accepted') /\ j \in 1 .. Len(accepted')
      BY <1>1
    <2> QED BY <1>1, <1>3, <2>1
  <1> QED BY <1>1, <1>2, <1>3 DEF Moves

\* Lines that start do not disturb the order of the frames written.
LEMMA WritesStay ==
    ASSUME WritesInOrder, written' = written, NEW ex, LaneInv, LaneInv', Moves(ex)
    PROVE  WritesInOrder'
  <1>1. /\ Len(started) \in Nat /\ Len(started') \in Nat
        /\ \A i \in 1 .. Len(started) : started'[i] = started[i] /\ i \in 1 .. Len(started')
        /\ \A i, j \in 1 .. Len(started') : started'[i] = started'[j] => i = j
    BY StartsOnce
  <1>2. ASSUME NEW i \in 1 .. Len(written) PROVE \E n \in 1 .. Len(started') : started'[n] = written[i][2]
    BY <1>1 DEF WritesInOrder
  <1>3. ASSUME NEW i \in 1 .. Len(written), NEW j \in 1 .. Len(written), i < j,
               NEW m \in 1 .. Len(started'), NEW n \in 1 .. Len(started'),
               started'[m] = written[i][2], started'[n] = written[j][2]
        PROVE  m <= n
    <2>1. PICK p \in 1 .. Len(started) : started[p] = written[i][2]
      BY DEF WritesInOrder
    <2>2. PICK q \in 1 .. Len(started) : started[q] = written[j][2]
      BY DEF WritesInOrder
    <2>3. p = m /\ q = n
      BY <1>1, <1>3, <2>1, <2>2
    <2>4. p <= q
      BY <1>3, <2>1, <2>2 DEF WritesInOrder
    <2> QED BY <2>3, <2>4
  <1> QED BY <1>2, <1>3 DEF WritesInOrder

\* A line is taken, and perhaps started at once.
LEMMA SessionAccepts ==
    ASSUME SessionInv, LaneInv, NEW t \in Turns, Queue!Accepts(t), UNCHANGED <<turn, written>>,
           ~proxy.settled, DOMAIN proxy' = DOMAIN proxy, proxy'.settled = proxy.settled, proxy'.code = proxy.code
    PROVE  SessionInv'
  <1>1. LaneInv' /\ Moves(executing) /\ failing' = failing
    BY LaneAccepts DEF Queue!Accepts
  <1>2. SessionTypes'
    BY DEF SessionInv, SessionTypes
  <1>3. TurnFits'
    BY <1>1 DEF SessionInv, TurnFits, Moves
  <1>4. /\ Len(started) \in Nat /\ Len(started') \in Nat
        /\ Len(started') = Len(started) \/ Len(started') = Len(started) + 1
        /\ \A i \in 1 .. Len(started) : started'[i] = started[i]
        /\ \A i, j \in 1 .. Len(started') : started'[i] = started'[j] => i = j
    BY <1>1, StartsOnce
  <1>5. WritesInOrder'
    BY <1>1, WritesStay DEF SessionInv
  <1>6. Written' = Written
    BY DEF Written
  <1>7. AllWritten'
    <2>1. ASSUME NEW n \in 1 .. Len(started'), started'[n] \in Lines \ executing'
          PROVE  n \in 1 .. Len(started) /\ started[n] \in Lines \ executing
      BY <1>1, <1>4, <2>1 DEF Moves
    <2> QED BY <1>4, <1>6, <2>1 DEF SessionInv, AllWritten
  <1> QED BY <1>2, <1>3, <1>5, <1>7 DEF SessionInv

\* Of what is started, the last is at work; each stands in the queue's order but once.
LEMMA StartedOnce ==
    ASSUME LaneInv
    PROVE  /\ Len(started) \in Nat /\ started \in Seq(Turns)
           /\ \A i, j \in 1 .. Len(started) : started[i] = started[j] => i = j
           /\ \A t \in executing : Len(started) > 0 /\ t = started[Len(started)]
  <1>0. started \in Seq(Turns) /\ tasks \in Seq(Turns) /\ accepted \in Seq(Turns)
    BY DEF LaneInv, FirstOf
  <1>1. /\ started \in Seq(Turns) /\ Len(started) \in Nat /\ Len(tasks) \in Nat /\ Len(accepted) \in Nat
        /\ Len(started) + Len(tasks) <= Len(accepted)
        /\ \A i \in 1 .. Len(started) : accepted[i] = started[i]
        /\ \A i, j \in 1 .. Len(accepted) : accepted[i] = accepted[j] => i = j
    BY <1>0 DEF LaneInv, FirstOf
  <1>2. ASSUME NEW i \in 1 .. Len(started), NEW j \in 1 .. Len(started), started[i] = started[j]
        PROVE  i = j
    <2>1. i \in 1 .. Len(accepted) /\ j \in 1 .. Len(accepted)
      BY <1>1
    <2> QED BY <1>1, <1>2, <2>1
  <1>3. \A t \in executing : Len(started) > 0 /\ t = started[Len(started)]
    BY DEF LaneInv, OneAtWork
  <1> QED BY <1>1, <1>2, <1>3

\* A handler begins: nothing of its line is written yet.
LEMMA BeginsKeeps ==
    ASSUME TransportAssumption, SessionInv, LaneInv, NEW t \in Turns, Begins(t) PROVE SessionInv'
  <1>1. /\ t \in executing /\ turn' = [task |-> t, begun |-> ~proxy.settled, done |-> 0]
        /\ UNCHANGED <<proxy, written, lanes, failing>>
    BY DEF Begins, queueVars, lanes
  <1>2. /\ DOMAIN turn' = {"task", "begun", "done"} /\ turn'.task = t /\ turn'.done = 0
        /\ turn'.begun = ~proxy.settled
    BY <1>1
  <1>3. turn'.begun \in BOOLEAN
    BY <1>2 DEF SessionInv, SessionTypes
  <1>4. SessionTypes'
    BY <1>1, <1>2, <1>3 DEF SessionInv, SessionTypes
  <1>5. TurnFits'
    BY <1>1, <1>2 DEF SessionInv, TurnFits, lanes
  <1>10. WritesInOrder'
    BY <1>1 DEF SessionInv, WritesInOrder, lanes
  <1>6. Written' = Written
    BY <1>1 DEF Written
  <1>7. \A u \in Lines : DOMAIN Frames[u].writes = 1 .. Len(Frames[u].writes)
    BY DEF TransportAssumption
  <1>8. AllWritten'
    BY <1>1, <1>2, <1>6, <1>7 DEF SessionInv, AllWritten, lanes
  <1>9. LastOnes => LastOnes'
    BY <1>1, <1>6 DEF LastOnes, lanes
  <1> QED BY <1>1, <1>4, <1>5, <1>8, <1>9, <1>10 DEF SessionInv

\* A handler's next frame is written behind those of the lines before it.
LEMMA WritesKeeps ==
    ASSUME TransportAssumption, SessionInv, LaneInv, NEW t \in Lines, Writes(t) PROVE SessionInv'
  <1> DEFINE s == Frames[t].writes[turn.done + 1]
  <1>1. /\ t \in executing /\ turn.task = t /\ turn.done < Len(Frames[t].writes)
        /\ turn' = [turn EXCEPT !.done = @ + 1] /\ WriteFrame(s, t)
    BY DEF Writes, AtWork
  <1>2. turn.done \in Nat /\ Frames[t].writes \in Seq(Sides) /\ s \in Sides
    BY <1>1 DEF SessionInv, SessionTypes, TransportAssumption
  <1>3. /\ DOMAIN turn' = DOMAIN turn /\ turn'.task = turn.task /\ turn'.begun = turn.begun
        /\ turn'.done = turn.done + 1 /\ turn'.done \in Nat
    BY <1>1, <1>2 DEF SessionInv, SessionTypes
  <1> HIDE DEF s
  <1>4. CASE Settle("1", proxy.paused) /\ CloseQueue /\ UNCHANGED <<unread, written>>
    <2>1. /\ DOMAIN proxy' = DOMAIN proxy /\ proxy'.settled /\ proxy'.settled \in BOOLEAN
          /\ proxy'.code = IF proxy.settled THEN proxy.code ELSE "1"
      BY <1>4, SettleEnds DEF SessionInv
    <2> QED BY <1>3, <1>4, <2>1, SessionEndsInv DEF CloseQueue
  <1>5. CASE /\ written' = Append(written, <<s, t>>) /\ UNCHANGED <<server, queueVars>>
             /\ proxy' = [proxy EXCEPT !.paused = Sides] \/ proxy' = proxy
    <2> DEFINE k == Len(written) + 1
    <2>1. /\ DOMAIN proxy' = DOMAIN proxy /\ proxy'.settled = proxy.settled /\ proxy'.code = proxy.code
      BY <1>5 DEF SessionInv, SessionTypes
    <2>2. UNCHANGED <<lanes, failing>>
      BY <1>5 DEF queueVars, lanes
    <2>3. /\ Len(written) \in Nat /\ written' \in Seq(Sides \X Lines) /\ Len(written') = k
          /\ \A i \in 1 .. Len(written) : written'[i] = written[i]
          /\ written'[k] = <<s, t>>
      BY <1>2, <1>5 DEF SessionInv, SessionTypes
    <2>4. SessionTypes'
      BY <1>3, <2>1, <2>3 DEF SessionInv, SessionTypes
    <2>5. TurnFits'
      BY <1>3, <2>1, <2>2 DEF SessionInv, TurnFits, lanes
    <2>6. /\ Len(started) \in Nat /\ Len(started) > 0 /\ t = started[Len(started)]
          /\ \A i, j \in 1 .. Len(started) : started[i] = started[j] => i = j
      BY <1>1, StartedOnce
    <2> HIDE DEF k
    <2>7. k = Len(written) + 1
      BY DEF k
    <2>8. WritesInOrder'
      <3>1. ASSUME NEW i \in 1 .. k PROVE \E n \in 1 .. Len(started) : started[n] = written'[i][2]
        <4>1. CASE i \in 1 .. Len(written)
          BY <2>3, <4>1 DEF SessionInv, WritesInOrder
        <4>2. CASE i = k
          <5>1. Len(started) \in 1 .. Len(started) /\ written'[i][2] = t
            BY <2>3, <2>6, <4>2
          <5> QED BY <2>6, <5>1
        <4> QED BY <2>3, <2>7, <4>1, <4>2
      <3>2. ASSUME NEW i \in 1 .. k, NEW j \in 1 .. k, i < j,
                   NEW m \in 1 .. Len(started), NEW n \in 1 .. Len(started),
                   started[m] = written'[i][2], started[n] = written'[j][2]
            PROVE  m <= n
        <4>1. CASE j \in 1 .. Len(written)
          <5>1. i \in 1 .. Len(written)
            BY <2>3, <3>2, <4>1
          <5> QED BY <2>3, <3>2, <4>1, <5>1 DEF SessionInv, WritesInOrder
        <4>2. CASE j = k
          <5>1. started[n] = t
            BY <2>3, <3>2, <4>2
          <5>2. n = Len(started)
            <6>1. Len(started) \in 1 .. Len(started)
              BY <2>6
            <6> QED BY <2>6, <5>1, <6>1
          <5> QED BY <2>6, <5>2
        <4> QED BY <2>3, <2>7, <4>1, <4>2
      <3> QED BY <2>2, <2>3, <3>1, <3>2 DEF WritesInOrder, lanes
    <2>9. Written \subseteq Written' /\ <<s, t>> \in Written'
      <3>1. DOMAIN written = 1 .. Len(written) /\ DOMAIN written' = 1 .. k
        BY <2>3 DEF SessionInv, SessionTypes
      <3>2. k \in 1 .. k /\ \A i \in 1 .. Len(written) : i \in 1 .. k
        BY <2>3, <2>7
      <3> QED BY <2>3, <3>1, <3>2 DEF Written
    <2>10. AllWritten'
      <3> SUFFICES ASSUME ~proxy.settled PROVE AllWritten'
        BY <2>1 DEF AllWritten
      <3>1. \A n \in 1 .. Len(started) : started[n] \in Lines \ executing => FramesOf(started[n]) \subseteq Written'
        BY <2>9 DEF SessionInv, AllWritten
      <3>2. ASSUME NEW j \in DOMAIN Frames[t].writes, j <= turn.done + 1
            PROVE  <<Frames[t].writes[j], t>> \in Written'
        <4>1. CASE j <= turn.done
          BY <1>1, <2>9, <4>1 DEF SessionInv, AllWritten
        <4>2. CASE j = turn.done + 1
          BY <2>9, <4>2 DEF s
        <4> QED BY <1>2, <3>2, <4>1, <4>2
      <3> QED BY <1>1, <1>3, <2>2, <3>1, <3>2 DEF AllWritten, lanes
    <2>11. LastOnes => LastOnes'
      BY <2>2, <2>9 DEF LastOnes, lanes
    <2> QED BY <2>1, <2>4, <2>5, <2>8, <2>10, <2>11 DEF SessionInv
  <1> QED BY <1>1, <1>4, <1>5 DEF WriteFrame

\* A handler ends: its line has written all its frames, or the session is over.
LEMMA EndKeeps ==
    ASSUME TransportAssumption, SessionInv, LaneInv, NEW t \in Turns, HandlerEnds(t) PROVE SessionInv'
  <1>1. /\ t \in executing /\ turn.task = t /\ Through(t) /\ Queue!Finally(t) /\ turn' = NoTurn
        /\ UNCHANGED <<proxy, written>>
    BY DEF HandlerEnds
  <1>2. failing' = failing \ {t} /\ accepted' = accepted
    BY <1>1 DEF Queue!Finally
  <1>3. LaneInv' /\ Moves({})
    BY <1>1, LaneFinally
  <1>4. /\ DOMAIN turn' = {"task", "begun", "done"} /\ turn'.task = 0 /\ turn'.done = 0 /\ turn'.begun \in BOOLEAN
    BY <1>1 DEF NoTurn
  <1>5. SessionTypes'
    BY <1>1, <1>4 DEF SessionInv, SessionTypes
  <1>6. TurnFits'
    BY <1>1, <1>2, <1>4 DEF SessionInv, TurnFits
  <1>7. /\ Len(started) \in Nat /\ Len(started') \in Nat
        /\ Len(started') = Len(started) \/ Len(started') = Len(started) + 1
        /\ \A i \in 1 .. Len(started) : started'[i] = started[i]
        /\ \A i, j \in 1 .. Len(started') : started'[i] = started'[j] => i = j
    BY <1>3, StartsOnce
  <1>8. WritesInOrder'
    BY <1>1, <1>3, WritesStay DEF SessionInv
  <1>9. Written' = Written
    BY <1>1 DEF Written
  <1>10. t # 0 /\ (t \in Lines => t # ExitTask /\ DOMAIN Frames[t].writes = 1 .. Len(Frames[t].writes))
    BY DEF TransportAssumption, Turns
  <1>11. AllWritten'
    <2> SUFFICES ASSUME ~proxy.settled PROVE AllWritten'
      BY <1>1 DEF AllWritten
    <2>1. t \in Lines => FramesOf(t) \subseteq Written
      <3> SUFFICES ASSUME t \in Lines, NEW k \in DOMAIN Frames[t].writes
                   PROVE  <<Frames[t].writes[k], t>> \in Written
        BY DEF FramesOf
      <3>1. turn.begun /\ failing = {}
        BY <1>1, <1>10 DEF SessionInv, TurnFits
      <3>2. turn.done = Len(Frames[t].writes)
        BY <1>1, <1>10, <3>1 DEF Through
      <3>3. k <= turn.done
        BY <1>10, <3>2
      <3> QED BY <1>1, <3>3 DEF SessionInv, AllWritten
    <2>2. ASSUME NEW n \in 1 .. Len(started'), started'[n] \in Lines \ executing'
          PROVE  FramesOf(started'[n]) \subseteq Written
      <3>1. n \in 1 .. Len(started)
        BY <1>3, <1>7, <2>2 DEF Moves
      <3>2. CASE started[n] = t
        BY <1>7, <2>1, <2>2, <3>1, <3>2
      <3>3. CASE started[n] # t
        <4>1. executing = {t}
          BY <1>1 DEF LaneInv, OneAtWork
        <4> QED BY <1>7, <2>2, <3>1, <3>3, <4>1 DEF SessionInv, AllWritten
      <3> QED BY <3>2, <3>3
    <2>3. turn'.task \notin Lines
      BY <1>4 DEF TransportAssumption
    <2> QED BY <1>9, <2>2, <2>3 DEF AllWritten
  <1>12. LastOnes => LastOnes'
    BY <1>2, <1>9 DEF LastOnes
  <1> QED BY <1>1, <1>5, <1>6, <1>8, <1>11, <1>12 DEF SessionInv

\* When the turn of the exit has come, every line before it is through.
LEMMA ExitMeansThrough ==
    ASSUME TransportAssumption, SessionInv, LaneInv, ~proxy.settled, ExitTask \in executing
    PROVE  LastOnes
  <1> SUFFICES ASSUME NEW n \in DOMAIN accepted, \A m \in 1 .. n : accepted[m] # ExitTask
               PROVE  FramesOf(accepted[n]) \subseteq Written
    BY DEF LastOnes
  <1>1. /\ accepted \in Seq(Turns) /\ n \in Nat /\ n > 0 /\ n <= Len(accepted) /\ Len(accepted) \in Nat
        /\ Len(started) \in Nat /\ \A i \in 1 .. Len(started) : accepted[i] = started[i]
    BY DEF LaneInv, FirstOf
  <1>2. /\ Len(started) > 0 /\ ExitTask = started[Len(started)]
        /\ \A i, j \in 1 .. Len(started) : started[i] = started[j] => i = j
    BY StartedOnce
  <1>3. Len(started) \in 1 .. Len(started)
    BY <1>1, <1>2
  <1>4. accepted[Len(started)] = ExitTask
    BY <1>1, <1>2, <1>3
  <1>5. n < Len(started)
    <2> SUFFICES ASSUME Len(started) <= n PROVE FALSE
      BY <1>1
    <2>1. Len(started) \in 1 .. n
      BY <1>1, <1>2
    <2> QED BY <1>4, <2>1
  <1>6. n \in 1 .. Len(started) /\ accepted[n] = started[n] /\ started[n] # ExitTask
    <2>1. n \in 1 .. Len(started) /\ n # Len(started)
      BY <1>1, <1>5
    <2> QED BY <1>1, <1>2, <1>3, <2>1
  <1>7. executing = {ExitTask}
    BY DEF LaneInv, OneAtWork
  <1>8. started[n] \in Lines \ executing
    <2>1. accepted[n] \in Turns
      BY <1>1
    <2> QED BY <1>6, <1>7, <2>1 DEF Turns
  <1> QED BY <1>6, <1>8 DEF SessionInv, AllWritten

TransportInv == SessionInv /\ LaneInv

LEMMA TransportStarts == TransportAssumption /\ TransportInit => TransportInv
  <1> SUFFICES ASSUME TransportAssumption, TransportInit PROVE TransportInv
    OBVIOUS
  <1>1. /\ tasks = << >> /\ accepted = << >> /\ started = << >> /\ executing = {} /\ running = 0 /\ failing = {}
        /\ ~proxy.settled /\ proxy.code = "none" /\ proxy.settled \in BOOLEAN /\ written = << >> /\ turn = NoTurn
        /\ DOMAIN proxy = {"settled", "code", "paused", "ended", "crashed"}
    BY DEF TransportInit, Queue!Init
  <1>2. LaneInv
    BY <1>1 DEF LaneInv, FirstOf, OneAtWork
  <1>3. /\ DOMAIN turn = {"task", "begun", "done"} /\ turn.begun \in BOOLEAN /\ turn.done = 0 /\ turn.task = 0
    BY <1>1 DEF NoTurn
  <1>4. SessionTypes
    BY <1>1, <1>3 DEF SessionTypes
  <1>5. TurnFits /\ WritesInOrder
    BY <1>1, <1>3 DEF TurnFits, WritesInOrder
  <1>6. AllWritten
    BY <1>1, <1>3 DEF AllWritten, TransportAssumption
  <1> QED BY <1>1, <1>2, <1>4, <1>5, <1>6 DEF TransportInv, SessionInv

\* What neither the queue nor the session notices.
LEMMA TransportRests ==
    ASSUME TransportInv, UNCHANGED <<lanes, failing, turn, written>>,
           DOMAIN proxy' = DOMAIN proxy, proxy'.settled = proxy.settled, proxy'.code = proxy.code
    PROVE  TransportInv'
  BY SessionRests, LaneRests DEF TransportInv, lanes

\* What ends the session, dropping what waits.
Dropping == Queue!Drops /\ UNCHANGED <<executing, running, accepted, started>>

LEMMA TransportEnds ==
    ASSUME TransportInv, Dropping \/ UNCHANGED lanes, UNCHANGED written,
           DOMAIN proxy' = DOMAIN proxy, proxy'.settled, proxy'.settled \in BOOLEAN,
           DOMAIN turn' = DOMAIN turn, turn'.task = turn.task, turn'.begun = turn.begun, turn'.done \in Nat,
           proxy'.code = "0" => (proxy.settled /\ proxy.code = "0") \/ LastOnes
    PROVE  TransportInv'
  <1>1. UNCHANGED <<executing, accepted, started>>
    BY DEF Dropping, lanes
  <1>2. LaneInv'
    BY LaneDrops, LaneRests DEF TransportInv, Dropping, lanes
  <1>3. SessionInv'
    BY <1>1, SessionEndsInv DEF TransportInv
  <1> QED BY <1>2, <1>3 DEF TransportInv

LEMMA TransportSettles ==
    ASSUME TransportInv, NEW paused, Settle("1", paused), Dropping \/ UNCHANGED lanes, UNCHANGED <<turn, written>>
    PROVE  TransportInv'
  <1>1. /\ DOMAIN proxy' = DOMAIN proxy /\ proxy'.settled /\ proxy'.settled \in BOOLEAN
        /\ proxy'.code = IF proxy.settled THEN proxy.code ELSE "1"
    BY SettleEnds DEF TransportInv, SessionInv
  <1>2. turn'.done \in Nat
    BY DEF TransportInv, SessionInv, SessionTypes
  <1> QED BY <1>1, <1>2, TransportEnds

LEMMA TransportAccepts ==
    ASSUME TransportInv, NEW t \in Turns, Queue!Accepts(t), UNCHANGED <<turn, written>>, ~proxy.settled,
           DOMAIN proxy' = DOMAIN proxy, proxy'.settled = proxy.settled, proxy'.code = proxy.code
    PROVE  TransportInv'
  BY SessionAccepts, LaneAccepts DEF TransportInv

\* What is being fed is there to be fed.
FeedInv ==
    /\ fed \in [Sides -> Nat] /\ DOMAIN chunk = {"side", "left"} /\ chunk.side \in Sides /\ chunk.left \in Nat
    /\ fed[chunk.side] + chunk.left <= Len(Inputs[chunk.side])

LEMMA FeedStarts == TransportAssumption /\ TransportInit => FeedInv
  <1> SUFFICES ASSUME TransportAssumption, TransportInit PROVE FeedInv
    OBVIOUS
  <1>1. /\ fed = [s \in Sides |-> 0] /\ DOMAIN chunk = {"side", "left"} /\ chunk.side = "host" /\ chunk.left = 0
    BY DEF TransportInit
  <1>2. "host" \in Sides /\ Inputs["host"] \in Seq(Lines)
    BY DEF Sides, TransportAssumption
  <1> QED BY <1>1, <1>2 DEF FeedInv

LEMMA FeedSteps == TransportAssumption /\ FeedInv /\ [TransportNext]_transportVars => FeedInv'
  <1> SUFFICES ASSUME TransportAssumption, FeedInv, [TransportNext]_transportVars PROVE FeedInv'
    OBVIOUS
  <1>1. CASE UNCHANGED <<chunk, fed>>
    BY <1>1 DEF FeedInv
  <1>2. ASSUME NEW s \in Sides, NEW n \in 1 .. Len(Inputs[s]), Chunk(s, n) PROVE FeedInv'
    <2>1. n \in 1 .. Len(Inputs[s]) - fed[s] /\ fed' = fed
      BY <1>2 DEF Chunk
    <2>2. DOMAIN chunk' = {"side", "left"} /\ chunk'.side = s /\ chunk'.left = n
      BY <1>2 DEF Chunk
    <2>3. Len(Inputs[s]) \in Nat /\ fed[s] \in Nat
      BY DEF FeedInv, Sides, TransportAssumption
    <2>4. fed[s] + n <= Len(Inputs[s]) /\ n \in Nat
      BY <2>1, <2>3
    <2> QED BY <2>1, <2>2, <2>4 DEF FeedInv
  <1>3. CASE FeedLine
    <2> DEFINE s == chunk.side
    <2>1. chunk.left > 0 /\ chunk' = [chunk EXCEPT !.left = @ - 1] /\ fed' = [fed EXCEPT ![s] = @ + 1]
      BY <1>3 DEF FeedLine
    <2>2. /\ DOMAIN chunk' = {"side", "left"} /\ chunk'.side = s /\ chunk'.left = chunk.left - 1
          /\ fed' \in [Sides -> Nat] /\ fed'[s] = fed[s] + 1 /\ fed[s] \in Nat /\ chunk.left \in Nat
      BY <2>1 DEF FeedInv
    <2>3. chunk'.left \in Nat
      BY <2>1, <2>2
    <2>4. \A a, b \in Nat, c, d \in Int : c = a + 1 /\ d = b - 1 => c + d = a + b
      OBVIOUS
    <2>5. fed'[s] + chunk'.left = fed[s] + chunk.left
      <3>1. fed'[s] \in Int /\ chunk'.left \in Int
        BY <2>2, <2>3
      <3>2. fed'[s] = fed[s] + 1 /\ chunk'.left = chunk.left - 1 /\ fed[s] \in Nat /\ chunk.left \in Nat
        BY <2>2
      <3>3. \A a, b \in Nat : fed'[s] = a + 1 /\ chunk'.left = b - 1 => fed'[s] + chunk'.left = a + b
        BY <2>4, <3>1
      <3> QED BY <3>2, <3>3
    <2>6. s \in Sides /\ fed'[s] + chunk'.left <= Len(Inputs[s])
      BY <2>5 DEF FeedInv
    <2>7. fed'[chunk'.side] + chunk'.left <= Len(Inputs[chunk'.side])
      BY <2>2, <2>6
    <2>8. fed' \in [Sides -> Nat] /\ DOMAIN chunk' = {"side", "left"} /\ chunk'.side \in Sides
      BY <2>2, <2>6
    <2> QED BY <2>3, <2>7, <2>8 DEF FeedInv
  <1> QED
    BY <1>1, <1>2, <1>3
    DEF TransportNext, Reads, WriteTimesOut, PipeBreaks, HostEnds, Writes, Throws, Begins, HandlerEnds,
        ExitSettles, Exits, SpawnError, ServerCloses, ChildKilled, transportVars

LEMMA FeedKeeps == ASSUME TransportAssumption, FeedInv, TransportInv, FeedLine PROVE TransportInv'
  <1> DEFINE s == chunk.side
             t == Inputs[s][fed[s] + 1]
  <1>1. UNCHANGED <<turn, written>>
    BY DEF FeedLine
  <1>2. CASE UNCHANGED <<proxy, queueVars>>
    BY <1>1, <1>2, TransportRests DEF queueVars, lanes
  <1>3. CASE ~proxy.settled /\ Queue!Accepts(t) /\ UNCHANGED proxy
    <2>1. Inputs[s] \in Seq(Lines) /\ fed[s] \in Nat /\ chunk.left \in Nat /\ chunk.left > 0
          /\ fed[s] + chunk.left <= Len(Inputs[s])
      BY DEF FeedInv, FeedLine, Sides, TransportAssumption
    <2>2. fed[s] + 1 \in 1 .. Len(Inputs[s])
      BY <2>1
    <2>3. t \in Turns
      BY <2>1, <2>2 DEF Turns
    <2> QED BY <1>1, <1>3, <2>3, TransportAccepts
  <1>4. CASE \E paused : Settle("1", paused) /\ CloseQueue
    BY <1>1, <1>4, TransportSettles DEF CloseQueue, Dropping
  <1> QED BY <1>2, <1>3, <1>4 DEF FeedLine, Enqueue

LEMMA ThrowsKeeps == ASSUME TransportInv, NEW t \in Lines, Throws(t) PROVE TransportInv'
  <1>1. /\ Settle("1", proxy.paused) /\ UNCHANGED <<turn, written>> /\ Dropping
    BY DEF Throws, Queue!Fails, Dropping
  <1> QED BY <1>1, TransportSettles

LEMMA ExitSettlesKeeps == ASSUME TransportAssumption, TransportInv, ExitSettles PROVE TransportInv'
  <1>1. /\ ExitTask \in executing /\ turn' = [turn EXCEPT !.done = 1] /\ Settle(server.code, proxy.paused)
        /\ Dropping /\ written' = written
    BY DEF ExitSettles, AtWork, CloseQueue, Dropping
  <1>2. /\ DOMAIN proxy' = DOMAIN proxy /\ proxy'.settled /\ proxy'.settled \in BOOLEAN
        /\ proxy'.code = IF proxy.settled THEN proxy.code ELSE server.code
    BY <1>1, SettleEnds DEF TransportInv, SessionInv
  <1>3. DOMAIN turn' = DOMAIN turn /\ turn'.task = turn.task /\ turn'.begun = turn.begun /\ turn'.done \in Nat
    BY <1>1 DEF TransportInv, SessionInv, SessionTypes
  <1>4. ~proxy.settled => LastOnes
    BY <1>1, ExitMeansThrough DEF TransportInv
  <1> QED BY <1>1, <1>2, <1>3, <1>4, TransportEnds

LEMMA ExitsKeeps == ASSUME TransportInv, NEW code, Exits(code) PROVE TransportInv'
  <1>1. UNCHANGED <<turn, written>>
    BY DEF Exits
  <1>2. CASE ~proxy.settled /\ Queue!HasRoom(ExitTask)
    <2>1. proxy' = [proxy EXCEPT !.paused = @ \ {"server"}] /\ Queue!Accepts(ExitTask)
      BY <1>2 DEF Exits
    <2>2. DOMAIN proxy' = DOMAIN proxy /\ proxy'.settled = proxy.settled /\ proxy'.code = proxy.code
      BY <2>1 DEF TransportInv, SessionInv, SessionTypes
    <2>3. ExitTask \in Turns
      BY DEF Turns
    <2> QED BY <1>1, <1>2, <2>1, <2>2, <2>3, TransportAccepts
  <1>3. CASE proxy.settled
    <2>1. proxy' = [proxy EXCEPT !.paused = @ \ {"server"}] /\ UNCHANGED queueVars
      BY <1>3 DEF Exits
    <2>2. DOMAIN proxy' = DOMAIN proxy /\ proxy'.settled = proxy.settled /\ proxy'.code = proxy.code
      BY <2>1 DEF TransportInv, SessionInv, SessionTypes
    <2> QED BY <1>1, <2>1, <2>2, TransportRests DEF queueVars, lanes
  <1>4. CASE ~proxy.settled /\ ~Queue!HasRoom(ExitTask)
    <2>1. proxy' = [proxy EXCEPT !.settled = TRUE, !.code = "1", !.paused = {"host"}] /\ Dropping
      BY <1>4 DEF Exits, CloseQueue, Dropping
    <2>2. DOMAIN proxy' = DOMAIN proxy /\ proxy'.settled = TRUE /\ proxy'.code = "1"
      BY <2>1 DEF TransportInv, SessionInv, SessionTypes
    <2>3. turn'.done \in Nat
      BY <1>1 DEF TransportInv, SessionInv, SessionTypes
    <2> QED BY <1>1, <2>1, <2>2, <2>3, TransportEnds
  <1> QED BY <1>2, <1>3, <1>4

LEMMA SpawnErrorKeeps == ASSUME TransportInv, SpawnError PROVE TransportInv'
  <1>1. /\ proxy' = [proxy EXCEPT !.settled = TRUE, !.code = IF @ = "none" THEN "1" ELSE @,
                                  !.paused = @ \cup {"host"}]
        /\ Dropping /\ UNCHANGED <<turn, written>>
    BY DEF SpawnError, CloseQueue, Dropping
  <1>2. DOMAIN proxy' = DOMAIN proxy /\ proxy'.settled = TRUE /\ (proxy'.code = "0" => proxy.code = "0")
    BY <1>1 DEF TransportInv, SessionInv, SessionTypes
  <1>3. proxy.code = "0" => proxy.settled
    BY DEF TransportInv, SessionInv, TurnFits
  <1>4. turn'.done \in Nat
    BY <1>1 DEF TransportInv, SessionInv, SessionTypes
  <1> QED BY <1>1, <1>2, <1>3, <1>4, TransportEnds

LEMMA WriteTimesOutKeeps == ASSUME TransportInv, NEW s, WriteTimesOut(s) PROVE TransportInv'
  <1>1. Settle("1", proxy.paused) /\ UNCHANGED <<turn, written>>
    BY DEF WriteTimesOut
  <1>2. Dropping \/ UNCHANGED lanes
    BY DEF WriteTimesOut, CloseQueue, Dropping, queueVars, lanes
  <1> QED BY <1>1, <1>2, TransportSettles

LEMMA ReadsKeeps == ASSUME TransportInv, NEW s, Reads(s) PROVE TransportInv'
  <1>1. /\ proxy' = [proxy EXCEPT !.paused = {}] \/ proxy' = proxy
        /\ UNCHANGED <<turn, written, queueVars>>
    BY DEF Reads
  <1>2. DOMAIN proxy' = DOMAIN proxy /\ proxy'.settled = proxy.settled /\ proxy'.code = proxy.code
    BY <1>1 DEF TransportInv, SessionInv, SessionTypes
  <1> QED BY <1>1, <1>2, TransportRests DEF queueVars, lanes

LEMMA FlagsKeep ==
    ASSUME TransportInv, HostEnds \/ \E s : PipeBreaks(s) PROVE TransportInv'
  <1>1. /\ proxy' = [proxy EXCEPT !.ended = TRUE] \/ proxy' = [proxy EXCEPT !.crashed = TRUE]
        /\ UNCHANGED <<turn, written, queueVars>>
    BY DEF HostEnds, PipeBreaks
  <1>2. DOMAIN proxy' = DOMAIN proxy /\ proxy'.settled = proxy.settled /\ proxy'.code = proxy.code
    BY <1>1 DEF TransportInv, SessionInv, SessionTypes
  <1> QED BY <1>1, <1>2, TransportRests DEF queueVars, lanes

LEMMA TransportSteps ==
    TransportAssumption /\ FeedInv /\ TransportInv /\ [TransportNext]_transportVars => TransportInv'
  <1> SUFFICES ASSUME TransportAssumption, FeedInv, TransportInv, [TransportNext]_transportVars
               PROVE  TransportInv'
    OBVIOUS
  <1>1. CASE UNCHANGED <<proxy, turn, written, queueVars>>
    BY <1>1, TransportRests DEF queueVars, lanes
  <1>2. ASSUME (\E s \in Sides, n \in Nat : Chunk(s, n)) \/ ServerCloses \/ ChildKilled \/ UNCHANGED transportVars
        PROVE  TransportInv'
    BY <1>1, <1>2 DEF Chunk, ServerCloses, ChildKilled, transportVars
  <1>3. ASSUME NEW s \in Sides, Reads(s) \/ WriteTimesOut(s) \/ PipeBreaks(s) PROVE TransportInv'
    BY <1>3, ReadsKeeps, WriteTimesOutKeeps, FlagsKeep
  <1>4. CASE FeedLine
    BY <1>4, FeedKeeps
  <1>5. CASE HostEnds
    BY <1>5, FlagsKeep
  <1>6. ASSUME NEW t \in Lines, Writes(t) PROVE TransportInv'
    <2>1. LaneInv'
      BY <1>6, LaneRests, LaneDrops DEF TransportInv, Writes, WriteFrame, CloseQueue, queueVars
    <2> QED BY <1>6, <2>1, WritesKeeps DEF TransportInv
  <1>7. ASSUME NEW t \in Lines, Throws(t) PROVE TransportInv'
    BY <1>7, ThrowsKeeps
  <1>8. ASSUME NEW t \in Turns, Begins(t) PROVE TransportInv'
    <2>1. LaneInv'
      BY <1>8, LaneRests DEF TransportInv, Begins, queueVars
    <2> QED BY <1>8, <2>1, BeginsKeeps DEF TransportInv
  <1>9. ASSUME NEW t \in Turns, HandlerEnds(t) PROVE TransportInv'
    <2>1. LaneInv'
      BY <1>9, LaneFinally DEF TransportInv, HandlerEnds
    <2> QED BY <1>9, <2>1, EndKeeps DEF TransportInv
  <1>10. CASE ExitSettles
    BY <1>10, ExitSettlesKeeps
  <1>11. ASSUME NEW code, Exits(code) PROVE TransportInv'
    BY <1>11, ExitsKeeps
  <1>12. CASE SpawnError
    BY <1>12, SpawnErrorKeeps
  <1> QED
    BY <1>2, <1>3, <1>4, <1>5, <1>6, <1>7, <1>8, <1>9, <1>10, <1>11, <1>12 DEF TransportNext, Turns

\* Whatever the two sides send and read, in which order its handlers, timers and the server's exit
\* come: frames are written in the order in which their lines came, and a session that ends
\* because its server exited has handled all that had arrived by then.
THEOREM TransportKeepsFrames == TransportSpec => []LastFramesGetThrough
  <1>1. TransportInv => LastFramesGetThrough
    <2> SUFFICES ASSUME TransportInv PROVE LastFramesGetThrough
      OBVIOUS
    <2> DEFINE place(t) == CHOOSE n \in DOMAIN started : started[n] = t
    <2>1. /\ started \in Seq(Turns) /\ DOMAIN started = 1 .. Len(started)
          /\ written \in Seq(Sides \X Lines) /\ DOMAIN written = 1 .. Len(written)
      BY StartedOnce DEF TransportInv, SessionInv, SessionTypes
    <2>2. ASSUME NEW i \in DOMAIN written
          PROVE  place(written[i][2]) \in 1 .. Len(started) /\ started[place(written[i][2])] = written[i][2]
      <3>1. \E n \in DOMAIN started : started[n] = written[i][2]
        BY <2>1 DEF TransportInv, SessionInv, WritesInOrder
      <3> QED BY <2>1, <3>1
    <2> HIDE DEF place
    <2>3. ASSUME NEW i \in DOMAIN written, NEW j \in DOMAIN written, i < j
          PROVE  place(written[i][2]) <= place(written[j][2])
      BY <2>1, <2>2, <2>3 DEF TransportInv, SessionInv, WritesInOrder
    <2>4. proxy.settled /\ proxy.code = "0" =>
             \A n \in DOMAIN accepted :
                (\A m \in 1 .. n : accepted[m] # ExitTask) => FramesOf(accepted[n]) \subseteq Written
      BY DEF TransportInv, SessionInv, LastOnes
    <2> QED BY <2>3, <2>4 DEF LastFramesGetThrough, place, FramesOf, Written
  <1>2. TransportInit => TransportInv /\ FeedInv
    BY TransportAssumption, TransportStarts, FeedStarts
  <1>3. FeedInv /\ TransportInv /\ [TransportNext]_transportVars => (FeedInv /\ TransportInv)'
    BY TransportAssumption, TransportSteps, FeedSteps
  <1> QED BY <1>1, <1>2, <1>3, PTL DEF TransportSpec

-----------------------------------------------------------------------------
(* The transport's queue, once more: it is the one of BoundedQueue.          *)

Retained == [t \in Lines \cup {ExitTask} |-> IF t = ExitTask THEN 0 ELSE Frames[t].size]

LEMMA RetainedAreSums == \A S : Queue!BytesOf(S) = SumOf(Retained, S)
  BY DEF Queue!BytesOf, Queue!MapThenSumSet, Queue!MapThenFoldSet, SumOf, MapThenSumSet,
         MapThenFoldSet, Retained

LEMMA RetainedIsNat == ASSUME TransportAssumption, NEW t \in Turns PROVE Retained[t] \in Nat
  BY DEF Retained, Turns, TransportAssumption

\* A closed queue is empty, so that closing it once more changes nothing.
CountersFit ==
    /\ closing => tasks = << >>
    /\ count \in Int /\ bytes \in Int /\ closing \in BOOLEAN

\* All that the transport does to its queue.
Called ==
    \/ UNCHANGED queueVars \/ CloseQueue
    \/ \E t \in Turns : Queue!Accepts(t) \/ Queue!Fails(t) \/ Queue!Finally(t)

LEMMA QueueIsCalled ==
    ASSUME TransportAssumption, FeedInv, [TransportNext]_transportVars PROVE Called
  <1>1. ASSUME FeedLine PROVE Called
    <2> DEFINE s == chunk.side
               t == Inputs[s][fed[s] + 1]
    <2>1. Inputs[s] \in Seq(Lines) /\ fed[s] \in Nat /\ chunk.left \in Nat /\ chunk.left > 0
          /\ fed[s] + chunk.left <= Len(Inputs[s])
      BY <1>1 DEF FeedInv, FeedLine, Sides, TransportAssumption
    <2>2. fed[s] + 1 \in 1 .. Len(Inputs[s])
      BY <2>1
    <2>3. t \in Turns
      BY <2>1, <2>2 DEF Turns
    <2>4. UNCHANGED queueVars \/ CloseQueue \/ Queue!Accepts(t)
      BY <1>1 DEF FeedLine, Enqueue
    <2> QED BY <2>3, <2>4 DEF Called
  <1>2. ASSUME NEW t \in Lines, Writes(t) \/ Throws(t) PROVE Called
    <2>1. t \in Turns
      BY DEF Turns
    <2> QED BY <1>2, <2>1 DEF Called, Writes, WriteFrame, Throws
  <1>3. ASSUME NEW t \in Turns, Begins(t) \/ HandlerEnds(t) PROVE Called
    BY <1>3 DEF Called, Begins, HandlerEnds
  <1>4. ASSUME NEW code, Exits(code) PROVE Called
    <2>1. ExitTask \in Turns
      BY DEF Turns
    <2> QED BY <1>4, <2>1 DEF Called, Exits
  <1>5. CASE ExitSettles \/ SpawnError \/ \E s \in Sides : WriteTimesOut(s)
    BY <1>5 DEF Called, ExitSettles, SpawnError, WriteTimesOut
  <1>6. CASE \/ HostEnds \/ ServerCloses \/ ChildKilled \/ UNCHANGED transportVars
             \/ \E s \in Sides : Reads(s) \/ PipeBreaks(s) \/ \E n \in 1 .. Len(Inputs[s]) : Chunk(s, n)
    BY <1>6 DEF Called, HostEnds, ServerCloses, ChildKilled, Reads, PipeBreaks, Chunk, transportVars
  <1> QED BY <1>1, <1>2, <1>3, <1>4, <1>5, <1>6 DEF TransportNext, Turns

\* Dropping what waits leaves integers, and of a closed queue everything as it is.
LEMMA DropsFit ==
    ASSUME TransportAssumption, LaneInv, CountersFit, Queue!Drops
    PROVE  CountersFit' /\ (closing => UNCHANGED <<tasks, count, bytes, closing>>)
  <1>1. /\ closing' = TRUE /\ tasks' = << >> /\ count' = count - Len(tasks)
        /\ bytes' = bytes - Queue!BytesOf(Queue!ToSet(tasks))
    BY DEF Queue!Drops
  <1>2. tasks \in Seq(Turns) /\ Len(tasks) \in Nat /\ DOMAIN tasks = 1 .. Len(tasks)
    BY DEF LaneInv, FirstOf
  <1>3. Queue!ToSet(tasks) = {tasks[i] : i \in 1 .. Len(tasks)}
    BY <1>2 DEF Queue!ToSet
  <1> DEFINE S == {tasks[i] : i \in 1 .. Len(tasks)}
             f == [i \in 1 .. Len(tasks) |-> tasks[i]]
  <1>4. S \subseteq Turns /\ IsFiniteSet(S)
    <2>1. f \in Surjection(1 .. Len(tasks), S)
      BY DEF Surjection
    <2>2. IsFiniteSet(1 .. Len(tasks))
      BY <1>2, FS_Interval
    <2>3. S \subseteq Turns
      BY <1>2
    <2> HIDE DEF S, f
    <2> QED BY <2>1, <2>2, <2>3, FS_Surjection
  <1>5. tasks = << >> => S = {}
    BY <1>2
  <1> HIDE DEF S
  <1>6. SumOf(Retained, S) \in Nat /\ (S = {} => SumOf(Retained, S) = 0)
    <2>1. \A t \in S : Retained[t] \in Nat
      BY <1>4, RetainedIsNat
    <2> QED BY <1>4, <2>1, SumTaken
  <1>7. bytes' = bytes - SumOf(Retained, S)
    BY <1>1, <1>3, RetainedAreSums DEF S
  <1>8. count \in Int /\ bytes \in Int /\ (closing => tasks = << >>)
    BY DEF CountersFit
  <1>9. count' \in Int /\ bytes' \in Int
    BY <1>1, <1>2, <1>6, <1>7, <1>8
  <1>10. ASSUME closing PROVE tasks' = tasks /\ count' = count /\ bytes' = bytes /\ closing' = closing
    <2>1. Len(tasks) = 0 /\ SumOf(Retained, S) = 0
      BY <1>5, <1>6, <1>8, <1>10
    <2>2. closing = TRUE
      BY <1>10 DEF CountersFit
    <2> QED BY <1>1, <1>7, <1>8, <1>10, <2>1, <2>2
  <1> QED BY <1>1, <1>9, <1>10 DEF CountersFit

LEMMA CountersKeep ==
    ASSUME TransportAssumption, LaneInv, CountersFit, Called
    PROVE  CountersFit' /\ [Queue!Next]_(Queue!vars)
  <1>1. CASE UNCHANGED queueVars
    BY <1>1 DEF CountersFit, queueVars, Queue!vars
  <1>2. CASE CloseQueue
    <2>1. Queue!Drops /\ UNCHANGED <<executing, failing, running, accepted, started>>
      BY <1>2 DEF CloseQueue
    <2>2. CountersFit' /\ (closing => UNCHANGED <<tasks, count, bytes, closing>>)
      BY <2>1, DropsFit
    <2>3. CASE closing
      BY <2>1, <2>2, <2>3 DEF Queue!vars
    <2>4. CASE ~closing
      BY <2>1, <2>2, <2>4 DEF Queue!Next, Queue!Close
    <2> QED BY <2>3, <2>4
  <1>3. ASSUME NEW t \in Turns, Queue!Accepts(t) PROVE CountersFit' /\ Queue!Next
    <2>1. ~closing /\ closing' = closing /\ count' = count + 1
      BY <1>3 DEF Queue!Accepts, Queue!HasRoom
    <2>2. bytes' = bytes + Retained[t]
      BY <1>3 DEF Queue!Accepts, Retained, Turns
    <2>3. CountersFit'
      BY <2>1, <2>2, RetainedIsNat DEF CountersFit
    <2> QED BY <1>3, <2>3 DEF Queue!Next, Turns
  <1>4. ASSUME NEW t \in Turns, Queue!Fails(t) PROVE CountersFit' /\ Queue!Next
    <2>1. Queue!Drops
      BY <1>4 DEF Queue!Fails
    <2> QED BY <1>4, <2>1, DropsFit DEF Queue!Next, Turns
  <1>5. ASSUME NEW t \in Turns, Queue!Finally(t) PROVE CountersFit' /\ Queue!Next
    <2>1. /\ t \in executing /\ closing' = closing /\ count' = count - 1
          /\ Queue!Drain(tasks, running - 1, executing \ {t})
      BY <1>5 DEF Queue!Finally
    <2>2. bytes' = bytes - Retained[t]
      BY <1>5 DEF Queue!Finally, Retained, Turns
    <2>3. running - 1 = 0
      BY <2>1 DEF LaneInv, OneAtWork
    <2>4. PICK n \in {0, 1} : Drained(tasks, 0, executing \ {t}, n)
      BY <2>1, <2>3, LaneDrain DEF LaneInv, FirstOf
    <2>5. ASSUME closing PROVE tasks' = << >>
      <3>1. tasks = << >> /\ Len(tasks) = 0
        BY <2>5 DEF CountersFit
      <3>2. n = 0
        BY <2>4, <2>5 DEF Drained
      <3>3. tasks' \in Seq(Turns) /\ Len(tasks') = 0
        BY <2>4, <3>1, <3>2 DEF Drained
      <3> QED BY <3>3
    <2>6. CountersFit'
      BY <2>1, <2>2, <2>5, RetainedIsNat DEF CountersFit
    <2> QED BY <1>5, <2>6 DEF Queue!Next, Turns
  <1> QED BY <1>1, <1>2, <1>3, <1>4, <1>5 DEF Called

\* All that the session does to the queue, at its end as well, is a step of BoundedQueue: what is
\* shown of its counters and limits holds of the proxy's (runMcpProxy, src/mcp-proxy.js).
THEOREM TransportUsesQueue == TransportSpec => Queue!Spec
  <1>1. TransportInit => Queue!Init /\ TransportInv /\ FeedInv /\ CountersFit
    <2>1. TransportInit => Queue!Init
      BY DEF TransportInit
    <2>2. Queue!Init => tasks = << >> /\ count = 0 /\ bytes = 0 /\ closing = FALSE
      BY DEF Queue!Init
    <2>3. ASSUME tasks = << >>, count = 0, bytes = 0, closing = FALSE PROVE CountersFit
      <3>1. count \in Int /\ bytes \in Int
        BY <2>3
      <3>2. closing \in BOOLEAN
        BY <2>3
      <3> QED BY <2>3, <3>1, <3>2 DEF CountersFit
    <2> QED BY <2>1, <2>2, <2>3, TransportAssumption, TransportStarts, FeedStarts
  <1>2. FeedInv /\ TransportInv /\ CountersFit /\ [TransportNext]_transportVars =>
           (FeedInv /\ TransportInv /\ CountersFit)' /\ [Queue!Next]_(Queue!vars)
    <2>1. FeedInv /\ [TransportNext]_transportVars => Called
      BY TransportAssumption, QueueIsCalled
    <2>2. TransportInv /\ CountersFit /\ Called => CountersFit' /\ [Queue!Next]_(Queue!vars)
      BY TransportAssumption, CountersKeep DEF TransportInv
    <2> QED BY <2>1, <2>2, TransportAssumption, TransportSteps, FeedSteps
  <1> QED BY <1>1, <1>2, PTL DEF TransportSpec, Queue!Spec

-----------------------------------------------------------------------------
(* No server is left: the wait for the exit cannot time out before the      *)
(* timer for SIGKILL, which was armed with it, has fired.                   *)

KillPrecedesDeadline ==
    "deadline" \in timers => "kill" \in timers \/ "SIGKILL" \in signals

KillInv == KillPrecedesDeadline /\ NoServerLeft

LEMMA KillInit == Init => KillInv
  BY DEF Init, KillInv, KillPrecedesDeadline, NoServerLeft

LEMMA KillNext == KillInv /\ [Next]_vars => KillInv'
  <1> SUFFICES ASSUME KillInv, [Next]_vars PROVE KillInv'
    OBVIOUS
  <1> USE DEF KillInv, KillPrecedesDeadline, NoServerLeft, Stdio, Http, Idle, Working
  <1>1. ASSUME NEW id \in 1..nextId, NEW kind \in Kinds, NEW n \in FrameSizes,
               Frame(id, kind, n)
        PROVE  KillInv'
    BY <1>1 DEF Frame
  <1>2. CASE OverCap
    BY <1>2 DEF OverCap, KillChild
  <1>3. CASE Continue
    <2>1. PICK e : Proceeds(e) /\ transport' = transport /\ child' = child
      BY <1>3 DEF Continue
    <2> QED
      BY <1>3, <2>1 DEF Continue, Proceeds, Close
  <1>4. CASE SpawnFails
    BY <1>4 DEF SpawnFails
  <1>5. CASE ChildExits
    BY <1>5 DEF ChildExits
  <1>6. CASE StdinBreaks
    BY <1>6 DEF StdinBreaks
  <1>7. CASE Timeout
    BY <1>7 DEF Timeout, Close
  <1>8. ASSUME NEW t \in {"escalate", "kill"}, Escalate(t) PROVE KillInv'
    BY <1>8 DEF Escalate
  <1>9. CASE GivesUp
    BY <1>9 DEF GivesUp
  <1>10. CASE HttpFails
    BY <1>10 DEF HttpFails
  <1>11. CASE HttpInitialized
    BY <1>11 DEF HttpInitialized
  <1>12. CASE HttpNotified
    BY <1>12 DEF HttpNotified
  <1>13. ASSUME NEW last \in BOOLEAN, NEW n \in FrameSizes, HttpPage(last, n)
         PROVE  KillInv'
    BY <1>13 DEF HttpPage
  <1>14. CASE HttpExpires
    BY <1>14 DEF HttpExpires
  <1>15. CASE HttpDeleted
    BY <1>15 DEF HttpDeleted
  <1>16. CASE UNCHANGED vars
    BY <1>16 DEF vars
  <1> QED
    BY <1>1, <1>2, <1>3, <1>4, <1>5, <1>6, <1>7, <1>8, <1>9, <1>10, <1>11,
       <1>12, <1>13, <1>14, <1>15, <1>16 DEF Next

(* An enumeration over stdio returns only when the server has exited or was  *)
(* sent SIGKILL (killChildAndWait, src/mcp-client.js:355).                   *)
THEOREM NoServerIsLeft == Spec => []NoServerLeft
  <1>1. KillInv => NoServerLeft
    BY DEF KillInv
  <1> QED
    BY KillInit, KillNext, <1>1, PTL DEF Spec

-----------------------------------------------------------------------------
(* The manifest: the request awaited is always the one for the next page,   *)
(* so an answer that settles it is that page and nothing else is collected. *)

InOrder(s) == s \in Seq(Nat) /\ \A i \in 1..Len(s) : s[i] = i + 1

Collected ==
    /\ InOrder(enum.pages)
    /\ enum \in [at : {"init", "notify", "list", "done"},
                 pages : Seq(Nat), whole : BOOLEAN, warned : BOOLEAN]

\* The id the next answer must have.
Awaited ==
    /\ nextId \in Nat
    /\ enum.at \in {"init", "notify"} => enum.pages = <<>> /\ nextId = 2
    /\ enum.at = "list" => nextId = Len(enum.pages) + 3
    /\ pending \subseteq {nextId - 1}
    /\ answer # None => answer.id = nextId - 1
    /\ transport = "http" => answer = None

ListOutcome ==
    /\ enum.warned => enum.at = "done" /\ Len(enum.pages) = MaxListPages
    /\ result = "ok" => enum.at = "done" /\ (enum.whole \/ (Stdio /\ enum.warned))

ListInv == Collected /\ Awaited /\ ListOutcome

LEMMA ListInit == Init => ListInv
  BY DEF Init, ListInv, Collected, Awaited, ListOutcome, InOrder

LEMMA ListGivesManifest == ListInv => ManifestIsTheList
  <1> SUFFICES ASSUME ListInv PROVE ManifestIsTheList
    OBVIOUS
  <1>1. enum.pages = [i \in 1..Len(enum.pages) |-> i + 1]
    BY DEF ListInv, Collected, InOrder
  <1> QED
    BY <1>1 DEF ListInv, ListOutcome, ManifestIsTheList

\* The next page keeps the pages in order.
LEMMA NextPageInOrder ==
  ASSUME NEW s, InOrder(s), NEW id, id = Len(s) + 2
  PROVE  /\ InOrder(Append(s, id)) /\ Append(s, id) \in Seq(Nat)
         /\ Len(Append(s, id)) = Len(s) + 1
  <1>1. s \in Seq(Nat) /\ id \in Nat /\ Len(s) \in Nat
    BY DEF InOrder
  <1>2. /\ Append(s, id) \in Seq(Nat) /\ Len(Append(s, id)) = Len(s) + 1
        /\ \A i \in 1..Len(s) : Append(s, id)[i] = s[i]
        /\ Append(s, id)[Len(s) + 1] = id
    BY <1>1
  <1>3. \A i \in 1..Len(s) + 1 : Append(s, id)[i] = i + 1
    BY <1>1, <1>2 DEF InOrder
  <1> QED
    BY <1>2, <1>3 DEF InOrder

\* What WithPage makes of the state of the enumeration.
LEMMA WithPageFacts ==
  ASSUME Collected, NEW id, id = Len(enum.pages) + 2, NEW last \in BOOLEAN
  PROVE  /\ WithPage(id, last) \in [at : {"init", "notify", "list", "done"},
                 pages : Seq(Nat), whole : BOOLEAN, warned : BOOLEAN]
         /\ InOrder(WithPage(id, last).pages)
         /\ Len(WithPage(id, last).pages) = Len(enum.pages) + 1
         /\ WithPage(id, last).whole = last
         /\ WithPage(id, last).warned = enum.warned
         /\ WithPage(id, last).at = IF last THEN "done" ELSE "list"
  <1>1. InOrder(enum.pages)
    BY DEF Collected
  <1>2. /\ InOrder(Append(enum.pages, id)) /\ Append(enum.pages, id) \in Seq(Nat)
        /\ Len(Append(enum.pages, id)) = Len(enum.pages) + 1
    BY <1>1, NextPageInOrder
  <1> QED
    BY <1>2 DEF WithPage, Collected

\* Steps that collect nothing and ask for nothing.
LEMMA NothingAsked ==
  ASSUME ListInv, enum' = enum, nextId' = nextId, result' = result,
         transport' = transport, pending' \subseteq {nextId - 1},
         answer' # None => answer'.id = nextId - 1 /\ transport # "http"
  PROVE  ListInv'
  BY DEF ListInv, Collected, Awaited, ListOutcome, Stdio

LEMMA ListNext == ListInv /\ [Next]_vars => ListInv'
  <1> SUFFICES ASSUME ListInv, [Next]_vars PROVE ListInv'
    OBVIOUS
  <1> USE DEF Stdio, Http, Idle, Working
  <1>0. ListInv /\ Collected /\ Awaited /\ ListOutcome
    BY DEF ListInv
  <1>1. ASSUME NEW id \in 1..nextId, NEW kind \in Kinds, NEW n \in FrameSizes,
               Frame(id, kind, n)
        PROVE  ListInv'
    <2>1. CASE id \in pending
      <3>1. id = nextId - 1
        BY <1>0, <2>1 DEF Awaited
      <3> QED
        <4>1. /\ answer' = [id |-> id, kind |-> kind] /\ pending' = pending \ {id}
              /\ enum' = enum /\ nextId' = nextId /\ result' = result
              /\ transport' = transport /\ transport # "http"
          BY <1>1, <2>1 DEF Frame
        <4>2. answer'.id = nextId - 1 /\ pending' \subseteq {nextId - 1}
          BY <1>0, <3>1, <4>1 DEF Awaited
        <4> QED
          BY <1>0, <4>1, <4>2, NothingAsked
    <2>2. CASE id \notin pending
      BY <1>0, <1>1, <2>2, NothingAsked DEF Frame, Awaited
    <2> QED
      BY <2>1, <2>2
  <1>2. CASE OverCap
    BY <1>0, <1>2 DEF OverCap, FailAll, ListInv, Collected, Awaited, ListOutcome, None
  <1>3. CASE Continue
    <2> USE <1>3 DEF Continue
    <2>1. CASE answer.kind = "error" /\ Proceeds(Finished(enum)) /\ UNCHANGED <<pending, nextId>>
      BY <1>0, <2>1 DEF Proceeds, Close, Finished, ListInv, Collected, Awaited, ListOutcome
    <2>2. CASE /\ answer.kind # "error" /\ enum.at = "init"
               /\ Proceeds([enum EXCEPT !.at = "list"]) /\ Ask
      <3>1. enum' = [enum EXCEPT !.at = "list"] /\ result' = result
        BY <1>0, <2>2 DEF Proceeds, Collected
      <3> QED
        BY <1>0, <2>2, <3>1 DEF Ask, ListInv, Collected, Awaited, ListOutcome
    <2>3. CASE /\ answer.kind = "last" /\ enum.at = "list"
               /\ Proceeds(WithPage(answer.id, TRUE)) /\ UNCHANGED <<pending, nextId>>
      <3>1. answer.id = Len(enum.pages) + 2
        BY <1>0, <2>3 DEF Awaited, Collected
      <3>2. enum' = WithPage(answer.id, TRUE)
        BY <2>3 DEF Proceeds
      <3> QED
        BY <1>0, <2>3, <3>1, <3>2, WithPageFacts
           DEF ListInv, Collected, Awaited, ListOutcome
    <2>4. CASE /\ answer.kind = "more" /\ enum.at = "list" /\ ~AtLimit
               /\ Proceeds(WithPage(answer.id, FALSE)) /\ Ask
      <3>1. answer.id = Len(enum.pages) + 2
        BY <1>0, <2>4 DEF Awaited, Collected
      <3>2. enum' = WithPage(answer.id, FALSE) /\ enum'.at = "list"
        BY <1>0, <2>4, <3>1, WithPageFacts DEF Proceeds
      <3>3. result' = result
        BY <2>4, <3>2 DEF Proceeds
      <3> QED
        <4>1. Collected' /\ enum'.warned = enum.warned /\ Len(enum'.pages) = Len(enum.pages) + 1
          BY <1>0, <2>4, <3>1, <3>2, WithPageFacts DEF Collected
        <4>2. nextId' = nextId + 1 /\ pending' = {nextId} /\ answer' = None
          BY <2>4 DEF Ask
        <4>3. Awaited'
          <5>1. nextId = Len(enum.pages) + 3 /\ Len(enum.pages) \in Nat
            BY <1>0, <2>4 DEF Awaited, Collected
          <5>2. nextId' \in Nat /\ nextId' - 1 = nextId /\ nextId' = Len(enum'.pages) + 3
            BY <4>1, <4>2, <5>1
          <5>3. enum'.at = "list" /\ enum'.at \notin {"init", "notify"}
            BY <3>2
          <5> QED
            BY <4>2, <5>2, <5>3 DEF Awaited
        <4>4. ListOutcome'
          BY <1>0, <2>4, <3>2, <3>3, <4>1 DEF ListOutcome
        <4> QED
          BY <4>1, <4>3, <4>4 DEF ListInv
    <2>5. CASE /\ answer.kind = "more" /\ enum.at = "list" /\ AtLimit
               /\ Proceeds(StopsAtLimit(WithPage(answer.id, FALSE)))
               /\ UNCHANGED <<pending, nextId>>
      <3> DEFINE e == WithPage(answer.id, FALSE)
      <3>1. answer.id = Len(enum.pages) + 2
        BY <1>0, <2>5 DEF Awaited, Collected
      <3>2. /\ e \in [at : {"init", "notify", "list", "done"},
                      pages : Seq(Nat), whole : BOOLEAN, warned : BOOLEAN]
            /\ InOrder(e.pages) /\ Len(e.pages) = MaxListPages
        BY <1>0, <2>5, <3>1, WithPageFacts DEF AtLimit
      <3>3. enum' = [e EXCEPT !.at = "done", !.warned = TRUE]
        BY <2>5 DEF Proceeds, StopsAtLimit
      <3> HIDE DEF e
      <3>4. Collected' /\ enum'.at = "done" /\ enum'.warned
            /\ Len(enum'.pages) = MaxListPages
        BY <3>2, <3>3 DEF Collected
      <3> QED
        BY <1>0, <2>5, <3>4 DEF ListInv, Awaited, ListOutcome
    <2> QED
      BY <2>1, <2>2, <2>3, <2>4, <2>5
  <1>4. CASE SpawnFails
    BY <1>0, <1>4 DEF SpawnFails, FailAll, ListInv, Collected, Awaited, ListOutcome, None
  <1>5. CASE ChildExits
    <2>1. CASE settled
      BY <1>0, <1>5, <2>1, NothingAsked DEF ChildExits, ExitFails, Awaited
    <2>2. CASE ~settled
      <3>1. /\ pending' = {} /\ enum' = enum /\ nextId' = nextId
            /\ result' = result /\ transport' = transport /\ transport # "http"
            /\ answer' = IF pending = {} THEN answer
                         ELSE [id |-> CHOOSE i \in pending : TRUE, kind |-> "error"]
        BY <1>5, <2>2 DEF ChildExits, ExitFails, FailAll
      <3>2. pending # {} => (CHOOSE i \in pending : TRUE) = nextId - 1
        BY <1>0 DEF Awaited
      <3>3. answer' # None => answer'.id = nextId - 1
        BY <1>0, <3>1, <3>2 DEF Awaited
      <3> QED
        BY <1>0, <3>1, <3>3, NothingAsked
    <2> QED
      BY <2>1, <2>2
  <1>6. CASE StdinBreaks
    BY <1>0, <1>6 DEF StdinBreaks, ListInv, Collected, Awaited, ListOutcome
  <1>7. CASE Timeout
    BY <1>0, <1>7 DEF Timeout, Close, ListInv, Collected, Awaited, ListOutcome
  <1>8. ASSUME NEW t \in {"escalate", "kill"}, Escalate(t) PROVE ListInv'
    BY <1>0, <1>8 DEF Escalate, ListInv, Collected, Awaited, ListOutcome
  <1>9. CASE GivesUp
    BY <1>0, <1>9 DEF GivesUp, ListInv, Collected, Awaited, ListOutcome
  <1>10. CASE HttpFails
    BY <1>0, <1>10 DEF HttpFails, CloseHttp, Finished, ListInv, Collected, Awaited, ListOutcome
  <1>11. CASE HttpInitialized
    BY <1>0, <1>11 DEF HttpInitialized, ListInv, Collected, Awaited, ListOutcome
  <1>12. CASE HttpNotified
    <2>1. /\ enum' = [enum EXCEPT !.at = "list"] /\ enum.at = "notify"
          /\ nextId' = nextId + 1 /\ pending' = {nextId} /\ answer' = answer
          /\ result' = result /\ transport' = transport /\ transport = "http"
      BY <1>12 DEF HttpNotified, Ask
    <2>2. answer = None
      BY <1>0, <2>1 DEF Awaited
    <2>3. Collected' /\ ListOutcome'
      BY <1>0, <2>1 DEF Collected, ListOutcome
    <2> QED
      BY <1>0, <2>1, <2>2, <2>3 DEF ListInv, Collected, Awaited
  <1>13. ASSUME NEW last \in BOOLEAN, NEW n \in FrameSizes, HttpPage(last, n)
         PROVE  ListInv'
    <2>1. nextId - 1 = Len(enum.pages) + 2
      BY <1>0, <1>13 DEF HttpPage, Awaited, Collected
    <2>2. enum' = WithPage(nextId - 1, last)
      BY <1>13 DEF HttpPage
    <2>3. /\ Collected' /\ enum'.warned = enum.warned /\ enum'.whole = last
          /\ Len(enum'.pages) = Len(enum.pages) + 1
          /\ enum'.at = IF last THEN "done" ELSE "list"
      BY <1>0, <2>1, <2>2, WithPageFacts DEF Collected
    <2>4. answer' = None /\ enum.at = "list" /\ transport' = transport
      BY <1>0, <1>13 DEF HttpPage, Awaited
    <2>5. CASE last
      <3>1. pending' = {} /\ nextId' = nextId
        BY <1>13, <2>5 DEF HttpPage
      <3> QED
        BY <1>0, <2>3, <2>4, <2>5, <3>1 DEF ListInv, Awaited, ListOutcome
    <2>6. CASE ~last
      <3>1. pending' = {nextId} /\ nextId' = nextId + 1 /\ result' = result
        BY <1>13, <2>6 DEF HttpPage, Ask
      <3>2. Awaited'
        BY <1>0, <2>3, <2>4, <2>6, <3>1 DEF Awaited, Collected
      <3> QED
        BY <1>0, <2>3, <2>4, <2>6, <3>1, <3>2 DEF ListInv, ListOutcome
    <2> QED
      BY <2>5, <2>6
  <1>14. CASE HttpExpires
    BY <1>0, <1>14 DEF HttpExpires, Finished, ListInv, Collected, Awaited, ListOutcome
  <1>15. CASE HttpDeleted
    BY <1>0, <1>15 DEF HttpDeleted, ListInv, Collected, Awaited, ListOutcome
  <1>16. CASE UNCHANGED vars
    BY <1>0, <1>16 DEF vars, ListInv, Collected, Awaited, ListOutcome
  <1> QED
    BY <1>1, <1>2, <1>3, <1>4, <1>5, <1>6, <1>7, <1>8, <1>9, <1>10, <1>11,
       <1>12, <1>13, <1>14, <1>15, <1>16 DEF Next

(* A manifest that is returned holds each listed page once and in order, and *)
(* is short of the last page only over stdio, with its warning               *)
(* (src/mcp-client.js:476 and 658).                                          *)
THEOREM ManifestsAreLists == Spec => []ManifestIsTheList
  BY ListInit, ListNext, ListGivesManifest, PTL DEF Spec
-----------------------------------------------------------------------------
(* The lockfile audit.                                                       *)

\* What keeps the order of the indices kept: they are all there, once, each where counting finds it.
LEMMA KeptIs ==
    ASSUME NEW n \in Nat, NEW keep \in [1 .. n -> BOOLEAN]
    PROVE  /\ Kept(keep) \in Seq(1 .. n)
           /\ \A q \in DOMAIN Kept(keep) : keep[Kept(keep)[q]]
           /\ \A p, q \in DOMAIN Kept(keep) : Kept(keep)[p] = Kept(keep)[q] => p = q
           /\ \A i \in 1 .. n : keep[i] =>
                 LET c == Cardinality({j \in 1 .. i : keep[j]})
                 IN  c \in DOMAIN Kept(keep) /\ Kept(keep)[c] = i
  <1> DEFINE V == Seq(1 .. n)
             op(s, i) == IF keep[i] THEN Append(s, i) ELSE s
             G == [i \in 1 .. n |-> [s \in V |-> op(s, i)]]
             all == [i \in DOMAIN keep |-> i]
             E(g) == g = [s \in SUBSET DOMAIN all |->
                            IF s = {} THEN << >> ELSE op(g[s \ {Max(s)}], all[Max(s)])]
  <1>0. DOMAIN all = 1 .. n /\ \A i \in 1 .. n : all[i] = i  OBVIOUS
  <1>1. \A i \in 1 .. n, s \in V : op(s, i) \in V
    <2> SUFFICES ASSUME NEW i \in 1 .. n, NEW s \in V PROVE op(s, i) \in V  OBVIOUS
    <2>1. Append(s, i) \in V  OBVIOUS
    <2> QED BY <2>1
  <1>2. G \in [1 .. n -> [V -> V]]
    <2> HIDE DEF V, op
    <2> QED BY <1>1
  <1>3. << >> \in V  OBVIOUS
  <1>4. PICK f \in [SUBSET (1 .. n) -> V] : FoldsBy(f, << >>, G, n)
    <2> HIDE DEF V, G
    <2> QED BY <1>2, <1>3, FoldExists
  <1>5. E(f)
    <2>1. ASSUME NEW s \in SUBSET (1 .. n), s # {} PROVE f[s] = op(f[s \ {Max(s)}], all[Max(s)])
      <3>1. Max(s) \in 1 .. n /\ s \ {Max(s)} \in SUBSET (1 .. n)  BY <1>4, <2>1 DEF FoldsBy
      <3>2. f[s] = G[Max(s)][f[s \ {Max(s)}]]  BY <1>4, <2>1 DEF FoldsBy
      <3>3. f[s \ {Max(s)}] \in V
        <4> HIDE DEF V
        <4> QED BY <3>1
      <3>4. all[Max(s)] = Max(s)  BY <1>0, <3>1
      <3> HIDE DEF V, op, all
      <3> QED BY <3>1, <3>2, <3>3, <3>4
    <2>2. f[{}] = << >>  BY <1>4 DEF FoldsBy
    <2> HIDE DEF op, V, all
    <2> QED BY <1>0, <2>1, <2>2
  <1>6. E(CHOOSE g : E(g))
    <2> HIDE DEF E
    <2> QED BY <1>5, Zenon
  <1> DEFINE g == CHOOSE h : E(h)
  <1>7. Kept(keep) = g[1 .. n]
    <2>1. Kept(keep) = g[DOMAIN all]  BY DEF Kept, FoldLeftDomain, FoldLeft, MapThenFoldSet
    <2> HIDE DEF all, g
    <2> QED BY <1>0, <2>1
  <1>8. g[1 .. 0] = << >> /\ \A k \in 0 .. n - 1 : g[1 .. k + 1] = op(g[1 .. k], k + 1)
    <2>1. g = [s \in SUBSET (1 .. n) |-> IF s = {} THEN << >> ELSE op(g[s \ {Max(s)}], all[Max(s)])]
      <3>1. DOMAIN all = 1 .. n  BY <1>0
      <3>2. E(g)
        <4> HIDE DEF E
        <4> QED BY <1>6
      <3> HIDE DEF all, op, g
      <3> QED BY <3>1, <3>2
    <2> HIDE DEF g, E, G, V, op, all
    <2>2. g[1 .. 0] = << >>  BY <2>1
    <2>3. ASSUME NEW k \in 0 .. n - 1 PROVE g[1 .. k + 1] = op(g[1 .. k], k + 1)
      <3>1. Max(1 .. k + 1) = k + 1  BY LargestUpTo
      <3>2. /\ 1 .. k + 1 \in SUBSET (1 .. n) /\ 1 .. k + 1 # {}
            /\ (1 .. k + 1) \ {k + 1} = 1 .. k /\ k + 1 \in 1 .. n
        OBVIOUS
      <3>3. g[1 .. k + 1] = op(g[(1 .. k + 1) \ {Max(1 .. k + 1)}], all[Max(1 .. k + 1)])
        BY <2>1, <3>2
      <3>4. all[k + 1] = k + 1  BY <1>0, <3>2
      <3> QED BY <3>1, <3>2, <3>3, <3>4
    <2> QED BY <2>2, <2>3
  <1> HIDE DEF g, E, G
  <1> DEFINE A(i) == {j \in 1 .. i : keep[j]}
             C == [i \in 0 .. n |-> Cardinality(A(i))]
             Is(s, k) == /\ s \in V /\ Len(s) = C[k]
                         /\ \A q \in 1 .. Len(s) : s[q] \in 1 .. k /\ keep[s[q]]
                         /\ \A p, q \in 1 .. Len(s) : s[p] = s[q] => p = q
                         /\ \A i \in 1 .. k : keep[i] => C[i] \in 1 .. Len(s) /\ s[C[i]] = i
             T == {k \in Nat : k <= n => Is(g[1 .. k], k)}
  <1>9. ASSUME NEW k \in 0 .. n
        PROVE  /\ C[0] = 0 /\ C[k] \in Nat
               /\ k < n => C[k + 1] = IF keep[k + 1] THEN C[k] + 1 ELSE C[k]
    <2>1. A(0) = {} /\ A(k) \subseteq 1 .. k /\ k + 1 \notin A(k)  OBVIOUS
    <2>2. k < n => A(k + 1) = IF keep[k + 1] THEN A(k) \cup {k + 1} ELSE A(k)
      <3>1. \A j : j \in 1 .. k + 1 <=> j \in 1 .. k \/ j = k + 1  OBVIOUS
      <3> QED BY <3>1
    <2>3. IsFiniteSet(A(k))
      <3> HIDE DEF A
      <3>1. 0 \in Int /\ 1 \in Int /\ k \in Int  OBVIOUS
      <3>2. IsFiniteSet(1 .. k)  BY <3>1, FS_Interval
      <3> QED BY <2>1, <3>2, FS_Subset
    <2> HIDE DEF A
    <2>4. /\ Cardinality(A(0)) = 0 /\ Cardinality(A(k)) \in Nat
          /\ Cardinality(A(k) \cup {k + 1}) = Cardinality(A(k)) + 1
      BY <2>1, <2>3, FS_EmptySet, FS_CardinalityType, FS_AddElement
    <2>5. /\ Cardinality(A(k)) \in Nat /\ Cardinality(A(0)) = 0
          /\ k < n => Cardinality(A(k + 1)) = IF keep[k + 1] THEN Cardinality(A(k)) + 1 ELSE Cardinality(A(k))
      BY <2>2, <2>4
    <2>6. C[k] = Cardinality(A(k)) /\ C[0] = Cardinality(A(0)) /\ (k < n => C[k + 1] = Cardinality(A(k + 1)))
      <3> HIDE DEF A
      <3> QED OBVIOUS
    <2> HIDE DEF C
    <2> QED BY <2>5, <2>6
  <1> HIDE DEF C, A
  <1>10. 0 \in T
    <2>1. Is(<< >>, 0)  BY <1>9
    <2> HIDE DEF Is
    <2> QED BY <1>8, <2>1
  <1>11. ASSUME NEW k \in Nat, k \in T PROVE k + 1 \in T
    <2> HIDE DEF Is
    <2> SUFFICES ASSUME k + 1 <= n PROVE Is(g[1 .. k + 1], k + 1)  OBVIOUS
    <2> USE DEF Is
    <2> DEFINE s == g[1 .. k]
    <2>1. Is(s, k)  BY <1>11
    <2>2. g[1 .. k + 1] = op(s, k + 1)
      <3>1. k \in 0 .. n - 1  OBVIOUS
      <3> HIDE DEF op
      <3> QED BY <1>8, <3>1
    <2> HIDE DEF s
    <2>3. CASE keep[k + 1]
      <3> DEFINE a == Append(s, k + 1)
      <3>1. /\ a \in V /\ Len(a) = Len(s) + 1 /\ a[Len(s) + 1] = k + 1
            /\ \A q \in 1 .. Len(s) : a[q] = s[q]
        BY <2>1, AppendProperties
      <3>2. g[1 .. k + 1] = a  BY <2>2, <2>3
      <3> HIDE DEF a, V
      <3>3. Len(s) = C[k] /\ C[k] \in Nat /\ C[k + 1] = C[k] + 1  BY <1>9, <2>1, <2>3
      <3>4. \A q : q \in 1 .. Len(a) <=> q \in 1 .. Len(s) \/ q = Len(s) + 1  BY <3>1, <3>3
      <3>5. \A i : i \in 1 .. k + 1 <=> i \in 1 .. k \/ i = k + 1  OBVIOUS
      <3>6. \A q \in 1 .. Len(a) : a[q] \in 1 .. k + 1 /\ keep[a[q]]  BY <2>1, <2>3, <3>1, <3>4, <3>5
      <3>7. \A p, q \in 1 .. Len(a) : a[p] = a[q] => p = q
        <4>1. \A q \in 1 .. Len(s) : a[q] # k + 1  BY <2>1, <3>1
        <4>2. \A p, q \in 1 .. Len(s) : a[p] = a[q] => p = q  BY <2>1, <3>1
        <4> QED BY <3>1, <3>4, <4>1, <4>2
      <3>8. \A i \in 1 .. k + 1 : keep[i] => C[i] \in 1 .. Len(a) /\ a[C[i]] = i
        BY <2>1, <3>1, <3>3, <3>4, <3>5
      <3> QED BY <3>1, <3>2, <3>3, <3>6, <3>7, <3>8
    <2>4. CASE ~keep[k + 1]
      <3>1. g[1 .. k + 1] = s /\ C[k + 1] = C[k]  BY <1>9, <2>2, <2>4
      <3>2. \A i : i \in 1 .. k + 1 <=> i \in 1 .. k \/ i = k + 1  OBVIOUS
      <3> HIDE DEF V
      <3> QED BY <2>1, <2>4, <3>1, <3>2
    <2> QED BY <2>3, <2>4
  <1>12. Nat \subseteq T
    <2> HIDE DEF T
    <2> QED BY <1>10, <1>11, Counting
  <1>13. Is(Kept(keep), n)
    <2> HIDE DEF Is
    <2> QED BY <1>7, <1>12
  <1>14. \A i \in 1 .. n : keep[i] =>
             Cardinality(A(i)) \in DOMAIN Kept(keep) /\ Kept(keep)[Cardinality(A(i))] = i
    <2>1. \A i \in 1 .. n : C[i] = Cardinality(A(i))  BY DEF C
    <2> QED BY <1>13, <2>1
  <1>15. /\ Kept(keep) \in Seq(1 .. n)
         /\ \A q \in DOMAIN Kept(keep) : keep[Kept(keep)[q]]
         /\ \A p, q \in DOMAIN Kept(keep) : Kept(keep)[p] = Kept(keep)[q] => p = q
    <2> DEFINE s == Kept(keep)
    <2>1. Is(s, n)  BY <1>13
    <2> HIDE DEF s, T
    <2>2. s \in Seq(1 .. n) /\ DOMAIN s = 1 .. Len(s)  BY <2>1
    <2>3. /\ \A q \in 1 .. Len(s) : s[q] \in 1 .. n /\ keep[s[q]]
          /\ \A p, q \in 1 .. Len(s) : s[p] = s[q] => p = q
      BY <2>1
    <2> HIDE DEF Is, V
    <2>4. /\ s \in Seq(1 .. n)
          /\ \A q \in DOMAIN s : keep[s[q]]
          /\ \A p, q \in DOMAIN s : s[p] = s[q] => p = q
      BY <2>2, <2>3
    <2> QED BY <2>4 DEF s
  <1>16. \A i \in 1 .. n : keep[i] =>
            LET c == Cardinality({j \in 1 .. i : keep[j]})
            IN  c \in DOMAIN Kept(keep) /\ Kept(keep)[c] = i
    BY <1>14, Zenon DEF A
  <1> QED BY <1>15, <1>16, Zenon
-----------------------------------------------------------------------------
(* Parsing.                                                                  *)

DeclarationsOf(N, W, A) == [name : N, version : W, unresolved : BOOLEAN, artifact : A]
DependenciesOf(N, W, A) == [name : N, version : W, unresolved : BOOLEAN, artifacts : SUBSET A]
Apart(deps)  == \A i, j \in DOMAIN deps : Key(deps[i]) = Key(deps[j]) => i = j
KeysOf(deps) == {Key(deps[i]) : i \in DOMAIN deps}

LEMMA DepShape ==
    ASSUME NEW format \in Formats, NEW d
    PROVE  LET x == Dep(format, d)
           IN  /\ x = [name |-> x.name, version |-> x.version, unresolved |-> x.unresolved, artifact |-> x.artifact]
               /\ x.unresolved \in BOOLEAN
  <1> DEFINE Is(x) == \E n, w, a : \E u \in BOOLEAN :
                         x = [name |-> n, version |-> w, unresolved |-> u, artifact |-> a]
  <1>1. Is(Skip) /\ (\A n : Is(Resolved(d, n))) /\ Is(Unresolved(d))
    BY DEF Skip, Resolved, Unresolved
  <1>2. Is(NpmDep(d))
    <2>1. ASSUME NEW n, NEW w, NEW a, NEW u \in BOOLEAN, NEW b
          PROVE  [[name |-> n, version |-> w, unresolved |-> u, artifact |-> a] EXCEPT !.artifact = b]
                    = [name |-> n, version |-> w, unresolved |-> u, artifact |-> b]
      OBVIOUS
    <2>2. ASSUME NEW n PROVE Is([Resolved(d, n) EXCEPT !.artifact = d.artifact])
      <3> DEFINE w == d.version
                 b == d.artifact
      <3>1. \E u \in BOOLEAN :
               Resolved(d, n) = [name |-> n, version |-> w, unresolved |-> u, artifact |-> "none"]
        BY DEF Resolved
      <3> HIDE DEF w, b
      <3>2. PICK u \in BOOLEAN :
               Resolved(d, n) = [name |-> n, version |-> w, unresolved |-> u, artifact |-> "none"]
        BY <3>1
      <3>3. [Resolved(d, n) EXCEPT !.artifact = b] = [name |-> n, version |-> w, unresolved |-> u, artifact |-> b]
        <4> DEFINE r == [name |-> n, version |-> w, unresolved |-> u, artifact |-> "none"]
        <4>1. [r EXCEPT !.artifact = b] = [name |-> n, version |-> w, unresolved |-> u, artifact |-> b]  BY <2>1
        <4>2. Resolved(d, n) = r  BY <3>2
        <4> HIDE DEF r
        <4> QED BY <4>1, <4>2, Zenon
      <3>4. Is([Resolved(d, n) EXCEPT !.artifact = b])  BY <3>3
      <3> QED BY <3>4 DEF b
    <2> HIDE DEF Is
    <2> QED BY <1>1, <2>2 DEF NpmDep
  <1> HIDE DEF Is
  <1>3. /\ Is(YarnDep(d)) /\ Is(PnpmDep(d)) /\ Is(PackageJsonDep(d))
        /\ Is(RequirementDep(d)) /\ Is(PoetryDep(d)) /\ Is(PinnedDep(d))
    BY <1>1 DEF YarnDep, PnpmDep, PackageJsonDep, RequirementDep, PoetryDep, PinnedDep
  <1>4. Is(Dep(format, d))
    BY <1>2, <1>3 DEF Formats, Dep
  <1> QED BY <1>4 DEF Is

\* A declaration adds its key unless the key is there, and disturbs no other dependency.
LEMMA AddDepAdds ==
    ASSUME NEW N, NEW W, NEW A, NEW deps \in Seq(DependenciesOf(N, W, A)),
           NEW dep \in DeclarationsOf(N, W, A)
    PROVE  /\ AddDep(deps, dep) \in Seq(DependenciesOf(N, W, A))
           /\ Apart(deps) => Apart(AddDep(deps, dep))
           /\ KeysOf(AddDep(deps, dep)) = KeysOf(deps) \cup (IF dep = Skip THEN {} ELSE {Key(dep)})
  <1> DEFINE Q == DependenciesOf(N, W, A)
  <1>1. CASE dep = Skip  BY <1>1 DEF AddDep
  <1>2. CASE dep # Skip /\ At(deps, Key(dep)) # {}
    <2> DEFINE more == [i \in DOMAIN deps |->
                 IF Key(deps[i]) = Key(dep) THEN [deps[i] EXCEPT !.artifacts = @ \cup ({dep.artifact} \ {"none"})]
                 ELSE deps[i]]
    <2>1. AddDep(deps, dep) = more  BY <1>2 DEF AddDep
    <2>2. DOMAIN more = DOMAIN deps  OBVIOUS
    <2>3. ASSUME NEW i \in DOMAIN deps PROVE more[i] \in Q /\ Key(more[i]) = Key(deps[i])
      <3>1. deps[i] \in Q  OBVIOUS
      <3>2. dep.artifact \in A  BY DEF DeclarationsOf
      <3>3. more[i] \in {deps[i], [deps[i] EXCEPT !.artifacts = @ \cup ({dep.artifact} \ {"none"})]}  OBVIOUS
      <3> HIDE DEF more
      <3> QED BY <3>1, <3>2, <3>3 DEF DependenciesOf, Key
    <2> HIDE DEF more
    <2>4. more \in Seq(Q)
      <3>1. DOMAIN deps = 1 .. Len(deps) /\ Len(deps) \in Nat  OBVIOUS
      <3>2. more = [i \in 1 .. Len(deps) |-> more[i]]  BY <2>2, <3>1 DEF more
      <3> QED BY <2>3, <3>1, <3>2
    <2>5. Apart(deps) => Apart(more)  BY <2>2, <2>3 DEF Apart
    <2>6. KeysOf(more) = KeysOf(deps)  BY <2>2, <2>3 DEF KeysOf
    <2>7. Key(dep) \in KeysOf(deps)  BY <1>2 DEF At, KeysOf
    <2> QED BY <1>2, <2>1, <2>4, <2>5, <2>6, <2>7
  <1>3. CASE dep # Skip /\ At(deps, Key(dep)) = {}
    <2> DEFINE new == [name |-> dep.name, version |-> dep.version, unresolved |-> dep.unresolved,
                       artifacts |-> {dep.artifact} \ {"none"}]
               a == Append(deps, new)
    <2>1. AddDep(deps, dep) = a  BY <1>3 DEF AddDep
    <2>2. new \in Q /\ Key(new) = Key(dep)  BY DEF DependenciesOf, DeclarationsOf, Key
    <2> HIDE DEF new
    <2>3. /\ a \in Seq(Q) /\ Len(a) = Len(deps) + 1 /\ a[Len(deps) + 1] = new
          /\ \A i \in 1 .. Len(deps) : a[i] = deps[i]
      BY <2>2, AppendProperties
    <2>4. DOMAIN deps = 1 .. Len(deps) /\ DOMAIN a = 1 .. Len(deps) + 1 /\ Len(deps) \in Nat  BY <2>3
    <2> HIDE DEF a
    <2>5. \A i : i \in DOMAIN a <=> i \in DOMAIN deps \/ i = Len(deps) + 1  BY <2>4
    <2>6. \A i \in DOMAIN deps : Key(a[i]) = Key(deps[i]) /\ Key(deps[i]) # Key(dep)
      BY <1>3, <2>3, <2>4 DEF At
    <2>7. Key(a[Len(deps) + 1]) = Key(dep)  BY <2>2, <2>3
    <2>8. Apart(deps) => Apart(a)  BY <2>5, <2>6, <2>7 DEF Apart
    <2>9. KeysOf(a) = KeysOf(deps) \cup {Key(dep)}  BY <2>5, <2>6, <2>7 DEF KeysOf
    <2> QED BY <1>3, <2>1, <2>3, <2>8, <2>9
  <1> QED BY <1>1, <1>2, <1>3

Declares(lf, k) == Dep(lf.format, lf.entries[k])
Parsable(lf) == /\ lf.format \in Formats
                /\ lf.entries \in Seq({lf.entries[k] : k \in DOMAIN lf.entries})

\* A parsed lockfile has the keys it declares, each once.
LEMMA ParseIs ==
    ASSUME NEW lf, Parsable(lf)
    PROVE  /\ \E N, W, A : ParseLockfile(lf) \in Seq(DependenciesOf(N, W, A))
           /\ Apart(ParseLockfile(lf))
           /\ KeysOf(ParseLockfile(lf)) =
                {Key(Declares(lf, k)) : k \in {j \in DOMAIN lf.entries : Declares(lf, j) # Skip}}
  <1> DEFINE ents == lf.entries
             n == Len(ents)
             D(k) == Declares(lf, k)
             N == {D(k).name : k \in 1 .. n}
             W == {D(k).version : k \in 1 .. n}
             A == {D(k).artifact : k \in 1 .. n}
             V == Seq(DependenciesOf(N, W, A))
             op(deps, k) == AddDep(deps, D(k))
             G == [k \in 1 .. n |-> [deps \in V |-> op(deps, k)]]
             E(g) == g = [s \in SUBSET DOMAIN ents |->
                            IF s = {} THEN << >> ELSE op(g[s \ {Max(s)}], Max(s))]
  <1>0. n \in Nat /\ DOMAIN ents = 1 .. n  BY DEF Parsable
  <1>a. n \in Nat  BY <1>0
  <1>1. \A k \in 1 .. n : D(k) \in DeclarationsOf(N, W, A)
    <2> SUFFICES ASSUME NEW k \in 1 .. n PROVE D(k) \in DeclarationsOf(N, W, A)  OBVIOUS
    <2>1. D(k).name \in N /\ D(k).version \in W /\ D(k).artifact \in A  OBVIOUS
    <2>2. /\ D(k) = [name |-> D(k).name, version |-> D(k).version, unresolved |-> D(k).unresolved,
                     artifact |-> D(k).artifact]
          /\ D(k).unresolved \in BOOLEAN
      BY DepShape DEF Parsable, Declares
    <2> DEFINE x == D(k)
    <2> HIDE DEF N, W, A, D, x
    <2> QED BY <2>1, <2>2 DEF DeclarationsOf, x
  <1> HIDE DEF N, W, A, n, ents
  <1>2. \A k \in 1 .. n, deps \in V : op(deps, k) \in V
    <2> HIDE DEF D
    <2> QED BY <1>1, AddDepAdds
  <1>3. G \in [1 .. n -> [V -> V]]
    <2> HIDE DEF V, op
    <2> QED BY <1>2
  <1>4. << >> \in V  OBVIOUS
  <1>5. PICK f \in [SUBSET (1 .. n) -> V] : FoldsBy(f, << >>, G, n)
    <2> HIDE DEF V, G
    <2> QED BY <1>0, <1>3, <1>4, FoldExists
  <1>6. E(f)
    <2>1. ASSUME NEW s \in SUBSET (1 .. n), s # {} PROVE f[s] = op(f[s \ {Max(s)}], Max(s))
      <3>1. Max(s) \in 1 .. n /\ s \ {Max(s)} \in SUBSET (1 .. n)  BY <1>5, <2>1 DEF FoldsBy
      <3>2. f[s] = G[Max(s)][f[s \ {Max(s)}]]  BY <1>5, <2>1 DEF FoldsBy
      <3>3. f[s \ {Max(s)}] \in V
        <4> HIDE DEF V
        <4> QED BY <3>1
      <3> HIDE DEF V, op
      <3> QED BY <3>1, <3>2, <3>3
    <2>2. f[{}] = << >>  BY <1>5 DEF FoldsBy
    <2> HIDE DEF op, V
    <2> QED BY <1>0, <2>1, <2>2
  <1>7. E(CHOOSE g : E(g))
    <2> HIDE DEF E
    <2> QED BY <1>6, Zenon
  <1> DEFINE g == CHOOSE h : E(h)
  <1>8. ParseLockfile(lf) = g[1 .. n]
    <2>1. ParseLockfile(lf) = g[DOMAIN ents]
      BY DEF ParseLockfile, FoldLeft, MapThenFoldSet, ents, Declares
    <2> HIDE DEF g
    <2> QED BY <1>0, <2>1
  <1>9. g[1 .. 0] = << >> /\ \A k \in 0 .. n - 1 : g[1 .. k + 1] = op(g[1 .. k], k + 1)
    <2>1. g = [s \in SUBSET (1 .. n) |-> IF s = {} THEN << >> ELSE op(g[s \ {Max(s)}], Max(s))]
      BY <1>0, <1>7
    <2> HIDE DEF g, E, G, V, op
    <2>2. g[1 .. 0] = << >>  BY <2>1
    <2>3. ASSUME NEW k \in 0 .. n - 1 PROVE g[1 .. k + 1] = op(g[1 .. k], k + 1)
      <3>1. Max(1 .. k + 1) = k + 1  BY LargestUpTo
      <3>2. /\ 1 .. k + 1 \in SUBSET (1 .. n) /\ 1 .. k + 1 # {}
            /\ (1 .. k + 1) \ {k + 1} = 1 .. k /\ k + 1 \in 1 .. n
        BY <1>a
      <3> QED BY <2>1, <3>1, <3>2
    <2> QED BY <2>2, <2>3
  <1> HIDE DEF g, E, G
  <1> DEFINE named(k) == {Key(D(j)) : j \in {i \in 1 .. k : D(i) # Skip}}
             Is(deps, k) == deps \in V /\ Apart(deps) /\ KeysOf(deps) = named(k)
             T == {k \in Nat : k <= n => Is(g[1 .. k], k)}
  <1>10. 0 \in T
    <2>1. named(0) = {} /\ KeysOf(<< >>) = {} /\ Apart(<< >>)  BY DEF KeysOf, Apart
    <2>2. Is(<< >>, 0)  BY <1>4, <2>1
    <2> HIDE DEF Is
    <2> QED BY <1>9, <2>2
  <1>11. ASSUME NEW k \in Nat, k \in T PROVE k + 1 \in T
    <2> HIDE DEF Is
    <2> SUFFICES ASSUME k + 1 <= n PROVE Is(g[1 .. k + 1], k + 1)  OBVIOUS
    <2> USE DEF Is
    <2> DEFINE deps == g[1 .. k]
    <2>1. Is(deps, k)
      <3> HIDE DEF Is
      <3> QED BY <1>a, <1>11
    <2>2. g[1 .. k + 1] = AddDep(deps, D(k + 1))  BY <1>0, <1>9
    <2>3. D(k + 1) \in DeclarationsOf(N, W, A)  BY <1>0, <1>1
    <2> HIDE DEF deps
    <2>4. named(k + 1) = named(k) \cup (IF D(k + 1) = Skip THEN {} ELSE {Key(D(k + 1))})
      <3> HIDE DEF D
      <3>1. \A i : i \in 1 .. k + 1 <=> i \in 1 .. k \/ i = k + 1  OBVIOUS
      <3> QED BY <3>1
    <2> HIDE DEF D, named
    <2>5. /\ AddDep(deps, D(k + 1)) \in V /\ Apart(AddDep(deps, D(k + 1)))
          /\ KeysOf(AddDep(deps, D(k + 1))) = KeysOf(deps) \cup (IF D(k + 1) = Skip THEN {} ELSE {Key(D(k + 1))})
      BY <2>1, <2>3, AddDepAdds
    <2> QED BY <2>1, <2>2, <2>4, <2>5
  <1>12. Nat \subseteq T
    <2> HIDE DEF T
    <2> QED BY <1>10, <1>11, Counting
  <1>13. Is(ParseLockfile(lf), n)
    <2> HIDE DEF Is
    <2> QED BY <1>0, <1>8, <1>12
  <1> QED BY <1>0, <1>13 DEF ents
-----------------------------------------------------------------------------
(* The audit.                                                                *)

LockVerdicts == {"safe", "review", "block"}
AuditRecords  == [dep : {Deps[i] : i \in DOMAIN Deps}, decision : LockVerdicts, deep : {"none", "error"} \cup LockVerdicts]

\* A decision that is explained by what is known of the dependency, and by no less.
Explained(r) ==
    /\ ~r.dep.unresolved /\ Key(r.dep) \in evidence.vulnerable => r.decision = "block"
    /\ r.dep.unresolved => r.decision # "safe"
    /\ r.decision = "block" =>
          \/ Key(r.dep) \in evidence.vulnerable
          \/ Key(r.dep) \in DOMAIN decided /\ decided[Key(r.dep)] = "block"
          \/ r.deep = "block"
    /\ r.deep # "none" => r.decision = Worse(r.decision, r.deep)
    /\ r.deep = "error" => r.decision # "safe"

AuditedInv ==
    /\ audited \in [DOMAIN Deps -> AuditRecords]
    /\ \A i \in DOMAIN Deps : audited[i].dep = Deps[i] /\ Explained(audited[i])

\* Targets are taken once each, in order; one that was taken is being scanned or has its result.
ScansInv ==
    /\ targets \in Seq(DOMAIN Deps) /\ nextTarget \in Nat \ {0}
    /\ \A j, k \in DOMAIN targets : targets[j] = targets[k] => j = k
    /\ depth = "deepAll" => \A i \in DOMAIN Deps : \E k \in DOMAIN targets : targets[k] = i
    /\ \A i \in scanning : /\ audited[i].deep = "none"
                           /\ \E k \in DOMAIN targets : k < nextTarget /\ targets[k] = i
    /\ \A k \in DOMAIN targets :
          IF k < nextTarget THEN targets[k] \in scanning \/ audited[targets[k]].deep # "none"
                            ELSE audited[targets[k]].deep = "none"

LockInv ==
    /\ lockfile \in Lockfiles /\ evidence \in Evidence
    /\ lockPhase \in {"asking", "rejected", "deep", "returned"}
    /\ lockPhase # "deep" => scanning = {}
    /\ lockPhase = "asking" => nextTarget = 1
    /\ lockPhase \in {"deep", "returned"} => AuditedInv /\ ScansInv
    /\ lockPhase = "returned" => nextTarget > Len(targets)

LEMMA DepsAre ==
    ASSUME LockAssumption, lockfile \in Lockfiles
    PROVE  /\ DOMAIN Deps = 1 .. Len(Deps) /\ Len(Deps) \in Nat
           /\ \A i \in DOMAIN Deps : Deps[i].unresolved \in BOOLEAN
           /\ Apart(Deps)
           /\ KeysOf(Deps) = {Key(Declares(lockfile, k)) :
                                k \in {j \in DOMAIN lockfile.entries : Declares(lockfile, j) # Skip}}
  <1>1. Parsable(lockfile)  BY DEF LockAssumption, Parsable
  <1>2. PICK N, W, A : Deps \in Seq(DependenciesOf(N, W, A))  BY <1>1, ParseIs DEF Deps
  <1>3. \A i \in DOMAIN Deps : Deps[i] \in DependenciesOf(N, W, A)  BY <1>2
  <1>4. DOMAIN Deps = 1 .. Len(Deps) /\ Len(Deps) \in Nat  BY <1>2
  <1>5. \A i \in DOMAIN Deps : Deps[i].unresolved \in BOOLEAN  BY <1>3 DEF DependenciesOf
  <1> QED BY <1>1, <1>4, <1>5, ParseIs DEF Deps

LEMMA ScansAreVerdicts ==
    ASSUME LockAssumption, lockfile \in Lockfiles, evidence \in Evidence, NEW i \in DOMAIN Deps
    PROVE  evidence.scan[Key(Deps[i])] \in LockVerdicts
  <1>1. Key(Deps[i]) \in KeysOf(Deps)  BY DEF KeysOf
  <1>2. PICK k \in DOMAIN lockfile.entries :
           Declares(lockfile, k) # Skip /\ Key(Deps[i]) = Key(Declares(lockfile, k))
    BY <1>1, DepsAre
  <1>3. evidence.scan[Key(Declares(lockfile, k))] \in LockVerdicts
    BY <1>2 DEF LockAssumption, Declares, LockVerdicts
  <1> QED BY <1>2, <1>3

\* The cursor stands at the answer about the dependency.
LEMMA BlockedIs ==
    ASSUME LockAssumption, lockfile \in Lockfiles, NEW i \in DOMAIN Deps, ~Deps[i].unresolved
    PROVE  Blocked(i) <=> Key(Deps[i]) \in evidence.vulnerable
  <1> DEFINE n == Len(Deps)
             keep == [j \in DOMAIN Deps |-> ~Deps[j].unresolved]
  <1>1. n \in Nat /\ DOMAIN Deps = 1 .. n /\ keep \in [1 .. n -> BOOLEAN]  BY DepsAre
  <1>2. keep[i] /\ i \in 1 .. n  BY <1>1
  <1>3. {j \in 1 .. i : keep[j]} = {j \in 1 .. i : ~Deps[j].unresolved}
    <2>1. \A j \in DOMAIN Deps : keep[j] <=> ~Deps[j].unresolved  OBVIOUS
    <2>2. 1 .. i \subseteq DOMAIN Deps
      <3> HIDE DEF keep, n
      <3> QED BY <1>1, <1>2
    <2> HIDE DEF keep, n
    <2> QED BY <2>1, <2>2
  <1>4. Queries = Kept(keep)  BY DEF Queries
  <1> HIDE DEF keep, n
  <1>5. Cardinality({j \in 1 .. i : keep[j]}) \in DOMAIN Kept(keep)
        /\ Kept(keep)[Cardinality({j \in 1 .. i : keep[j]})] = i
    BY <1>1, <1>2, KeptIs
  <1>6. Cursor(i) \in DOMAIN Queries /\ Queries[Cursor(i)] = i
    BY <1>3, <1>4, <1>5, Zenon DEF Cursor
  <1> QED BY <1>6 DEF Blocked, OsvResults

LEMMA WorseIs ==
    /\ \A d, v \in LockVerdicts :
          /\ Worse(d, v) \in LockVerdicts /\ Worse(Worse(d, v), v) = Worse(d, v)
          /\ Worse(d, v) = "block" <=> d = "block" \/ v = "block"
          /\ d # "safe" => Worse(d, v) # "safe"
          /\ Worse(d, "review") # "safe" /\ Worse(d, "error") = d
  BY DEF LockVerdicts, Worse

\* The result of a first scan is explained by it.
LEMMA ResultExplained ==
    ASSUME AuditedInv, NEW i \in DOMAIN Deps, audited[i].deep = "none",
           UNCHANGED <<lockfile, evidence, decided>>, NEW deep, NEW decision,
           \/ deep \in LockVerdicts /\ decision = Worse(audited[i].decision, deep)
           \/ deep = "error" /\ decision = Worse(audited[i].decision, "review"),
           audited' = [audited EXCEPT ![i].deep = deep, ![i].decision = decision]
    PROVE  /\ AuditedInv' /\ audited'[i].deep # "none"
           /\ \A j \in DOMAIN Deps : j # i => audited'[j] = audited[j]
  <1> DEFINE r == audited[i]
             s == [r EXCEPT !.deep = deep, !.decision = decision]
  <1>1. r \in AuditRecords /\ r.dep = Deps[i] /\ Explained(r)  BY DEF AuditedInv
  <1>2. r.decision \in LockVerdicts  BY <1>1 DEF AuditRecords
  <1>3. decision \in LockVerdicts /\ deep \in {"error"} \cup LockVerdicts
    BY <1>2, WorseIs DEF LockVerdicts
  <1>4. /\ s \in AuditRecords /\ s.dep = r.dep /\ s.deep = deep /\ s.decision = decision
    BY <1>1, <1>3 DEF AuditRecords
  <1>5. /\ r.decision = "block" => decision = "block"
        /\ r.decision # "safe" => decision # "safe"
        /\ decision = "block" => r.decision = "block" \/ deep = "block"
        /\ decision = Worse(decision, deep) /\ deep # "none" /\ (deep = "error" => decision # "safe")
    BY <1>2, WorseIs DEF LockVerdicts
  <1>6. r.deep = "none"  OBVIOUS
  <1>7. audited \in [DOMAIN Deps -> AuditRecords] /\ DOMAIN audited = DOMAIN Deps  BY DEF AuditedInv
  <1>8. audited' = [audited EXCEPT ![i] = s]  BY <1>7
  <1> HIDE DEF r, s
  <1>9. Explained(s)
    BY <1>1, <1>4, <1>5, <1>6 DEF Explained
  <1>10. audited'[i] = s /\ \A j \in DOMAIN Deps : j # i => audited'[j] = audited[j]  BY <1>7, <1>8
  <1>11. audited' \in [DOMAIN Deps -> AuditRecords]  BY <1>4, <1>7, <1>8
  <1>12. Deps' = Deps /\ AuditRecords' = AuditRecords  BY DEF Deps, AuditRecords
  <1>13. \A j \in DOMAIN Deps : audited'[j].dep = Deps[j]  BY <1>1, <1>4, <1>10 DEF AuditedInv
  <1>14. ASSUME NEW j \in DOMAIN Deps PROVE Explained(audited[j])'
    <2>1. CASE j = i
      <3>1. audited'[j] = s  BY <1>10, <2>1
      <3> QED BY <1>9, <3>1 DEF Explained
    <2>2. CASE j # i
      <3>1. audited'[j] = audited[j] /\ Explained(audited[j])  BY <1>10, <2>2 DEF AuditedInv
      <3> QED BY <3>1 DEF Explained
    <2> QED BY <2>1, <2>2
  <1>15. AuditedInv'  BY <1>11, <1>12, <1>13, <1>14 DEF AuditedInv
  <1> QED BY <1>4, <1>5, <1>10, <1>15

\* Assembling the results, and choosing which of them to scan.
LEMMA AuditLockfileKeeps == ASSUME LockAssumption, LockInv, AuditLockfile PROVE LockInv'
  <1> USE DEF LockInv
  <1> DEFINE keep == [i \in DOMAIN Deps |-> depth = "deepAll" \/ (depth = "deep" /\ Decision(i) = "block")]
             n == Len(Deps)
  <1>1. UNCHANGED <<lockfile, evidence, decided, depth, nextTarget, scanning>> /\ Deps' = Deps
    BY DEF AuditLockfile, Deps
  <1>2. nextTarget = 1 /\ scanning = {}  BY DEF AuditLockfile
  <1>3. audited' = [i \in DOMAIN Deps |-> [dep |-> Deps[i], decision |-> Decision(i), deep |-> "none"]]
    BY DEF AuditLockfile
  <1>4. \A i \in DOMAIN Deps :
           /\ Decision(i) \in LockVerdicts
           /\ Deps[i].unresolved => Decision(i) = "review"
           /\ ~Deps[i].unresolved /\ Key(Deps[i]) \in evidence.vulnerable => Decision(i) = "block"
           /\ Decision(i) = "block" => \/ Key(Deps[i]) \in evidence.vulnerable
                                       \/ Key(Deps[i]) \in DOMAIN decided /\ decided[Key(Deps[i])] = "block"
    <2> SUFFICES ASSUME NEW i \in DOMAIN Deps
                 PROVE  /\ Decision(i) \in LockVerdicts
                        /\ Deps[i].unresolved => Decision(i) = "review"
                        /\ ~Deps[i].unresolved /\ Key(Deps[i]) \in evidence.vulnerable => Decision(i) = "block"
                        /\ Decision(i) = "block" =>
                              \/ Key(Deps[i]) \in evidence.vulnerable
                              \/ Key(Deps[i]) \in DOMAIN decided /\ decided[Key(Deps[i])] = "block"
      OBVIOUS
    <2> HIDE DEF LockInv, keep, n
    <2>1. ~Deps[i].unresolved => (Blocked(i) <=> Key(Deps[i]) \in evidence.vulnerable)
      BY BlockedIs DEF LockInv
    <2>2. CASE Deps[i].unresolved
      <3>1. Decision(i) = "review"  BY <2>2 DEF Decision
      <3> QED BY <2>2, <3>1 DEF LockVerdicts
    <2>3. CASE ~Deps[i].unresolved
      <3>1. Decision(i) = IF Blocked(i) THEN "block"
                          ELSE IF Key(Deps[i]) \in DOMAIN decided /\ decided[Key(Deps[i])] = "block" THEN "block"
                          ELSE "safe"
        BY <2>3 DEF Decision
      <3> QED BY <2>1, <2>3, <3>1 DEF LockVerdicts
    <2> QED BY <2>2, <2>3
  <1>5. AuditedInv'
    <2>1. \A i \in DOMAIN Deps :
             audited'[i].dep = Deps[i] /\ audited'[i].decision = Decision(i) /\ audited'[i].deep = "none"
      BY <1>3
    <2>2. AuditRecords' = AuditRecords  BY <1>1 DEF AuditRecords
    <2>3. audited' \in [DOMAIN Deps -> AuditRecords]  BY <1>3, <1>4 DEF AuditRecords
    <2>4. \A i \in DOMAIN Deps : audited'[i].dep = Deps[i] /\ Explained(audited[i])'
      <3> SUFFICES ASSUME NEW i \in DOMAIN Deps
                   PROVE  audited'[i].dep = Deps[i] /\ Explained(audited[i])'
        OBVIOUS
      <3>1. audited'[i].dep = Deps[i] /\ audited'[i].decision = Decision(i) /\ audited'[i].deep = "none"
        BY <2>1
      <3> HIDE DEF LockInv, keep, n
      <3> QED BY <1>1, <1>4, <3>1 DEF Explained
    <2> QED BY <1>1, <2>2, <2>3, <2>4 DEF AuditedInv
  <1>6. n \in Nat /\ DOMAIN Deps = 1 .. n /\ keep \in [1 .. n -> BOOLEAN]
    <2>1. n \in Nat /\ DOMAIN Deps = 1 .. n  BY DepsAre
    <2> HIDE DEF n
    <2> QED BY <2>1
  <1>7. targets' = Kept(keep)  BY DEF AuditLockfile
  <1>8. \A i \in DOMAIN Deps : audited'[i].deep = "none"  BY <1>3
  <1>9. depth = "deepAll" => \A i \in DOMAIN Deps : keep[i]  OBVIOUS
  <1> HIDE DEF keep, n
  <1>10. /\ targets' \in Seq(DOMAIN Deps)
         /\ \A j, k \in DOMAIN targets' : targets'[j] = targets'[k] => j = k
         /\ \A i \in DOMAIN Deps : keep[i] => \E k \in DOMAIN targets' : targets'[k] = i
    <2>1. /\ Kept(keep) \in Seq(1 .. n)
          /\ \A p, q \in DOMAIN Kept(keep) : Kept(keep)[p] = Kept(keep)[q] => p = q
          /\ \A i \in 1 .. n : keep[i] => \E k \in DOMAIN Kept(keep) : Kept(keep)[k] = i
      BY <1>6, KeptIs
    <2> QED BY <1>6, <1>7, <2>1
  <1>11. ScansInv'
    <2>1. \A k \in DOMAIN targets' : targets'[k] \in DOMAIN Deps /\ k >= 1  BY <1>10
    <2> QED BY <1>1, <1>2, <1>8, <1>9, <1>10, <2>1 DEF ScansInv
  <1>12. /\ lockPhase' \in {"deep", "returned"}
         /\ lockPhase' = "returned" => nextTarget' > Len(targets')
    <2>1. lockPhase' = IF targets' = << >> THEN "returned" ELSE "deep"  BY DEF AuditLockfile
    <2>2. targets' = << >> => Len(targets') = 0  OBVIOUS
    <2> QED BY <1>1, <1>2, <2>1, <2>2
  <1> QED BY <1>1, <1>2, <1>5, <1>11, <1>12

\* A worker takes the next target.
LEMMA RunDeepKeeps == ASSUME LockAssumption, LockInv, RunDeep PROVE LockInv'
  <1> USE DEF LockInv
  <1> DEFINE i == targets[nextTarget]
  <1>1. AuditedInv /\ ScansInv /\ lockPhase = "deep"  BY DEF RunDeep
  <1>2. /\ UNCHANGED <<lockfile, evidence, decided, depth, lockPhase, targets>> /\ nextTarget' = nextTarget + 1
        /\ nextTarget \in DOMAIN targets /\ nextTarget \in Nat \ {0} /\ i \in DOMAIN Deps /\ Deps' = Deps
    BY <1>1 DEF RunDeep, ScansInv, Deps
  <1>3. /\ audited[i].deep = "none"
        /\ \A k \in DOMAIN targets : k # nextTarget => targets[k] # i
        /\ i \notin scanning
    BY <1>1, <1>2 DEF ScansInv
  <1>4. DOMAIN targets \subseteq Nat  BY <1>1 DEF ScansInv
  <1>5. CASE scanning' = scanning \cup {i} /\ UNCHANGED audited
    <2>1. AuditedInv'  BY <1>1, <1>2, <1>5 DEF AuditedInv, AuditRecords, Explained
    <2>2. ScansInv'
      <3> HIDE DEF LockInv
      <3>1. \A k \in DOMAIN targets : k < nextTarget + 1 <=> k < nextTarget \/ k = nextTarget  BY <1>2, <1>4
      <3> QED BY <1>1, <1>2, <1>3, <1>5, <3>1 DEF ScansInv
    <2> QED BY <1>1, <1>2, <2>1, <2>2
  <1>6. CASE audited' = Failed(i) /\ UNCHANGED scanning
    <2>1. audited' = [audited EXCEPT ![i].deep = "error", ![i].decision = Worse(audited[i].decision, "review")]
      BY <1>1, <1>2, <1>6 DEF Failed, AuditedInv
    <2>2. /\ AuditedInv' /\ audited'[i].deep # "none"
          /\ \A j \in DOMAIN Deps : j # i => audited'[j] = audited[j]
      BY <1>1, <1>2, <1>3, <2>1, ResultExplained
    <2>3. ScansInv'
      <3> HIDE DEF LockInv
      <3>1. \A k \in DOMAIN targets : k < nextTarget + 1 <=> k < nextTarget \/ k = nextTarget  BY <1>2, <1>4
      <3>2. \A k \in DOMAIN targets : targets[k] \in DOMAIN Deps  BY <1>1 DEF ScansInv
      <3> QED BY <1>1, <1>2, <1>3, <1>6, <2>2, <3>1, <3>2 DEF ScansInv
    <2> QED BY <1>1, <1>2, <1>6, <2>2, <2>3
  <1> QED BY <1>5, <1>6 DEF RunDeep

\* A scan ends, with a verdict or not.
LEMMA GuardEndsKeeps == ASSUME LockAssumption, LockInv, NEW i \in scanning, GuardEnds(i) PROVE LockInv'
  <1> USE DEF LockInv
  <1>1. AuditedInv /\ ScansInv /\ lockPhase = "deep"  OBVIOUS
  <1>2. /\ UNCHANGED <<lockfile, evidence, decided, depth, lockPhase, targets, nextTarget>>
        /\ scanning' = scanning \ {i} /\ Deps' = Deps
    BY DEF GuardEnds, Deps
  <1>3. audited[i].deep = "none" /\ i \in DOMAIN Deps  BY <1>1 DEF ScansInv
  <1>4. PICK deep, decision :
           /\ \/ deep \in LockVerdicts /\ decision = Worse(audited[i].decision, deep)
              \/ deep = "error" /\ decision = Worse(audited[i].decision, "review")
           /\ audited' = [audited EXCEPT ![i].deep = deep, ![i].decision = decision]
    <2>1. CASE audited' = Failed(i)
      <3>1. audited' = [audited EXCEPT ![i].deep = "error", ![i].decision = Worse(audited[i].decision, "review")]
        BY <1>1, <1>3, <2>1 DEF Failed, AuditedInv
      <3> QED BY <3>1
    <2>2. CASE audited' # Failed(i)
      <3> DEFINE found == evidence.scan[Key(audited[i].dep)]
      <3>1. audited' = [audited EXCEPT ![i].deep = found, ![i].decision = Worse(audited[i].decision, found)]
        BY <1>1, <1>3, <2>2 DEF GuardEnds, AuditedInv
      <3>2. found \in LockVerdicts
        BY <1>1, <1>3, ScansAreVerdicts DEF AuditedInv
      <3> HIDE DEF found
      <3> QED BY <3>1, <3>2
    <2> QED BY <2>1, <2>2
  <1>5. /\ AuditedInv' /\ audited'[i].deep # "none"
        /\ \A j \in DOMAIN Deps : j # i => audited'[j] = audited[j]
    BY <1>1, <1>2, <1>3, <1>4, ResultExplained
  <1>6. ScansInv'
    <2> HIDE DEF LockInv
    <2>1. \A k \in DOMAIN targets : targets[k] \in DOMAIN Deps  BY <1>1 DEF ScansInv
    <2>2. PICK k \in DOMAIN targets : k < nextTarget /\ targets[k] = i  BY <1>1 DEF ScansInv
    <2>3. \A j \in DOMAIN targets : targets[j] = i => j = k  BY <1>1, <2>2 DEF ScansInv
    <2>4. scanning \subseteq DOMAIN Deps  BY <1>1, <2>1 DEF ScansInv
    <2> QED BY <1>1, <1>2, <1>5, <2>1, <2>2, <2>3, <2>4 DEF ScansInv
  <1> QED BY <1>1, <1>2, <1>5, <1>6

LEMMA LockStarts == LockAssumption /\ LockInit => LockInv
  BY DEF LockInit, LockInv

LEMMA LockSteps == ASSUME LockAssumption, LockInv, [LockNext]_lockVars PROVE LockInv'
  <1>1. ASSUME NEW b \in DOMAIN batches, PostBatch(b) PROVE LockInv'
    BY <1>1 DEF PostBatch, LockInv
  <1>2. ASSUME PoolEnds PROVE LockInv'
    <2>1. UNCHANGED <<AuditedInv, ScansInv>>
      BY <1>2 DEF PoolEnds, AuditedInv, ScansInv, AuditRecords, Deps, Explained
    <2>2. nextTarget > Len(targets) /\ scanning = {} /\ lockPhase' = "returned"  BY <1>2 DEF PoolEnds
    <2> QED BY <1>2, <2>1, <2>2 DEF PoolEnds, LockInv
  <1>3. ASSUME UNCHANGED lockVars PROVE LockInv'
    <2>1. UNCHANGED <<AuditedInv, ScansInv>>
      BY <1>3 DEF lockVars, AuditedInv, ScansInv, AuditRecords, Deps, Explained
    <2> QED BY <1>3, <2>1 DEF lockVars, LockInv
  <1> QED BY <1>1, <1>2, <1>3, AuditLockfileKeeps, RunDeepKeeps, GuardEndsKeeps DEF LockNext

LEMMA ReturnedFollows == ASSUME LockAssumption, LockInv PROVE AuditFollowsEvidence
  <1> SUFFICES ASSUME lockPhase = "returned" PROVE AuditFollowsEvidence  BY DEF AuditFollowsEvidence
  <1>1. AuditedInv /\ ScansInv /\ scanning = {} /\ nextTarget > Len(targets) /\ lockfile \in Lockfiles
    BY DEF LockInv
  <1>2. DOMAIN audited = DOMAIN Deps /\ \A i \in DOMAIN Deps : audited[i].dep = Deps[i] /\ Explained(audited[i])
    BY <1>1 DEF AuditedInv
  <1>3. depth = "deepAll" => \A i \in DOMAIN Deps : audited[i].deep # "none"
    <2> SUFFICES ASSUME depth = "deepAll", NEW i \in DOMAIN Deps PROVE audited[i].deep # "none"  OBVIOUS
    <2>1. PICK k \in DOMAIN targets : targets[k] = i  BY <1>1 DEF ScansInv
    <2>2. k < nextTarget  BY <1>1 DEF ScansInv
    <2> QED BY <1>1, <2>1, <2>2 DEF ScansInv
  <1>4. ASSUME NEW d \in Declared, Dep(lockfile.format, d) # Skip
        PROVE  \E i \in DOMAIN Deps : Outcome(Key(Dep(lockfile.format, d))) = {audited[i]}
    <2> DEFINE key == Key(Dep(lockfile.format, d))
    <2>1. PICK k \in DOMAIN lockfile.entries : d = lockfile.entries[k]  BY DEF Declared
    <2>2. key \in KeysOf(Deps)  BY <1>1, <1>4, <2>1, DepsAre DEF Declares
    <2>3. PICK i \in DOMAIN Deps : Key(Deps[i]) = key  BY <2>2 DEF KeysOf
    <2> HIDE DEF key
    <2>4. {j \in DOMAIN audited : Key(audited[j].dep) = key} = {i}
      BY <1>1, <1>2, <2>3, DepsAre DEF Apart
    <2>5. Outcome(key) = {audited[i]}  BY <2>4 DEF Outcome
    <2> QED BY <2>5 DEF key
  <1>5. ASSUME NEW d \in Declared, Dep(lockfile.format, d) # Skip
        PROVE  LET dep == Dep(lockfile.format, d)
               IN  /\ Cardinality(Outcome(Key(dep))) = 1
                   /\ \A r \in Outcome(Key(dep)) :
                        /\ ~dep.unresolved /\ ~r.dep.unresolved /\ Key(dep) \in evidence.vulnerable => r.decision = "block"
                        /\ dep.unresolved /\ r.decision = "safe" => ~r.dep.unresolved
    <2> DEFINE key == Key(Dep(lockfile.format, d))
    <2>1. PICK i \in DOMAIN Deps : Outcome(key) = {audited[i]}  BY <1>4, <1>5
    <2>2. audited[i] \in Outcome(key)  BY <2>1
    <2>3. Key(audited[i].dep) = key  BY <2>1 DEF Outcome
    <2> HIDE DEF key
    <2>4. Cardinality(Outcome(key)) = 1  BY <2>1, FS_Singleton
    <2>5. \A r \in Outcome(key) : Key(r.dep) = key /\ Explained(r)  BY <1>2, <2>1, <2>3
    <2> QED BY <2>4, <2>5 DEF key, Explained
  <1>6. ASSUME NEW i \in DOMAIN audited
        PROVE  /\ depth = "deepAll" => audited[i].deep # "none"
               /\ audited[i].decision = "block" =>
                    \/ Key(audited[i].dep) \in evidence.vulnerable
                    \/ Key(audited[i].dep) \in DOMAIN decided /\ decided[Key(audited[i].dep)] = "block"
                    \/ audited[i].deep = "block"
               /\ audited[i].deep # "none" => audited[i].decision = Worse(audited[i].decision, audited[i].deep)
               /\ audited[i].deep = "error" => audited[i].decision # "safe"
    BY <1>2, <1>3 DEF Explained
  <1> QED BY <1>5, <1>6 DEF AuditFollowsEvidence

\* Whatever the lockfile, the answers, the stored decisions and the order in which batches and scans
\* end, what a lockfile audit returns about a dependency is what the evidence about it says.
THEOREM AuditsFollowEvidence ==
    ASSUME LockAssumption PROVE LockSpec => []AuditFollowsEvidence
  <1>1. LockInit => LockInv  BY LockStarts
  <1>2. LockInv /\ [LockNext]_lockVars => LockInv'  BY LockSteps
  <1>3. LockInv => AuditFollowsEvidence  BY ReturnedFollows
  <1> QED BY <1>1, <1>2, <1>3, PTL DEF LockSpec
=============================================================================
