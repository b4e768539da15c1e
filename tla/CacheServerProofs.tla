------------------------- MODULE CacheServerProofs -------------------------
(***************************************************************************)
(* The content the shared cache serves and the bytes it keeps, for every   *)
(* number of clients, keys, versions and restarts.                         *)
(*                                                                         *)
(* What is answered depends on what is on disk, in the dedup table and in  *)
(* the fetches under way, so the first invariant says what each of them    *)
(* holds: a file holds a key kept there, the table and the fetches agree,  *)
(* and whoever waits, waits for a fetch of its own key. The second one     *)
(* counts bytes: tarballs on disk, what was left behind, and one tarball   *)
(* for each connection that has passed the ceiling and not written yet.    *)
(***************************************************************************)
EXTENDS CacheServer, FoldTheorems

Faithful(b, k) == b \in Contents /\ b.key = k /\ b.whole

\* What a request r may be answered with: a file two keys share may hold the
\* other's, and a tarball's may have been replaced since its length was announced.
Fits(b, r) ==
    /\ b \in Contents
    /\ FilesAreApart => b.key = r.key
    /\ b.whole \/ (r.key \in Refs /\ r.sized # None /\ Differ(b, r.sized))

FetchType == [stage : Stages, key : Keys \cup {None}, content : Contents \cup {None}]
RequestType == [at : Suspended \cup {"idle", "ok", "failed"}, key : Keys \cup {None},
                token : BOOLEAN, leader : Clients \cup {None},
                sized : Contents \cup {None}, body : Contents \cup {None}]

UpstreamOK == upstream \in [Keys -> 1..MaxVersion]

DiskOK ==
    /\ disk \in [Paths -> Contents \cup {None}]
    /\ \A p \in Paths : disk[p] # None =>
          disk[p].whole /\ ~disk[p].scoped /\ PathOf[disk[p].key] = p

FetchesOK ==
    /\ fetch \in [Clients -> FetchType]
    /\ \A l \in Clients : fetch[l].stage # "none" =>
          fetch[l].key \in Keys /\ inFlight[fetch[l].key] = l
    /\ \A l \in Clients : fetch[l].stage \in {"reading", "writing"} =>
          Faithful(fetch[l].content, fetch[l].key) /\ ~fetch[l].content.scoped

TableOK ==
    /\ inFlight \in [Keys -> Clients \cup {None}]
    /\ \A k \in Keys : inFlight[k] # None =>
          fetch[inFlight[k]].stage # "none" /\ fetch[inFlight[k]].key = k

RequestsTyped == req \in [Clients -> RequestType]

RequestsOK ==
    \A c \in Clients :
        /\ req[c].at \in Suspended =>
              req[c].key \in Keys /\ (req[c].token <=> req[c].at \in {"scoped", "hung"})
        /\ req[c].at \in {"hit", "miss", "open"} => disk[PathOf[req[c].key]] # None
        /\ req[c].at \in {"miss", "open"} => req[c].key \in Refs
        /\ req[c].at = "open" => req[c].sized \in Contents
        /\ req[c].at = "ok" => Fits(req[c].body, req[c]) /\ (req[c].body.scoped => req[c].token)

WaitersOK ==
    \A c \in Clients : req[c].at = "waiting" =>
        /\ req[c].leader \in Clients
        /\ fetch[req[c].leader].stage # "none"
        /\ fetch[req[c].leader].key = req[c].key

LeadersOK ==
    \A l \in Clients : fetch[l].stage # "none" => req[l].at = "waiting" /\ req[l].leader = l

IInv == /\ UpstreamOK /\ DiskOK /\ FetchesOK /\ TableOK
        /\ RequestsTyped /\ RequestsOK /\ WaitersOK /\ LeadersOK

USE DEF At, Move, Answer, Refuse, Files

LEMMA FileOf == ASSUME CacheAssumption, NEW k \in Keys PROVE PathOf[k] \in Paths
  BY DEF CacheAssumption, Paths

LEMMA FaithfulFits == \A b, r : Faithful(b, r.key) => Fits(b, r)
  BY DEF Faithful, Fits

LEMMA UpstreamContent ==
    ASSUME UpstreamOK, NEW k \in Keys, NEW token \in BOOLEAN
    PROVE  /\ Faithful(FromUpstream(k, token), k)
           /\ FromUpstream(k, token).scoped = token
  BY DEF UpstreamOK, FromUpstream, Faithful, Contents

\* A file holds what upstream served of a key kept there.
LEMMA DiskContent ==
    ASSUME CacheAssumption, DiskOK, NEW k \in Keys, disk[PathOf[k]] # None
    PROVE  /\ disk[PathOf[k]] \in Contents /\ ~disk[PathOf[k]].scoped
           /\ \A r : r.key = k => Fits(disk[PathOf[k]], r)
  <1>1. PathOf[k] \in Paths
    BY FileOf
  <1>2. disk[PathOf[k]] \in Contents
    BY <1>1 DEF DiskOK
  <1>3. disk[PathOf[k]].key \in Keys /\ PathOf[disk[PathOf[k]].key] = PathOf[k]
    BY <1>1, <1>2 DEF DiskOK, Contents
  <1> QED BY <1>1, <1>2, <1>3 DEF DiskOK, Fits, FilesAreApart

-----------------------------------------------------------------------------
(* Steps that change only requests *)

LEMMA OnlyRequests ==
    ASSUME IInv, UNCHANGED <<upstream, disk, inFlight, fetch>>
    PROVE  UpstreamOK' /\ DiskOK' /\ FetchesOK' /\ TableOK'
  <1>1. UpstreamOK'  BY DEF IInv, UpstreamOK
  <1>2. DiskOK'  BY DEF IInv, DiskOK
  <1>3. FetchesOK'  BY DEF IInv, FetchesOK
  <1>4. TableOK'  BY DEF IInv, TableOK
  <1> QED BY <1>1, <1>2, <1>3, <1>4

\* A request that moves to a place where nothing has been answered yet.
LEMMA MoveKeeps ==
    ASSUME CacheAssumption, IInv, NEW c \in Clients,
           NEW place \in Suspended \ {"waiting", "miss", "open"},
           req[c].at \in Suspended \ {"waiting"},
           place \in {"scoped", "hung"} <=> req[c].at \in {"scoped", "hung"},
           place = "hit" => disk[PathOf[req[c].key]] # None,
           Move(c, place), UNCHANGED <<upstream, disk, inFlight, fetch>>
    PROVE  IInv'
  <1>1. RequestsTyped'  BY DEF IInv, RequestsTyped, RequestType, Suspended
  <1>2. RequestsOK'  BY DEF IInv, RequestsOK, RequestsTyped, RequestType, Suspended, Fits
  <1>3. WaitersOK'  BY DEF IInv, WaitersOK, RequestsTyped, RequestType, Suspended
  <1>4. LeadersOK'  BY DEF IInv, LeadersOK, RequestsTyped, RequestType, Suspended
  <1> QED BY OnlyRequests, <1>1, <1>2, <1>3, <1>4 DEF IInv

\* A tarball's request that takes the length of the file that is there.
LEMMA AnnounceKeeps ==
    ASSUME CacheAssumption, IInv, NEW c \in Clients, req[c].at \in {"stat", "miss"}, req[c].key \in Refs,
           disk[PathOf[req[c].key]] # None, Announce(c), UNCHANGED <<upstream, disk, inFlight, fetch>>
    PROVE  IInv'
  <1> DEFINE file == disk[PathOf[req[c].key]]
             r == [req[c] EXCEPT !.at = "open", !.sized = file]
  <1>1. file \in Contents
    <2>1. req[c].key \in Keys  BY DEF Keys
    <2> QED BY <2>1, DiskContent DEF IInv
  <1>2. req[c] \in RequestType /\ req \in [Clients -> RequestType]  BY DEF IInv, RequestsTyped
  <1>3. /\ r \in RequestType /\ r.at = "open" /\ r.key = req[c].key
        /\ r.token = req[c].token /\ r.sized = file
    BY <1>1, <1>2 DEF RequestType, Suspended
  <1>4. req' = [req EXCEPT ![c] = r]  BY DEF Announce
  <1> HIDE DEF r, file
  <1>5. req'[c] = r /\ \A d \in Clients : d # c => req'[d] = req[d]  BY <1>2, <1>4
  <1>6. RequestsTyped'  BY <1>2, <1>3, <1>4 DEF RequestsTyped
  <1>7. RequestsOK'
    <2>1. req[c].key \in Keys /\ ~req[c].token  BY DEF IInv, RequestsOK, Suspended
    <2>2. disk'[PathOf[r.key]] # None  BY <1>3
    <2> QED BY <1>1, <1>3, <1>5, <2>1, <2>2 DEF IInv, RequestsOK, Suspended, Fits
  <1>8. WaitersOK'  BY <1>3, <1>5 DEF IInv, WaitersOK
  <1>9. LeadersOK'  BY <1>5 DEF IInv, LeadersOK
  <1> QED BY OnlyRequests, <1>6, <1>7, <1>8, <1>9 DEF IInv

\* A request that is answered with what fits it, scoped only if it brought a
\* token.
LEMMA AnswerKeeps ==
    ASSUME IInv, NEW c \in Clients, ~At(c, "waiting"), NEW b, Fits(b, req[c]), b.scoped => req[c].token,
           Answer(c, b), UNCHANGED <<upstream, disk, inFlight, fetch>>
    PROVE  IInv'
  <1>1. RequestsTyped'  BY DEF IInv, RequestsTyped, RequestType, Fits
  <1>2. RequestsOK'  BY DEF IInv, RequestsOK, RequestsTyped, RequestType, Suspended, Fits
  <1>3. WaitersOK'  BY DEF IInv, WaitersOK, RequestsTyped, RequestType
  <1>4. LeadersOK'  BY DEF IInv, LeadersOK, RequestsTyped, RequestType
  <1> QED BY OnlyRequests, <1>1, <1>2, <1>3, <1>4 DEF IInv

LEMMA RefuseKeeps ==
    ASSUME IInv, NEW c \in Clients, ~At(c, "waiting"), Refuse(c), UNCHANGED <<upstream, disk, inFlight, fetch>>
    PROVE  IInv'
  <1>1. RequestsTyped'  BY DEF IInv, RequestsTyped, RequestType
  <1>2. RequestsOK'  BY DEF IInv, RequestsOK, RequestsTyped, RequestType, Suspended
  <1>3. WaitersOK'  BY DEF IInv, WaitersOK, RequestsTyped, RequestType
  <1>4. LeadersOK'  BY DEF IInv, LeadersOK, RequestsTyped, RequestType
  <1> QED BY OnlyRequests, <1>1, <1>2, <1>3, <1>4 DEF IInv

LEMMA WaitingTyped ==
    ASSUME RequestsTyped, NEW c \in Clients, NEW l \in Clients,
           req' = [req EXCEPT ![c].at = "waiting", ![c].leader = l]
    PROVE  RequestsTyped'
  <1> DEFINE r == [req[c] EXCEPT !.at = "waiting", !.leader = l]
  <1>1. req[c] \in RequestType  BY DEF RequestsTyped
  <1>2. r \in RequestType  BY <1>1 DEF RequestType, Suspended
  <1>3. req' = [req EXCEPT ![c] = r]  OBVIOUS
  <1>4. req \in [Clients -> RequestType]  BY DEF RequestsTyped
  <1> HIDE DEF r
  <1> QED BY <1>2, <1>3, <1>4 DEF RequestsTyped

LEMMA ArriveKeeps ==
    ASSUME IInv, NEW c \in Clients, Arrive(c)
    PROVE  IInv'
  <1>1. PICK k \in Keys, token \in BOOLEAN :
           req' = [req EXCEPT ![c] = [Idle EXCEPT !.key = k, !.token = token,
                                         !.at = IF token THEN "scoped" ELSE "stat"]]
    BY DEF Arrive
  <1>2. UNCHANGED <<upstream, disk, inFlight, fetch>>
    BY DEF Arrive
  <1>3. RequestsTyped'  BY <1>1 DEF IInv, RequestsTyped, RequestType, Idle, Suspended
  <1>4. RequestsOK'  BY <1>1, <1>2 DEF IInv, RequestsOK, RequestsTyped, RequestType, Idle, Suspended
  <1>5. WaitersOK'  BY <1>1, <1>2 DEF IInv, WaitersOK, RequestsTyped, RequestType, Idle
  <1>6. LeadersOK'  BY <1>1, <1>2 DEF Arrive, IInv, LeadersOK, RequestsTyped, RequestType
  <1> QED BY OnlyRequests, <1>2, <1>3, <1>4, <1>5, <1>6 DEF IInv

\* A client that gives up on metadata leads no fetch, so nobody waits for it.
LEMMA LeavesKeeps ==
    ASSUME IInv, NEW c \in Clients, Leaves(c)
    PROVE  IInv'
  <1>1. /\ req' = [req EXCEPT ![c] = Idle] /\ fetch[c].stage = "none"
        /\ UNCHANGED <<upstream, disk, inFlight, fetch>>
    BY DEF Leaves
  <1>2. RequestsTyped'  BY <1>1 DEF IInv, RequestsTyped, RequestType, Idle, Suspended
  <1>3. RequestsOK'  BY <1>1 DEF IInv, RequestsOK, RequestsTyped, Idle, Suspended, Fits
  <1>4. WaitersOK'  BY <1>1 DEF IInv, WaitersOK, RequestsTyped, Idle
  <1>5. LeadersOK'  BY <1>1 DEF IInv, LeadersOK, RequestsTyped
  <1> QED BY OnlyRequests, <1>1, <1>2, <1>3, <1>4, <1>5 DEF IInv

LEMMA HandlerKeeps ==
    ASSUME CacheAssumption, IInv, NEW c \in Clients, Handler(c)
    PROVE  IInv'
  <1> DEFINE k == req[c].key
  <1>1. CASE Stat(c)
    <2>1. k \in Keys /\ At(c, "stat") /\ UNCHANGED <<upstream, disk, inFlight, fetch>>
      BY <1>1 DEF Stat, IInv, RequestsOK, Suspended
    <2>2. CASE \E place \in {"hit", "measure", "join"} :
                  Move(c, place) /\ (place = "hit" => InCache(k))
      <3>1. PICK place \in {"hit", "measure", "join"} :
               Move(c, place) /\ (place = "hit" => InCache(k))
        BY <2>2
      <3>2. /\ place \in Suspended \ {"waiting", "miss", "open"} /\ req[c].at \in Suspended \ {"waiting"}
            /\ place \notin {"scoped", "hung"} /\ req[c].at \notin {"scoped", "hung"}
        BY <2>1 DEF Suspended
      <3>3. place = "hit" => disk[PathOf[k]] # None
        BY <3>1 DEF InCache
      <3> QED BY <2>1, <3>1, <3>2, <3>3, MoveKeeps
    <2>3. CASE InCache(k) /\ k \in Refs /\ Announce(c)
      BY <2>1, <2>3, AnnounceKeeps DEF InCache
    <2> QED BY <1>1, <2>2, <2>3 DEF Stat
  <1>2. CASE ServeHit(c)
    <2>1. k \in Keys /\ disk[PathOf[k]] # None
      BY <1>2 DEF ServeHit, IInv, RequestsOK, Suspended
    <2>2. Fits(disk[PathOf[k]], req[c]) /\ ~disk[PathOf[k]].scoped
      BY <2>1, DiskContent DEF IInv
    <2> QED BY <1>2, <2>2, AnswerKeeps DEF ServeHit
  <1>3. CASE HitUnreadable(c)
    BY <1>3, MoveKeeps DEF HitUnreadable, Suspended
  <1>4. CASE Measure(c)
    <2>1. PICK place \in {"bypass", "join"} : Move(c, place)
      BY <1>4 DEF Measure
    <2> QED BY <1>4, <2>1, MoveKeeps DEF Measure, Suspended
  <1>5. CASE Bypass(c)
    <2>1. k \in Keys  BY <1>5 DEF Bypass, IInv, RequestsOK, Suspended
    <2>2. Faithful(FromUpstream(k, FALSE), k) /\ ~FromUpstream(k, FALSE).scoped
      BY <2>1, UpstreamContent DEF IInv
    <2> QED BY <1>5, <2>2, FaithfulFits, AnswerKeeps, RefuseKeeps DEF Bypass
  <1>6. CASE ServeScoped(c)
    <2>1. k \in Keys /\ req[c].token
      BY <1>6 DEF ServeScoped, IInv, RequestsOK, Suspended
    <2>2. Faithful(FromUpstream(k, TRUE), k)
      BY <2>1, UpstreamContent DEF IInv
    <2>3. CASE Move(c, "hung")
      BY <1>6, <2>3, MoveKeeps DEF ServeScoped, Suspended
    <2> QED BY <1>6, <2>1, <2>2, <2>3, FaithfulFits, AnswerKeeps, RefuseKeeps DEF ServeScoped
  <1>7. CASE Join(c)
    <2>1. k \in Keys /\ ~req[c].token
      BY <1>7 DEF Join, IInv, RequestsOK, Suspended
    <2>2. UpstreamOK' /\ DiskOK'
      BY <1>7 DEF Join, IInv, UpstreamOK, DiskOK
    <2>3. CASE /\ inFlight[k] # None
               /\ req' = [req EXCEPT ![c].at = "waiting", ![c].leader = inFlight[k]]
               /\ UNCHANGED <<inFlight, fetch>>
      <3>1. UNCHANGED <<upstream, disk, inFlight, fetch>>
        BY <1>7, <2>3 DEF Join
      <3>2. inFlight[k] \in Clients /\ fetch[inFlight[k]].stage # "none"
            /\ fetch[inFlight[k]].key = k
        BY <2>1, <2>3 DEF IInv, TableOK
      <3>3. RequestsTyped'
        <4>1. PICK l \in Clients : req' = [req EXCEPT ![c].at = "waiting", ![c].leader = l]
          BY <2>3, <3>2
        <4> QED BY <4>1, WaitingTyped DEF IInv
      <3>4. RequestsOK'
        BY <1>7, <2>1, <2>3, <3>1 DEF Join, IInv, RequestsOK, RequestsTyped, RequestType, Suspended, Fits
      <3>5. WaitersOK'  BY <2>3, <3>1, <3>2 DEF IInv, WaitersOK, RequestsTyped, RequestType
      <3>6. LeadersOK'  BY <1>7, <2>3, <3>1 DEF Join, IInv, LeadersOK, RequestsTyped, RequestType
      <3> QED BY OnlyRequests, <3>1, <3>3, <3>4, <3>5, <3>6 DEF IInv
    <2>4. CASE /\ inFlight[k] = None
               /\ req' = [req EXCEPT ![c].at = "waiting", ![c].leader = c]
               /\ inFlight' = [inFlight EXCEPT ![k] = c]
               /\ fetch' = [fetch EXCEPT ![c] = [stage |-> "asked", key |-> k, content |-> None]]
      <3>1. fetch[c].stage = "none"
        BY <1>7 DEF Join, IInv, LeadersOK
      <3>2. FetchesOK'
        <4>1. \A l \in Clients : fetch[l].stage # "none" => fetch[l].key # k
          BY <2>4, CacheAssumption DEF IInv, FetchesOK, CacheAssumption
        <4>2. \A l \in Clients : l # c => fetch'[l] = fetch[l]
          BY <2>4 DEF IInv, FetchesOK
        <4>3. fetch'[c] = [stage |-> "asked", key |-> k, content |-> None]
          BY <2>4 DEF IInv, FetchesOK
        <4>4. inFlight'[k] = c /\ \A j \in Keys : j # k => inFlight'[j] = inFlight[j]
          BY <2>1, <2>4 DEF IInv, TableOK
        <4>5. fetch' \in [Clients -> FetchType]
          BY <2>1, <2>4 DEF IInv, FetchesOK, FetchType, Stages
        <4>6. \A l \in Clients : fetch'[l].stage # "none" =>
                 fetch'[l].key \in Keys /\ inFlight'[fetch'[l].key] = l
          BY <2>1, <4>1, <4>2, <4>3, <4>4 DEF IInv, FetchesOK
        <4>7. \A l \in Clients : fetch'[l].stage \in {"reading", "writing"} =>
                 Faithful(fetch'[l].content, fetch'[l].key) /\ ~fetch'[l].content.scoped
          BY <4>2, <4>3 DEF IInv, FetchesOK
        <4> QED BY <4>5, <4>6, <4>7 DEF FetchesOK, Faithful
      <3>3. TableOK'
        <4>1. inFlight' \in [Keys -> Clients \cup {None}]
          BY <2>1, <2>4 DEF IInv, TableOK
        <4>2. fetch'[c].stage # "none" /\ fetch'[c].key = k /\ inFlight'[k] = c
          BY <2>1, <2>4 DEF IInv, FetchesOK, TableOK
        <4>3. ASSUME NEW j \in Keys, j # k, inFlight'[j] # None
              PROVE  fetch'[inFlight'[j]].stage # "none" /\ fetch'[inFlight'[j]].key = j
          <5>1. inFlight'[j] = inFlight[j] /\ inFlight[j] \in Clients
            BY <2>4, <4>3 DEF IInv, TableOK
          <5>2. fetch[inFlight[j]].stage # "none" /\ fetch[inFlight[j]].key = j
            BY <4>3, <5>1 DEF IInv, TableOK
          <5>3. inFlight[j] # c
            BY <3>1, <5>2
          <5>4. fetch'[inFlight[j]] = fetch[inFlight[j]]
            BY <2>4, <5>1, <5>3 DEF IInv, FetchesOK
          <5> QED BY <5>1, <5>2, <5>4
        <4> QED BY <4>1, <4>2, <4>3 DEF TableOK
      <3>4. RequestsTyped'  BY <2>4, WaitingTyped DEF IInv
      <3>5. RequestsOK'
        BY <1>7, <2>1, <2>4 DEF Join, IInv, RequestsOK, RequestsTyped, RequestType, Suspended, Fits
      <3>6. WaitersOK'
        BY <2>1, <2>4, <3>1 DEF IInv, WaitersOK, RequestsTyped, RequestType, FetchesOK
      <3>7. LeadersOK'
        BY <1>7, <2>4 DEF Join, IInv, LeadersOK, RequestsTyped, RequestType, FetchesOK
      <3> QED BY <2>2, <3>2, <3>3, <3>4, <3>5, <3>6, <3>7 DEF IInv
    <2> QED BY <1>7, <2>3, <2>4 DEF Join
  <1>8. CASE ServeMiss(c)
    <2>1. k \in Refs /\ disk[PathOf[k]] # None /\ At(c, "miss")
      BY <1>8 DEF ServeMiss, IInv, RequestsOK
    <2> QED BY <1>8, <2>1, AnnounceKeeps DEF ServeMiss
  <1>9. CASE Open(c)
    <2> DEFINE file == disk[PathOf[k]]
    <2>1. k \in Refs /\ k \in Keys /\ file # None /\ At(c, "open") /\ req[c].sized \in Contents
      BY <1>9 DEF Open, IInv, RequestsOK, Keys
    <2>2. PICK cut \in BOOLEAN :
             /\ cut => Differ(file, req[c].sized)
             /\ Answer(c, [file EXCEPT !.whole = @ /\ ~cut])
      BY <1>9 DEF Open
    <2>3. file \in Contents /\ ~file.scoped /\ Fits(file, req[c])
      BY <2>1, DiskContent DEF IInv
    <2> DEFINE b == [file EXCEPT !.whole = @ /\ ~cut]
    <2>4. b \in Contents /\ b.key = file.key /\ b.version = file.version /\ b.scoped = file.scoped
      <3> HIDE DEF file
      <3> DEFINE w == file.whole /\ ~cut
      <3>1. w \in BOOLEAN  OBVIOUS
      <3>2. b = [file EXCEPT !.whole = w]  OBVIOUS
      <3> HIDE DEF w, b
      <3> QED BY <2>3, <3>1, <3>2 DEF Contents
    <2>5. cut \/ b.whole = file.whole
      <3> HIDE DEF file
      <3>1. file.whole \in BOOLEAN  BY <2>3 DEF Contents
      <3>2. CASE ~cut
        <4>1. b = [file EXCEPT !.whole = file.whole]  BY <3>1, <3>2
        <4> QED BY <2>3, <4>1 DEF Contents
      <3> QED BY <3>2
    <2>6. req[c].sized # None  BY <2>1, CacheAssumption DEF CacheAssumption
    <2>7. Fits(b, req[c])
      <3>1. cut => Differ(b, req[c].sized)  BY <2>2, <2>4 DEF Differ
      <3>2. Differ(file, req[c].sized) <=> Differ(b, req[c].sized)  BY <2>4 DEF Differ
      <3> HIDE DEF b, file
      <3> QED BY <2>1, <2>3, <2>4, <2>5, <2>6, <3>1, <3>2 DEF Fits
    <2>8. ~b.scoped  BY <2>3, <2>4
    <2>9. Answer(c, b) /\ ~At(c, "waiting") /\ UNCHANGED <<upstream, disk, inFlight, fetch>>
      BY <1>9, <2>1, <2>2 DEF Open
    <2> HIDE DEF b
    <2> QED BY <2>7, <2>8, <2>9, AnswerKeeps
  <1> QED
    BY <1>1, <1>2, <1>3, <1>4, <1>5, <1>6, <1>7, <1>8, <1>9 DEF Handler

-----------------------------------------------------------------------------
(* Steps of fetches *)

\* A fetch that goes on: what it holds once it is read is what upstream served.
LEMMA StageKeeps ==
    ASSUME IInv, NEW l \in Clients, fetch[l].stage # "none", NEW f \in FetchType,
           fetch' = [fetch EXCEPT ![l] = f], f.stage # "none", f.key = fetch[l].key,
           f.stage \in {"reading", "writing"} => Faithful(f.content, f.key) /\ ~f.content.scoped,
           UNCHANGED <<upstream, disk, inFlight, req>>
    PROVE  IInv'
  <1>1. fetch \in [Clients -> FetchType]  BY DEF IInv, FetchesOK
  <1>2. fetch'[l] = f /\ \A d \in Clients : d # l => fetch'[d] = fetch[d]  BY <1>1
  <1>3. UpstreamOK' /\ DiskOK' /\ RequestsTyped' /\ RequestsOK'
    BY DEF IInv, UpstreamOK, DiskOK, RequestsTyped, RequestsOK, Fits
  <1>4. FetchesOK'
    <2>1. fetch' \in [Clients -> FetchType]  BY <1>1
    <2>2. \A d \in Clients : fetch'[d].stage # "none" =>
             fetch'[d].key \in Keys /\ inFlight'[fetch'[d].key] = d
      BY <1>2 DEF IInv, FetchesOK
    <2>3. \A d \in Clients : fetch'[d].stage \in {"reading", "writing"} =>
             Faithful(fetch'[d].content, fetch'[d].key) /\ ~fetch'[d].content.scoped
      BY <1>2 DEF IInv, FetchesOK
    <2> QED BY <2>1, <2>2, <2>3 DEF FetchesOK, Faithful
  <1>5. TableOK'  BY <1>2 DEF IInv, TableOK
  <1>6. WaitersOK' /\ LeadersOK'  BY <1>2 DEF IInv, WaitersOK, LeadersOK
  <1> QED BY <1>3, <1>4, <1>5, <1>6 DEF IInv

LEMMA FetchAnsweredKeeps ==
    ASSUME IInv, NEW l \in Clients, FetchAnswered(l)
    PROVE  IInv'
  <1> DEFINE k == fetch[l].key
             b == FromUpstream(k, FALSE)
             stage == IF k \in Refs THEN "writing" ELSE "reading"
             f == [fetch[l] EXCEPT !.stage = stage, !.content = b]
  <1>1. k \in Keys /\ fetch[l].stage = "asked" /\ fetch[l] \in FetchType
    BY DEF FetchAnswered, IInv, FetchesOK
  <1>2. Faithful(b, k) /\ ~b.scoped
    BY <1>1, UpstreamContent DEF IInv
  <1>3. fetch' = [fetch EXCEPT ![l] = f] /\ UNCHANGED <<upstream, disk, inFlight, req>>
    BY DEF FetchAnswered
  <1>4. stage \in Stages /\ stage # "none"  BY DEF Stages
  <1> HIDE DEF b, stage
  <1>5. f \in FetchType /\ f.stage = stage /\ f.key = k /\ f.content = b
    BY <1>1, <1>2, <1>4 DEF FetchType, Faithful
  <1> HIDE DEF f
  <1> QED BY <1>1, <1>2, <1>3, <1>4, <1>5, StageKeeps

\* What settling does to the requests: those that waited for l are answered
\* with its content, sent to the disk, or refused; the others are untouched.
LEMMA SettleKeeps ==
    ASSUME CacheAssumption, IInv, NEW l \in Clients, NEW ok \in BOOLEAN,
           fetch[l].stage # "none", Settle(l, ok), UNCHANGED upstream, DiskOK',
           ok => fetch[l].stage = "writing",
           \A p \in Paths : disk[p] # None => disk'[p] # None,
           ok => disk'[PathOf[fetch[l].key]] # None
    PROVE  IInv'
  <1> DEFINE k == fetch[l].key
  <1>1. k \in Keys /\ inFlight[k] = l /\ k # None
    BY DEF IInv, FetchesOK, CacheAssumption
  <1>2. ok => Faithful(fetch[l].content, k) /\ ~fetch[l].content.scoped
    BY DEF IInv, FetchesOK
  <1>3. /\ inFlight' = [inFlight EXCEPT ![k] = None]
        /\ fetch' = [fetch EXCEPT ![l] = NoFetch]
    BY DEF Settle
  <1>4. \A c \in Clients :
           \/ c \notin Waiting(l) /\ req'[c] = req[c]
           \/ c \in Waiting(l) /\ req'[c] = [req[c] EXCEPT !.at = "failed"]
           \/ c \in Waiting(l) /\ ok /\ req'[c] = [req[c] EXCEPT !.at = "ok", !.body = fetch[l].content]
           \/ c \in Waiting(l) /\ ok /\ k \notin Repos /\ req'[c] = [req[c] EXCEPT !.at = "miss"]
    BY DEF Settle
  <1>5. req' = [c \in Clients |-> req'[c]]
    BY DEF Settle
  <1>6. \A c \in Waiting(l) : c \in Clients /\ req[c].key = k /\ ~req[c].token /\ req[c].at = "waiting"
    BY DEF Waiting, IInv, WaitersOK, RequestsOK, Suspended
  <1>7. UpstreamOK'  BY DEF IInv, UpstreamOK
  <1>8. FetchesOK'
    <2>1. fetch' \in [Clients -> FetchType]
      BY <1>3 DEF NoFetch, IInv, FetchesOK, FetchType, Stages
    <2>2. \A d \in Clients : d # l => fetch'[d] = fetch[d]
      BY <1>3 DEF IInv, FetchesOK
    <2>3. fetch'[l].stage = "none"
      BY <1>3 DEF NoFetch, IInv, FetchesOK
    <2>4. ASSUME NEW d \in Clients, fetch'[d].stage # "none"
          PROVE  fetch'[d].key \in Keys /\ inFlight'[fetch'[d].key] = d
      <3>1. d # l /\ fetch'[d] = fetch[d] /\ fetch[d].key \in Keys /\ inFlight[fetch[d].key] = d
        BY <2>2, <2>3, <2>4 DEF IInv, FetchesOK
      <3>2. fetch[d].key # k
        BY <1>1, <3>1
      <3> QED BY <1>1, <1>3, <3>1, <3>2 DEF IInv, TableOK
    <2>5. \A d \in Clients : fetch'[d].stage \in {"reading", "writing"} =>
             Faithful(fetch'[d].content, fetch'[d].key) /\ ~fetch'[d].content.scoped
      BY <2>2, <2>3 DEF IInv, FetchesOK
    <2> QED BY <2>1, <2>4, <2>5 DEF FetchesOK, Faithful
  <1>9. TableOK'
    <2>1. inFlight' \in [Keys -> Clients \cup {None}]
      BY <1>1, <1>3 DEF IInv, TableOK
    <2>2. ASSUME NEW j \in Keys, inFlight'[j] # None
          PROVE  fetch'[inFlight'[j]].stage # "none" /\ fetch'[inFlight'[j]].key = j
      <3>1. j # k /\ inFlight'[j] = inFlight[j] /\ inFlight[j] \in Clients
        BY <1>1, <1>3, <2>2 DEF IInv, TableOK
      <3>2. fetch[inFlight[j]].stage # "none" /\ fetch[inFlight[j]].key = j
        BY <2>2, <3>1 DEF IInv, TableOK
      <3>3. inFlight[j] # l
        BY <3>1, <3>2
      <3> QED BY <1>3, <3>1, <3>2, <3>3 DEF IInv, FetchesOK
    <2> QED BY <2>1, <2>2 DEF TableOK
  <1>10. req \in [Clients -> RequestType]  BY DEF IInv, RequestsTyped
  <1>a. \A c \in Clients : c \notin Waiting(l) => req'[c] = req[c]
    BY <1>4
  <1>b. ASSUME NEW c \in Waiting(l)
        PROVE  /\ req'[c] \in RequestType
               /\ req'[c].key = req[c].key /\ req'[c].token = req[c].token
               /\ req'[c].at \in {"failed", "ok", "miss"}
               /\ req'[c].at = "ok" => ok /\ req'[c].body = fetch[l].content
               /\ req'[c].at = "miss" => ok /\ k \in Refs
    <2>1. c \in Clients /\ req[c] \in RequestType
      BY <1>6, <1>10
    <2>2. CASE req'[c] = [req[c] EXCEPT !.at = "failed"]
      BY <2>1, <2>2 DEF RequestType
    <2>3. CASE ok /\ req'[c] = [req[c] EXCEPT !.at = "ok", !.body = fetch[l].content]
      BY <1>2, <2>1, <2>3 DEF Faithful, RequestType
    <2>4. CASE ok /\ k \notin Repos /\ req'[c] = [req[c] EXCEPT !.at = "miss"]
      BY <1>1, <2>1, <2>4 DEF Suspended, RequestType, Keys
    <2> QED BY <1>4, <2>1, <2>2, <2>3, <2>4
  <1>11. \A c \in Clients : req'[c] \in RequestType
    BY <1>a, <1>b, <1>10
  <1>12. RequestsTyped'
    BY <1>5, <1>11 DEF RequestsTyped
  <1> HIDE DEF k
  <1>13. RequestsOK'
    <2> DEFINE Kept(c) ==
          /\ req'[c].at \in Suspended =>
                req'[c].key \in Keys /\ (req'[c].token <=> req'[c].at \in {"scoped", "hung"})
          /\ req'[c].at \in {"hit", "miss", "open"} => disk'[PathOf[req'[c].key]] # None
          /\ req'[c].at \in {"miss", "open"} => req'[c].key \in Refs
          /\ req'[c].at = "open" => req'[c].sized \in Contents
          /\ req'[c].at = "ok" => Fits(req'[c].body, req'[c]) /\ (req'[c].body.scoped => req'[c].token)
    <2>1. ASSUME NEW c \in Clients, c \notin Waiting(l)
          PROVE  Kept(c)
      <3>1. req'[c] = req[c]
        BY <1>a, <2>1
      <3>2. /\ req[c].at \in Suspended =>
                  req[c].key \in Keys /\ (req[c].token <=> req[c].at \in {"scoped", "hung"})
            /\ req[c].at \in {"hit", "miss", "open"} => disk[PathOf[req[c].key]] # None
            /\ req[c].at \in {"miss", "open"} => req[c].key \in Refs
            /\ req[c].at = "open" => req[c].sized \in Contents
            /\ req[c].at = "ok" => Fits(req[c].body, req[c]) /\ (req[c].body.scoped => req[c].token)
        BY DEF IInv, RequestsOK
      <3>3. req[c].at \in {"hit", "miss", "open"} => req[c].key \in Keys
        BY <3>2 DEF Suspended
      <3>4. req[c].at \in {"hit", "miss", "open"} => disk'[PathOf[req[c].key]] # None
        BY <3>2, <3>3, FileOf
      <3> QED BY <3>1, <3>2, <3>4
    <2>2. ASSUME NEW c \in Waiting(l)
          PROVE  Kept(c)
      <3>1. req'[c].key = k /\ ~req'[c].token
        BY <1>6, <1>b, <2>2 DEF k
      <3>2. req'[c].at = "ok" => Fits(req'[c].body, req'[c]) /\ ~req'[c].body.scoped
        BY <1>2, <1>b, <2>2, <3>1, FaithfulFits
      <3>3. req'[c].at = "miss" => disk'[PathOf[k]] # None /\ k \in Refs
        BY <1>b, <2>2 DEF k
      <3> QED BY <1>1, <1>b, <2>2, <3>1, <3>2, <3>3
    <2>3. RequestsOK' <=> \A c \in Clients : Kept(c)
      BY DEF RequestsOK, Fits
    <2> QED BY <2>1, <2>2, <2>3
  <1>c. \A d \in Clients : d # l => fetch'[d] = fetch[d]
    BY <1>3 DEF IInv, FetchesOK
  <1>14. WaitersOK'
    <2>1. ASSUME NEW c \in Clients, req'[c].at = "waiting"
          PROVE  /\ req'[c].leader \in Clients
                 /\ fetch'[req'[c].leader].stage # "none"
                 /\ fetch'[req'[c].leader].key = req'[c].key
      <3>1. c \notin Waiting(l)
        BY <1>b, <2>1
      <3>2. req'[c] = req[c] /\ req[c].leader # l
        BY <1>a, <2>1, <3>1 DEF Waiting
      <3> QED BY <1>c, <2>1, <3>2 DEF IInv, WaitersOK
    <2> QED BY <2>1 DEF WaitersOK
  <1>15. LeadersOK'
    <2>1. ASSUME NEW d \in Clients, fetch'[d].stage # "none"
          PROVE  req'[d].at = "waiting" /\ req'[d].leader = d
      <3>1. d # l
        BY <1>3, <2>1 DEF NoFetch, IInv, FetchesOK
      <3>2. req[d].at = "waiting" /\ req[d].leader = d
        BY <1>c, <2>1, <3>1 DEF IInv, LeadersOK
      <3>3. d \notin Waiting(l)
        BY <3>1, <3>2 DEF Waiting
      <3> QED BY <1>a, <3>2, <3>3
    <2> QED BY <2>1 DEF LeadersOK
  <1> QED BY <1>7, <1>8, <1>9, <1>12, <1>13, <1>14, <1>15 DEF IInv

LEMMA FetchingKeeps ==
    ASSUME CacheAssumption, IInv, NEW l \in Clients, Fetching(l)
    PROVE  IInv'
  <1> DEFINE p == PathOf[fetch[l].key]
  <1>1. CASE FetchAnswered(l)
    BY <1>1, FetchAnsweredKeeps
  <1>2. CASE FetchRefused(l)
    <2>1. DiskOK'  BY <1>2 DEF FetchRefused, IInv, DiskOK
    <2> QED BY <1>2, <2>1, SettleKeeps DEF FetchRefused
  <1>3. CASE FetchDone(l)
    <2>1. fetch[l].key \in Keys /\ fetch[l].stage = "writing"
      BY <1>3 DEF FetchDone, IInv, FetchesOK
    <2>2. p \in Paths
      BY <2>1, FileOf
    <2>3. Faithful(fetch[l].content, fetch[l].key) /\ ~fetch[l].content.scoped
      BY <2>1 DEF IInv, FetchesOK
    <2>4. fetch[l].content # None
      BY <2>1, <2>3 DEF Faithful, CacheAssumption
    <2>5. disk' = [disk EXCEPT ![p] = fetch[l].content]
      BY <1>3 DEF FetchDone
    <2>6. DiskOK'
      BY <2>2, <2>3, <2>5 DEF IInv, DiskOK, Faithful
    <2>7. \A q \in Paths : disk[q] # None => disk'[q] # None
      BY <2>2, <2>4, <2>5 DEF IInv, DiskOK
    <2>8. disk'[p] # None
      BY <2>2, <2>4, <2>5 DEF IInv, DiskOK
    <2> QED BY <1>3, <2>1, <2>6, <2>7, <2>8, SettleKeeps DEF FetchDone
  <1>4. CASE FetchCut(l)
    <2>1. DiskOK'  BY <1>4 DEF FetchCut, IInv, DiskOK
    <2> QED BY <1>4, <2>1, SettleKeeps DEF FetchCut
  <1>6. CASE BodyReceived(l) \/ FetchHangs(l)
    <2>1. fetch[l].stage = "reading" /\ UNCHANGED <<upstream, disk, inFlight, req>>
      BY <1>6 DEF BodyReceived, FetchHangs
    <2>2. fetch[l] \in FetchType /\ Faithful(fetch[l].content, fetch[l].key) /\ ~fetch[l].content.scoped
      BY <2>1 DEF IInv, FetchesOK
    <2>3. PICK stage \in {"writing", "hung"} : fetch' = [fetch EXCEPT ![l].stage = stage]
      BY <1>6 DEF BodyReceived, FetchHangs
    <2> DEFINE g == [fetch[l] EXCEPT !.stage = stage]
    <2>4. /\ g \in FetchType /\ g.stage # "none" /\ g.key = fetch[l].key /\ g.content = fetch[l].content
          /\ fetch' = [fetch EXCEPT ![l] = g]
      BY <2>2, <2>3 DEF FetchType, Stages
    <2> HIDE DEF g
    <2> QED BY <2>1, <2>2, <2>4, StageKeeps
  <1>5. CASE FetchUnwritable(l)
    <2>1. DiskOK'  BY <1>5 DEF FetchUnwritable, IInv, DiskOK
    <2> QED BY <1>5, <2>1, SettleKeeps DEF FetchUnwritable
  <1> QED BY <1>1, <1>2, <1>3, <1>4, <1>5, <1>6 DEF Fetching

-----------------------------------------------------------------------------
(* The invariant of the specification *)

LEMMA InitIInv == ASSUME CacheAssumption, Init PROVE IInv
  <1>1. UpstreamOK  BY DEF Init, UpstreamOK, CacheAssumption
  <1>2. DiskOK  BY DEF Init, DiskOK
  <1>3. FetchesOK  BY DEF Init, FetchesOK, NoFetch, FetchType, Stages
  <1>4. TableOK  BY DEF Init, TableOK
  <1>5. RequestsTyped  BY DEF Init, RequestsTyped, RequestType, Idle
  <1>6. RequestsOK  BY DEF Init, RequestsOK, Idle, Suspended
  <1>7. WaitersOK /\ LeadersOK  BY DEF Init, WaitersOK, LeadersOK, Idle, NoFetch
  <1> QED BY <1>1, <1>2, <1>3, <1>4, <1>5, <1>6, <1>7 DEF IInv

LEMMA CrashKeeps == ASSUME IInv, Crash PROVE IInv'
  <1>1. UpstreamOK'  BY DEF Crash, IInv, UpstreamOK
  <1>2. DiskOK'  BY DEF Crash, IInv, DiskOK
  <1>3. FetchesOK'  BY DEF Crash, FetchesOK, NoFetch, FetchType, Stages
  <1>4. TableOK'  BY DEF Crash, TableOK
  <1>5. RequestsTyped'  BY DEF Crash, RequestsTyped, RequestType, Idle
  <1>6. RequestsOK'  BY DEF Crash, RequestsOK, Idle, Suspended
  <1>7. WaitersOK' /\ LeadersOK'  BY DEF Crash, WaitersOK, LeadersOK, Idle, NoFetch
  <1> QED BY <1>1, <1>2, <1>3, <1>4, <1>5, <1>6, <1>7 DEF IInv

LEMMA OnlyUpstream ==
    ASSUME IInv, UpstreamOK', UNCHANGED <<disk, inFlight, fetch, req>>
    PROVE  IInv'
  <1>1. DiskOK'  BY DEF IInv, DiskOK
  <1>2. FetchesOK'  BY DEF IInv, FetchesOK
  <1>3. TableOK'  BY DEF IInv, TableOK
  <1>4. RequestsTyped' /\ RequestsOK' /\ WaitersOK' /\ LeadersOK'
    BY DEF IInv, RequestsTyped, RequestsOK, WaitersOK, LeadersOK
  <1> QED BY <1>1, <1>2, <1>3, <1>4 DEF IInv

LEMMA NextIInv ==
    ASSUME CacheAssumption, IInv, [Next]_vars
    PROVE  IInv'
  <1>1. CASE \E c \in Clients : Arrive(c) \/ Leaves(c) \/ Handler(c) \/ Fetching(c)
    BY <1>1, ArriveKeeps, LeavesKeeps, HandlerKeeps, FetchingKeeps
  <1>2. CASE \E k \in Keys : UpstreamMoves(k)
    <2>1. UpstreamOK'
      BY <1>2 DEF UpstreamMoves, IInv, UpstreamOK, CacheAssumption
    <2> QED BY <1>2, <2>1, OnlyUpstream DEF UpstreamMoves
  <1>3. CASE \E p \in Paths : Expires(p)
    <2>1. UpstreamOK' /\ UNCHANGED <<disk, inFlight, fetch, req>>
      BY <1>3 DEF Expires, IInv, UpstreamOK
    <2> QED BY <2>1, OnlyUpstream
  <1>4. CASE Crash
    BY <1>4, CrashKeeps
  <1>5. CASE UNCHANGED vars
    <2>1. UpstreamOK' /\ UNCHANGED <<disk, inFlight, fetch, req>>
      BY <1>5 DEF vars, IInv, UpstreamOK
    <2> QED BY <2>1, OnlyUpstream
  <1> QED BY <1>1, <1>2, <1>3, <1>4, <1>5 DEF Next

\* If every key has a file of its own, whoever is answered gets what it asked
\* for: read from disk, shared, or streamed past a full cache; and the whole of
\* it, unless its tarball's file was replaced between its stat and its opening.
THEOREM AnswersAreRight ==
    ASSUME CacheAssumption, FilesAreApart
    PROVE  Spec => []RightContent
  <1>1. Init => IInv
    BY InitIInv
  <1>2. IInv /\ [Next]_vars => IInv'
    BY NextIInv
  <1>3. IInv => RightContent
    BY DEF IInv, RequestsOK, RightContent, Replaced, Fits, CacheAssumption
  <1> QED BY <1>1, <1>2, <1>3, PTL DEF Spec

\* What upstream said to a token is never on disk, nor in an answer to a
\* request that brought none.
THEOREM TokensArePrivate ==
    ASSUME CacheAssumption
    PROVE  Spec => []ScopedContentStaysPrivate
  <1>1. Init => IInv
    BY InitIInv
  <1>2. IInv /\ [Next]_vars => IInv'
    BY NextIInv
  <1>3. IInv => ScopedContentStaysPrivate
    BY DEF IInv, RequestsOK, DiskOK, ScopedContentStaysPrivate
  <1> QED BY <1>1, <1>2, <1>3, PTL DEF Spec

\* Two fetches never write the same file: the dedup table holds every fetch
\* under way, and a file belongs to one key.
THEOREM DedupExcludes ==
    ASSUME CacheAssumption, FilesAreApart
    PROVE  Spec => []OneWriterPerFile
  <1>1. Init => IInv
    BY InitIInv
  <1>2. IInv /\ [Next]_vars => IInv'
    BY NextIInv
  <1>3. IInv => OneWriterPerFile
    BY DEF IInv, FetchesOK, OneWriterPerFile, FilesAreApart
  <1> QED BY <1>1, <1>2, <1>3, PTL DEF Spec
-----------------------------------------------------------------------------
(* The ceiling.  Only a tarball's request meets it, so what counts is who    *)
(* has passed it: with the largest file for each of those, the tarballs on   *)
(* disk and the litter stay under the ceiling and one file per connection.   *)

LEMMA BytesAreSums == \A size, S : BytesOf(size, S) = SumOf(size, S)
  BY DEF BytesOf, SumOf

Largest == Max({Size[k] : k \in Keys})
MetadataSize == SumOf(Size, Repos)
FileSize == [p \in Files |-> Size[disk[p].key]]
TempSize == [c \in Writers |-> Size[fetch[c].key]]
Tarballs == {p \in Files : disk[p].key \in Refs}

\* The clients whose request for a tarball is past the ceiling and may still write.
Taking == {c \in Clients : \/ At(c, "join") /\ req[c].key \in Refs
                           \/ fetch[c].stage # "none" /\ fetch[c].key \in Refs}

CeilingTypes == litter \in Nat /\ crashes \in Nat /\ diskErrors \in Nat
CeilingInv ==
    /\ CeilingTypes
    /\ SumOf(FileSize, Tarballs) + litter + Cardinality(Taking) * Largest
          < MaxCacheBytes + (crashes + diskErrors) * MetadataSize + Cardinality(Clients) * Largest

LEMMA LargestIs ==
    ASSUME CacheAssumption PROVE Largest \in Nat /\ \A k \in Keys : Size[k] \in Nat /\ Size[k] <= Largest
  <1>1. IsFiniteSet(Keys) /\ Keys # {} /\ \A k \in Keys : Size[k] \in Nat  BY DEF CacheAssumption
  <1>2. PICK m \in Keys : \A k \in Keys : Size[k] <= Size[m]  BY <1>1, OneIsLargest
  <1> DEFINE B == {Size[k] : k \in Keys}
  <1>3. Size[m] \in B /\ \A y \in B : Size[m] >= y  BY <1>1, <1>2
  <1>4. Max(B) \in B /\ \A y \in B : Max(B) >= y
    <2> HIDE DEF B
    <2> QED BY <1>3 DEF Max
  <1>5. Largest = Max(B)  BY DEF Largest
  <1>6. \A k \in Keys : Size[k] \in B  OBVIOUS
  <1>7. B \subseteq Nat  BY <1>1
  <1> HIDE DEF B
  <1> QED BY <1>1, <1>4, <1>5, <1>6, <1>7

LEMMA FinitePaths == ASSUME CacheAssumption PROVE IsFiniteSet(Paths)
  <1> DEFINE f == [k \in Keys |-> PathOf[k]]
  <1>1. f \in Surjection(Keys, Paths)  BY DEF Surjection, Paths
  <1>2. IsFiniteSet(Keys)  BY DEF CacheAssumption
  <1> HIDE DEF f
  <1> QED BY <1>1, <1>2, FS_Surjection

\* What the disk holds, and how much of it is metadata.
LEMMA DiskSizes ==
    ASSUME CacheAssumption, DiskOK
    PROVE  /\ IsFiniteSet(Files) /\ IsFiniteSet(Tarballs) /\ MetadataSize \in Nat
           /\ \A p \in Files : FileSize[p] \in Nat /\ FileSize[p] <= Largest
           /\ SumOf(FileSize, Tarballs) \in Nat /\ FileBytes \in Nat
           /\ SumOf(FileSize, Tarballs) <= FileBytes
           /\ FileBytes <= SumOf(FileSize, Tarballs) + MetadataSize
  <1> DEFINE Metadata == {p \in Files : disk[p].key \in Repos}
             g == [p \in Metadata |-> disk[p].key]
  <1>1. IsFiniteSet(Files) /\ IsFiniteSet(Tarballs) /\ IsFiniteSet(Metadata)
    <2>1. Files \subseteq Paths /\ Tarballs \subseteq Paths /\ Metadata \subseteq Paths
      BY DEF Files, Tarballs
    <2> QED BY <2>1, FinitePaths, FS_Subset
  <1>2. IsFiniteSet(Repos) /\ \A r \in Repos : Size[r] \in Nat
    <2>1. IsFiniteSet(Keys) /\ Repos \subseteq Keys  BY DEF CacheAssumption, Keys
    <2> QED BY <2>1, FS_Subset, LargestIs
  <1>3. ASSUME NEW p \in Files
        PROVE  /\ disk[p].key \in Keys /\ PathOf[disk[p].key] = p
               /\ FileSize[p] = Size[disk[p].key] /\ FileSize[p] \in Nat /\ FileSize[p] <= Largest
    <2>1. disk[p] \in Contents /\ PathOf[disk[p].key] = p  BY DEF DiskOK
    <2>2. disk[p].key \in Keys  BY <2>1 DEF Contents
    <2>3. FileSize[p] = Size[disk[p].key]  BY DEF FileSize
    <2> QED BY <2>1, <2>2, <2>3, LargestIs
  <1>4. MetadataSize \in Nat  BY <1>2, SumTaken DEF MetadataSize
  <1>5. FileBytes = SumOf(FileSize, Files)  BY BytesAreSums DEF FileBytes, FileSize
  <1>6. Files = Tarballs \cup Metadata /\ Tarballs \cap Metadata = {}
    <2>1. \A k \in Keys : (k \in Refs \/ k \in Repos) /\ ~(k \in Refs /\ k \in Repos)
      BY DEF Keys, CacheAssumption
    <2>2. \A p \in Files : p \in Tarballs <=> disk[p].key \in Refs  BY DEF Tarballs
    <2>3. \A p \in Files : p \in Metadata <=> disk[p].key \in Repos  OBVIOUS
    <2>4. Tarballs \subseteq Files /\ Metadata \subseteq Files  BY DEF Tarballs
    <2> HIDE DEF Metadata, Files
    <2> QED BY <1>3, <2>1, <2>2, <2>3, <2>4
  <1>7. SumOf(FileSize, Metadata) <= MetadataSize
    <2>1. ASSUME NEW p \in Metadata
          PROVE  FileSize[p] \in Nat /\ g[p] \in Repos /\ FileSize[p] <= Size[g[p]]
      <3>1. p \in Files /\ g[p] = disk[p].key /\ disk[p].key \in Repos  OBVIOUS
      <3> QED BY <1>3, <3>1
    <2>2. ASSUME NEW p \in Metadata, NEW q \in Metadata, g[p] = g[q] PROVE p = q
      <3>1. p \in Files /\ q \in Files /\ disk[p].key = disk[q].key  BY <2>2
      <3> QED BY <1>3, <3>1
    <2> HIDE DEF Metadata, g
    <2> QED BY <1>1, <1>2, <2>1, <2>2, SumInjected DEF MetadataSize
  <1>8. SumOf(FileSize, Files) = SumOf(FileSize, Tarballs) + SumOf(FileSize, Metadata)
    <2> HIDE DEF Metadata, Files
    <2> QED BY <1>1, <1>3, <1>6, SumOfTwo
  <1>9. SumOf(FileSize, Tarballs) \in Nat /\ SumOf(FileSize, Metadata) \in Nat
    <2> HIDE DEF Metadata, Files
    <2> QED BY <1>1, <1>3, <1>6, SumTaken
  <1> HIDE DEF Metadata, Files
  <1> QED BY <1>1, <1>3, <1>4, <1>5, <1>7, <1>8, <1>9

LEMMA TakingCount ==
    ASSUME CacheAssumption
    PROVE  /\ IsFiniteSet(Taking) /\ Cardinality(Taking) \in Nat /\ Cardinality(Clients) \in Nat
           /\ Cardinality(Taking) <= Cardinality(Clients)
  <1>1. IsFiniteSet(Clients) /\ Taking \subseteq Clients  BY DEF CacheAssumption, Taking
  <1> QED BY <1>1, FS_Subset, FS_CardinalityType

\* Of what is being written, metadata is at most one file per repository.
LEMMA TempFits ==
    ASSUME CacheAssumption, FetchesOK
    PROVE  TempBytes \in Nat /\ TempBytes <= Cardinality(Taking) * Largest + MetadataSize
  <1> DEFINE A == {c \in Writers : fetch[c].key \in Refs}
             B == {c \in Writers : fetch[c].key \in Repos}
             g == [c \in B |-> fetch[c].key]
  <1>1. A \subseteq Clients /\ B \subseteq Clients /\ A \subseteq Taking
    BY DEF Writers, Taking
  <1>2. IsFiniteSet(A) /\ IsFiniteSet(B)
    <2>1. IsFiniteSet(Clients)  BY DEF CacheAssumption
    <2> QED BY <1>1, <2>1, FS_Subset
  <1>3. ASSUME NEW c \in Writers
        PROVE  /\ fetch[c].key \in Keys /\ inFlight[fetch[c].key] = c
               /\ TempSize[c] = Size[fetch[c].key] /\ TempSize[c] \in Nat /\ TempSize[c] <= Largest
    <2>1. c \in Clients /\ fetch[c].stage # "none"  BY DEF Writers
    <2>2. fetch[c].key \in Keys /\ inFlight[fetch[c].key] = c  BY <2>1 DEF FetchesOK
    <2>3. TempSize[c] = Size[fetch[c].key]  BY DEF TempSize
    <2> QED BY <2>2, <2>3, LargestIs
  <1>4. Writers = A \cup B /\ A \cap B = {}
    <2>1. \A k \in Keys : (k \in Refs \/ k \in Repos) /\ ~(k \in Refs /\ k \in Repos)
      BY DEF Keys, CacheAssumption
    <2> QED BY <1>3, <2>1
  <1>5. TempBytes = SumOf(TempSize, A) + SumOf(TempSize, B)
    <2>1. TempBytes = SumOf(TempSize, Writers)  BY BytesAreSums DEF TempBytes, TempSize
    <2> HIDE DEF A, B
    <2> QED BY <1>2, <1>3, <1>4, <2>1, SumOfTwo
  <1>6. SumOf(TempSize, A) \in Nat /\ SumOf(TempSize, B) \in Nat
    <2> HIDE DEF A, B
    <2> QED BY <1>2, <1>3, <1>4, SumTaken
  <1>7. SumOf(TempSize, A) <= Cardinality(Taking) * Largest
    <2>1. Cardinality(A) \in Nat /\ Cardinality(A) <= Cardinality(Taking)
      <3> HIDE DEF A
      <3> QED BY <1>1, <1>2, TakingCount, FS_Subset, FS_CardinalityType
    <2>2. SumOf(TempSize, A) <= Cardinality(A) * Largest
      <3>1. \A c \in A : TempSize[c] \in Nat /\ TempSize[c] <= Largest  BY <1>3
      <3> HIDE DEF A
      <3> QED BY <1>2, <3>1, LargestIs, SumAtMost
    <2>3. \A m, n, x \in Nat : m <= n => m * x <= n * x /\ m * x \in Nat /\ n * x \in Nat
      OBVIOUS
    <2> DEFINE m == Cardinality(A)
               n == Cardinality(Taking)
    <2>4. m * Largest <= n * Largest /\ m * Largest \in Nat /\ n * Largest \in Nat
      BY <2>1, <2>3, LargestIs, TakingCount
    <2> HIDE DEF A
    <2> QED BY <1>6, <2>2, <2>4
  <1>8. SumOf(TempSize, B) <= MetadataSize
    <2>1. IsFiniteSet(Repos) /\ \A r \in Repos : Size[r] \in Nat
      <3>1. IsFiniteSet(Keys) /\ Repos \subseteq Keys  BY DEF CacheAssumption, Keys
      <3> QED BY <3>1, FS_Subset, LargestIs
    <2>2. ASSUME NEW c \in B
          PROVE  TempSize[c] \in Nat /\ g[c] \in Repos /\ TempSize[c] <= Size[g[c]]
      <3>1. c \in Writers /\ g[c] = fetch[c].key /\ fetch[c].key \in Repos  OBVIOUS
      <3> QED BY <1>3, <3>1
    <2>3. ASSUME NEW c \in B, NEW d \in B, g[c] = g[d] PROVE c = d
      <3>1. c \in Writers /\ d \in Writers /\ fetch[c].key = fetch[d].key  BY <2>3
      <3> QED BY <1>3, <3>1
    <2> HIDE DEF B, g
    <2> QED BY <1>2, <2>1, <2>2, <2>3, SumInjected DEF MetadataSize
  <1>9. MetadataSize \in Nat /\ Cardinality(Taking) * Largest \in Nat
    <2>1. IsFiniteSet(Repos) /\ \A r \in Repos : Size[r] \in Nat
      <3>1. IsFiniteSet(Keys) /\ Repos \subseteq Keys  BY DEF CacheAssumption, Keys
      <3> QED BY <3>1, FS_Subset, LargestIs
    <2> QED BY <2>1, SumTaken, LargestIs, TakingCount DEF MetadataSize
  <1> HIDE DEF A, B
  <1> QED BY <1>5, <1>6, <1>7, <1>8, <1>9

\* Fewer clients write, or one more crash or error is allowed for.
LEMMA CeilingRests ==
    ASSUME CacheAssumption, DiskOK, CeilingInv, UNCHANGED <<disk, litter>>, Taking' \subseteq Taking,
           crashes' \in Nat, diskErrors' \in Nat, crashes <= crashes', diskErrors <= diskErrors'
    PROVE  CeilingInv'
  <1> DEFINE n == Cardinality(Taking)
             m == Cardinality(Taking')
             e == crashes + diskErrors
             f == crashes' + diskErrors'
  <1>1. m \in Nat /\ n \in Nat /\ m <= n
    <2>1. IsFiniteSet(Taking)  BY TakingCount
    <2>2. IsFiniteSet(Taking') /\ m <= n  BY <2>1, FS_Subset
    <2> QED BY <2>1, <2>2, FS_CardinalityType
  <1>2. e \in Nat /\ f \in Nat /\ e <= f
    <2>1. crashes \in Nat /\ diskErrors \in Nat  BY DEF CeilingInv, CeilingTypes
    <2>2. \A a, b, i, j \in Nat : a <= i /\ b <= j => a + b \in Nat /\ i + j \in Nat /\ a + b <= i + j
      OBVIOUS
    <2>3. crashes' \in Nat /\ diskErrors' \in Nat /\ crashes <= crashes' /\ diskErrors <= diskErrors'
      OBVIOUS
    <2> QED BY <2>1, <2>2, <2>3
  <1>3. Largest \in Nat /\ MetadataSize \in Nat  BY LargestIs, DiskSizes
  <1>4. SumOf(FileSize, Tarballs)' = SumOf(FileSize, Tarballs)
    BY DEF FileSize, Tarballs, Files
  <1>5. (Largest' = Largest) /\ (MetadataSize' = MetadataSize)
    BY DEF Largest, MetadataSize
  <1>6. SumOf(FileSize, Tarballs) \in Nat /\ litter \in Nat  BY DiskSizes DEF CeilingInv, CeilingTypes
  <1>7. SumOf(FileSize, Tarballs) + litter + n * Largest
           < MaxCacheBytes + e * MetadataSize + Cardinality(Clients) * Largest
    BY DEF CeilingInv
  <1>8. \A i, j, x \in Nat : i <= j => i * x <= j * x /\ i * x \in Nat /\ j * x \in Nat  OBVIOUS
  <1>9. m * Largest <= n * Largest /\ m * Largest \in Nat /\ n * Largest \in Nat
    <2> HIDE DEF m, n
    <2> QED BY <1>1, <1>3, <1>8
  <1>10. e * MetadataSize <= f * MetadataSize /\ e * MetadataSize \in Nat /\ f * MetadataSize \in Nat
    <2> HIDE DEF e, f
    <2> QED BY <1>2, <1>3, <1>8
  <1>11. MaxCacheBytes \in Nat /\ Cardinality(Clients) * Largest \in Nat
    BY <1>3, TakingCount DEF CacheAssumption
  <1> HIDE DEF m, n, e, f
  <1>12. SumOf(FileSize, Tarballs) + litter + m * Largest
            < MaxCacheBytes + f * MetadataSize + Cardinality(Clients) * Largest
    BY <1>6, <1>7, <1>9, <1>10, <1>11
  <1>13. CeilingTypes'  BY DEF CeilingInv, CeilingTypes
  <1>14. SumOf(FileSize, Tarballs)' + litter' + m * Largest'
            < MaxCacheBytes + f * MetadataSize' + Cardinality(Clients) * Largest'
    BY <1>4, <1>5, <1>12
  <1> QED BY <1>13, <1>14 DEF CeilingInv, m, f

\* Whoever passes the ceiling found the cache under it.
LEMMA MeasureKeeps ==
    ASSUME CacheAssumption, DiskOK, DiskOK', FetchesOK, RequestsTyped, CeilingInv, NEW c \in Clients, Measure(c)
    PROVE  CeilingInv'
  <1> DEFINE n == Cardinality(Taking)
             e == crashes + diskErrors
  <1>1. UNCHANGED <<disk, litter, fetch, crashes, diskErrors>>  BY DEF Measure
  <1>2. PICK part \in 0 .. TempBytes :
           Move(c, IF FileBytes + litter + part >= MaxCacheBytes THEN "bypass" ELSE "join")
    BY DEF Measure
  <1>3. CASE FileBytes + litter + part >= MaxCacheBytes
    <2>1. Taking' \subseteq Taking  BY <1>1, <1>2, <1>3 DEF Taking, Measure, RequestsTyped, RequestType
    <2> QED BY <1>1, <2>1, CeilingRests DEF CeilingInv, CeilingTypes
  <1>4. CASE ~(FileBytes + litter + part >= MaxCacheBytes)
    <2>1. SumOf(FileSize, Tarballs)' = SumOf(FileSize, Tarballs)
      BY <1>1 DEF FileSize, Tarballs, Files
    <2>2. part \in Nat /\ litter \in Nat /\ MaxCacheBytes \in Nat /\ e \in Nat
      BY <1>2, TempFits DEF CeilingInv, CeilingTypes, CacheAssumption
    <2>3. SumOf(FileSize, Tarballs) + litter < MaxCacheBytes
      <3>1. SumOf(FileSize, Tarballs) \in Nat /\ FileBytes \in Nat
            /\ SumOf(FileSize, Tarballs) <= FileBytes
        BY DiskSizes
      <3> QED BY <1>4, <2>2, <3>1
    <2>4. /\ Cardinality(Taking)' \in Nat /\ Cardinality(Clients) \in Nat
          /\ Cardinality(Taking)' <= Cardinality(Clients)
      <3>1. IsFiniteSet(Clients) /\ Taking' \subseteq Clients  BY DEF CacheAssumption, Taking
      <3> QED BY <3>1, FS_Subset, FS_CardinalityType
    <2>5. Largest \in Nat /\ MetadataSize \in Nat /\ SumOf(FileSize, Tarballs) \in Nat
      BY LargestIs, DiskSizes
    <2>6. \A i, j, x \in Nat : i <= j => i * x <= j * x /\ i * x \in Nat /\ j * x \in Nat  OBVIOUS
    <2> DEFINE m == Cardinality(Taking)'
               N == Cardinality(Clients)
    <2>7. m * Largest <= N * Largest /\ m * Largest \in Nat /\ N * Largest \in Nat
      <3> HIDE DEF m, N
      <3>1. m \in Nat /\ N \in Nat /\ m <= N  BY <2>4 DEF m, N
      <3> QED BY <2>5, <2>6, <3>1
    <2>8. e * MetadataSize \in Nat
      <3> HIDE DEF e
      <3> QED BY <2>2, <2>5
    <2> HIDE DEF m, N, e
    <2>9. SumOf(FileSize, Tarballs) + litter + m * Largest
             < MaxCacheBytes + e * MetadataSize + N * Largest
      BY <2>2, <2>3, <2>5, <2>7, <2>8
    <2>10. (Largest' = Largest) /\ (MetadataSize' = MetadataSize)  BY DEF Largest, MetadataSize
    <2>11. CeilingTypes'  BY <1>1 DEF CeilingInv, CeilingTypes
    <2>12. SumOf(FileSize, Tarballs)' + litter' + m * Largest'
              < MaxCacheBytes + (crashes' + diskErrors') * MetadataSize' + N * Largest'
      BY <1>1, <2>1, <2>9, <2>10 DEF e
    <2> QED BY <2>11, <2>12 DEF CeilingInv, m, N
  <1> QED BY <1>3, <1>4

\* The other steps of handlers begin no writing, but for a leader who was past the ceiling.
LEMMA HandlerUnderCeiling ==
    ASSUME CacheAssumption, MaxCacheBytes > 0, IInv, CeilingInv, NEW c \in Clients, Handler(c)
    PROVE  CeilingInv'
  <1>1. /\ crashes \in Nat /\ diskErrors \in Nat /\ DiskOK
        /\ \A d \in Clients : req[d].at \in Suspended => req[d].key \in Keys
        /\ Repos \cap Refs = {}
    BY DEF CeilingInv, CeilingTypes, IInv, RequestsOK, CacheAssumption
  <1>2. ASSUME NEW place \in {"hit", "measure", "join"}, Move(c, place), UNCHANGED fetch,
               place = "join" => req[c].key \notin Refs
        PROVE  Taking' \subseteq Taking
    BY <1>2 DEF Taking, IInv, RequestsTyped, RequestType
  <1>a. ASSUME Announce(c), UNCHANGED fetch PROVE Taking' \subseteq Taking
    BY <1>a DEF Announce, Taking, IInv, RequestsTyped, RequestType
  <1>3. CASE Stat(c)
    <2>1. UNCHANGED <<disk, litter, fetch, crashes, diskErrors>>  BY <1>3 DEF Stat
    <2>2. \/ \E place \in {"hit", "measure", "join"} :
                Move(c, place) /\ (place = "join" => req[c].key \notin Refs)
          \/ Announce(c)
      BY <1>1, <1>3 DEF Stat, InCache
    <2>3. Taking' \subseteq Taking  BY <1>2, <1>a, <2>1, <2>2
    <2> QED BY <1>1, <2>1, <2>3, CeilingRests
  <1>4. CASE ServeHit(c) \/ Bypass(c) \/ ServeScoped(c) \/ ServeMiss(c) \/ Open(c)
    <2>1. UNCHANGED <<disk, litter, fetch, crashes, diskErrors>>
      BY <1>4 DEF ServeHit, Bypass, ServeScoped, ServeMiss, Open
    <2>2. (\E b : Answer(c, b)) \/ Refuse(c) \/ Move(c, "hung") \/ Announce(c)
      BY <1>4 DEF ServeHit, Bypass, ServeScoped, ServeMiss, Open
    <2>3. (\E b : Answer(c, b)) \/ Refuse(c) \/ Move(c, "hung") => Taking' \subseteq Taking
      BY <2>1 DEF Taking, IInv, RequestsTyped, RequestType
    <2>4. Taking' \subseteq Taking  BY <1>a, <2>1, <2>2, <2>3
    <2> QED BY <1>1, <2>1, <2>4, CeilingRests
  <1>5. CASE HitUnreadable(c)
    <2>1. Taking' \subseteq Taking  BY <1>1, <1>2, <1>5 DEF HitUnreadable
    <2>2. diskErrors' \in Nat /\ diskErrors <= diskErrors'  BY <1>1, <1>5 DEF HitUnreadable
    <2> QED BY <1>1, <1>5, <2>1, <2>2, CeilingRests DEF HitUnreadable
  <1>6. CASE Measure(c)
    <2>1. DiskOK'  BY <1>1, <1>6 DEF Measure, DiskOK
    <2> QED BY <1>6, <2>1, MeasureKeeps DEF IInv
  <1>7. CASE Join(c)
    <2>1. UNCHANGED <<disk, litter, crashes, diskErrors>> /\ At(c, "join")  BY <1>7 DEF Join
    <2>2. \A d \in Clients : d # c => req'[d] = req[d] /\ fetch'[d] = fetch[d]
      BY <1>7 DEF Join, IInv, RequestsTyped, RequestType, FetchesOK
    <2>3. req'[c].at = "waiting" /\ (fetch'[c] = fetch[c] \/ fetch'[c].key = req[c].key)
      BY <1>7 DEF Join, IInv, RequestsTyped, RequestType, FetchesOK
    <2>4. fetch[c].stage = "none"  BY <2>1 DEF IInv, LeadersOK
    <2>5. Taking' \subseteq Taking
      <3>1. ASSUME NEW d \in Taking' PROVE d \in Taking
        <4>1. d \in Clients /\ \/ req'[d].at = "join" /\ req'[d].key \in Refs
                               \/ fetch'[d].stage # "none" /\ fetch'[d].key \in Refs
          BY DEF Taking
        <4>2. CASE d # c  BY <2>2, <4>1, <4>2 DEF Taking
        <4>3. CASE d = c  BY <2>1, <2>3, <2>4, <4>1, <4>3 DEF Taking
        <4> QED BY <4>2, <4>3
      <3> QED BY <3>1
    <2> QED BY <1>1, <2>1, <2>5, CeilingRests
  <1> QED BY <1>3, <1>4, <1>5, <1>6, <1>7 DEF Handler

\* A fetch that settles takes its leader out of those that may write.
LEMMA SettledTaking ==
    ASSUME IInv, NEW l \in Clients, NEW ok, fetch[l].stage # "none", Settle(l, ok)
    PROVE  Taking' \subseteq Taking \ {l}
  <1>1. req[l].at = "waiting" /\ req[l].leader = l  BY DEF IInv, LeadersOK
  <1>2. l \in Waiting(l)  BY <1>1 DEF Waiting
  <1>3. ASSUME NEW c \in Clients
        PROVE  /\ req'[c].at = "join" => c # l /\ req'[c] = req[c]
               /\ fetch'[c].stage # "none" => c # l /\ fetch'[c] = fetch[c]
    <2>1. \/ c \notin Waiting(l) /\ req'[c] = req[c]
          \/ req'[c] = [req[c] EXCEPT !.at = "failed"]
          \/ req'[c] = [req[c] EXCEPT !.at = "ok", !.body = fetch[l].content]
          \/ req'[c] = [req[c] EXCEPT !.at = "miss"]
      BY DEF Settle
    <2>2. req'[c].at = "join" => c # l /\ req'[c] = req[c]
      BY <1>2, <2>1 DEF IInv, RequestsTyped, RequestType
    <2>3. fetch'[c].stage # "none" => c # l /\ fetch'[c] = fetch[c]
      BY DEF Settle, NoFetch, IInv, FetchesOK
    <2> QED BY <2>2, <2>3
  <1>4. ASSUME NEW c \in Taking' PROVE c \in Taking \ {l}
    <2>1. c \in Clients /\ \/ req'[c].at = "join" /\ req'[c].key \in Refs
                           \/ fetch'[c].stage # "none" /\ fetch'[c].key \in Refs
      BY DEF Taking
    <2> QED BY <1>3, <2>1 DEF Taking
  <1> QED BY <1>4

\* A tarball that is whole takes the place of one client's allowance.
LEMMA TarballDone ==
    ASSUME CacheAssumption, IInv, DiskOK', CeilingInv, NEW l \in Clients, FetchDone(l), fetch[l].key \in Refs
    PROVE  CeilingInv'
  <1> DEFINE p == PathOf[fetch[l].key]
             old == SumOf(FileSize, Tarballs)
             new == SumOf(FileSize, Tarballs)'
             n == Cardinality(Taking)
             m == Cardinality(Taking')
             rest == MaxCacheBytes + (crashes + diskErrors) * MetadataSize + Cardinality(Clients) * Largest
  <1>1. /\ fetch[l].stage = "writing" /\ disk' = [disk EXCEPT ![p] = fetch[l].content]
        /\ Settle(l, TRUE) /\ UNCHANGED <<litter, crashes, diskErrors>>
    BY DEF FetchDone
  <1>2. /\ fetch[l].key \in Keys /\ p \in Paths /\ fetch[l].content \in Contents
        /\ fetch[l].content.key = fetch[l].key /\ fetch[l].content # None
    BY <1>1, FileOf DEF IInv, FetchesOK, Faithful, CacheAssumption
  <1>3. /\ disk'[p] = fetch[l].content
        /\ \A q \in Paths : q # p => disk'[q] = disk[q]
    BY <1>1, <1>2 DEF IInv, DiskOK
  <1>4. /\ IsFiniteSet(Tarballs) /\ old \in Nat
        /\ \A q \in Tarballs : FileSize[q] \in Nat
    <2>1. \A q \in Files : FileSize[q] \in Nat  BY DiskSizes DEF IInv
    <2> QED BY <2>1, DiskSizes DEF IInv, Tarballs
  <1>5. /\ IsFiniteSet(Tarballs') /\ \A q \in Tarballs' : FileSize'[q] \in Nat
        /\ Tarballs' \subseteq Paths
    <2>1. ASSUME NEW q \in Tarballs' PROVE q \in Paths /\ FileSize'[q] \in Nat
      <3>1. q \in Paths /\ disk'[q] # None  BY DEF Tarballs, Files
      <3>2. disk'[q].key \in Keys  BY <3>1 DEF DiskOK, Contents
      <3>3. FileSize'[q] = Size[disk'[q].key]  BY <3>1 DEF FileSize, Files
      <3> QED BY <3>1, <3>2, <3>3, LargestIs
    <2>2. Tarballs' \subseteq Paths  BY <2>1
    <2> QED BY <2>1, <2>2, FinitePaths, FS_Subset
  <1>6. p \in Tarballs' /\ FileSize'[p] <= Largest
    <2>1. p \in Tarballs'  BY <1>2, <1>3 DEF Tarballs, Files
    <2>2. FileSize'[p] = Size[fetch[l].key]  BY <1>2, <1>3 DEF FileSize, Files
    <2> QED BY <1>2, <2>1, <2>2, LargestIs
  <1>7. new = FileSize'[p] + SumOf(FileSize', Tarballs' \ {p})
    <2>1. new = SumOf(FileSize', Tarballs')  BY DEF FileSize, Tarballs, Files
    <2> QED BY <1>5, <1>6, <2>1, SumTaken
  <1>8. SumOf(FileSize', Tarballs' \ {p}) <= old
    <2>1. ASSUME NEW q \in Tarballs' \ {p}
          PROVE  q \in Tarballs /\ FileSize'[q] = FileSize[q]
      <3>1. q \in Paths /\ q # p /\ disk'[q] = disk[q]  BY <1>3, <1>5
      <3>2. disk'[q] # None /\ disk'[q].key \in Refs  BY DEF Tarballs, Files
      <3>3. q \in Tarballs  BY <3>1, <3>2 DEF Tarballs, Files
      <3>4. FileSize'[q] = Size[disk'[q].key]  BY <3>1, <3>2 DEF FileSize, Files
      <3>5. FileSize[q] = Size[disk[q].key]  BY <3>1, <3>2 DEF FileSize, Files
      <3> QED BY <3>1, <3>3, <3>4, <3>5
    <2>2. Tarballs' \ {p} \subseteq Tarballs  BY <2>1
    <2>3. \A q \in Tarballs' \ {p} : FileSize'[q] \in Nat /\ FileSize'[q] <= FileSize[q]
      BY <1>4, <2>1
    <2> DEFINE S == Tarballs' \ {p}
               w == FileSize'
    <2> HIDE DEF S, w
    <2>4. S \subseteq Tarballs /\ \A q \in S : w[q] \in Nat /\ w[q] <= FileSize[q]
      BY <2>2, <2>3 DEF S, w
    <2>5. SumOf(w, S) <= SumOf(FileSize, Tarballs)  BY <1>4, <2>4, SumGrows
    <2> QED BY <2>5 DEF S, w
  <1>9. SumOf(FileSize', Tarballs' \ {p}) \in Nat /\ FileSize'[p] \in Nat
    <2> DEFINE S == Tarballs' \ {p}
               w == FileSize'
    <2>1. IsFiniteSet(S) /\ \A q \in S : w[q] \in Nat  BY <1>5, FS_RemoveElement
    <2> HIDE DEF S, w
    <2>2. SumOf(w, S) \in Nat  BY <2>1, SumTaken
    <2> QED BY <1>5, <1>6, <2>2 DEF S, w
  <1>10. n \in Nat /\ m \in Nat /\ m + 1 <= n
    <2>1. IsFiniteSet(Taking) /\ n \in Nat  BY TakingCount
    <2>2. l \in Taking  BY <1>1 DEF Taking
    <2>3. Taking' \subseteq Taking \ {l}  BY <1>1, SettledTaking
    <2>4. IsFiniteSet(Taking \ {l}) /\ Cardinality(Taking \ {l}) = n - 1
      BY <2>1, <2>2, FS_RemoveElement
    <2>5. IsFiniteSet(Taking') /\ m <= n - 1  BY <2>3, <2>4, FS_Subset
    <2>6. m \in Nat  BY <2>5, FS_CardinalityType
    <2> HIDE DEF m, n
    <2> QED BY <2>1, <2>5, <2>6
  <1>11. Largest \in Nat /\ litter \in Nat /\ rest \in Nat
    <2>1. /\ Largest \in Nat /\ MetadataSize \in Nat /\ MaxCacheBytes \in Nat
          /\ Cardinality(Clients) \in Nat /\ crashes \in Nat /\ diskErrors \in Nat
      BY LargestIs, DiskSizes, TakingCount DEF IInv, CacheAssumption, CeilingInv, CeilingTypes
    <2>2. \A i, j \in Nat : i * j \in Nat /\ i + j \in Nat  OBVIOUS
    <2>3. (crashes + diskErrors) * MetadataSize \in Nat /\ Cardinality(Clients) * Largest \in Nat
      BY <2>1, <2>2
    <2> QED BY <2>1, <2>2, <2>3 DEF CeilingInv, CeilingTypes
  <1>12. old + litter + n * Largest < rest  BY DEF CeilingInv
  <1>13. m * Largest + Largest <= n * Largest /\ m * Largest \in Nat /\ n * Largest \in Nat
    <2>1. \A i, j, x \in Nat : i + 1 <= j => i * x + x <= j * x /\ i * x \in Nat /\ j * x \in Nat
      OBVIOUS
    <2> HIDE DEF m, n
    <2> QED BY <1>10, <1>11, <2>1
  <1>14. new + litter + m * Largest < rest
    <2> HIDE DEF m, n, old, new, rest, p
    <2> QED BY <1>4, <1>6, <1>7, <1>8, <1>9, <1>11, <1>12, <1>13
  <1>15. (Largest' = Largest) /\ (MetadataSize' = MetadataSize)  BY DEF Largest, MetadataSize
  <1>16. CeilingTypes'  BY <1>1 DEF CeilingInv, CeilingTypes
  <1>17. new + litter' + m * Largest'
            < MaxCacheBytes + (crashes' + diskErrors') * MetadataSize' + Cardinality(Clients) * Largest'
    BY <1>1, <1>14, <1>15
  <1> QED BY <1>16, <1>17 DEF CeilingInv

\* Metadata changes no tarball.
LEMMA MetadataDone ==
    ASSUME CacheAssumption, IInv, CeilingInv, NEW l \in Clients, FetchDone(l), fetch[l].key \in Repos
    PROVE  CeilingInv'
  <1> DEFINE p == PathOf[fetch[l].key]
  <1>1. /\ fetch[l].stage = "writing" /\ disk' = [disk EXCEPT ![p] = fetch[l].content]
        /\ Settle(l, TRUE) /\ UNCHANGED <<litter, crashes, diskErrors>>
    BY DEF FetchDone
  <1>2. /\ fetch[l].key \in Keys /\ p \in Paths /\ fetch[l].content \in Contents
        /\ fetch[l].content.key = fetch[l].key
    BY <1>1, FileOf DEF IInv, FetchesOK, Faithful
  <1>3. /\ disk'[p] = fetch[l].content
        /\ \A q \in Paths : q # p => disk'[q] = disk[q]
    BY <1>1, <1>2 DEF IInv, DiskOK
  <1>4. disk'[p].key \notin Refs /\ (disk[p] # None => disk[p].key \notin Refs)
    <2>1. \A k \in Keys : k # fetch[l].key => PathOf[k] # p  BY DEF CacheAssumption
    <2>2. disk[p] # None => disk[p].key \in Keys /\ PathOf[disk[p].key] = p
      BY <1>2 DEF IInv, DiskOK, Contents
    <2> QED BY <1>2, <1>3, <2>1, <2>2 DEF CacheAssumption
  <1>5. \A q : q \in Tarballs' <=> q \in Tarballs  BY <1>3, <1>4 DEF Tarballs, Files
  <1>6. \A q \in Tarballs : disk'[q] = disk[q] /\ q \in Files /\ q \in Files'
    BY <1>3, <1>4, <1>5 DEF Tarballs, Files
  <1>7. IsFiniteSet(Tarballs) /\ \A q \in Tarballs : FileSize[q] \in Nat
    <2>1. IsFiniteSet(Tarballs) /\ \A q \in Files : FileSize[q] \in Nat  BY DiskSizes DEF IInv
    <2> QED BY <1>6, <2>1
  <1>8. \A q \in Tarballs : FileSize'[q] = FileSize[q]  BY <1>6 DEF FileSize
  <1>9. SumOf(FileSize, Tarballs)' <= SumOf(FileSize, Tarballs)
        /\ SumOf(FileSize, Tarballs)' \in Nat /\ SumOf(FileSize, Tarballs) \in Nat
    <2> DEFINE w == FileSize'
    <2>1. \A q \in Tarballs : w[q] \in Nat /\ w[q] <= FileSize[q]  BY <1>7, <1>8
    <2>2. Tarballs' = Tarballs  BY <1>5
    <2>3. SumOf(FileSize, Tarballs)' = SumOf(w, Tarballs)
      <3>1. SumOf(FileSize, Tarballs)' = SumOf(w, Tarballs')  BY DEF FileSize, Tarballs, Files
      <3> QED BY <2>2, <3>1
    <2> HIDE DEF w
    <2>4. SumOf(w, Tarballs) <= SumOf(FileSize, Tarballs)  BY <1>7, <2>1, SumGrows
    <2>5. SumOf(w, Tarballs) \in Nat /\ SumOf(FileSize, Tarballs) \in Nat
      BY <1>7, <2>1, SumTaken
    <2> QED BY <2>3, <2>4, <2>5
  <1>10. Taking' \subseteq Taking  BY <1>1, SettledTaking
  <1>11. /\ Cardinality(Taking) * Largest \in Nat /\ Cardinality(Taking') * Largest \in Nat
         /\ Cardinality(Taking') * Largest <= Cardinality(Taking) * Largest
    <2>1. IsFiniteSet(Taking) /\ Cardinality(Taking) \in Nat  BY TakingCount
    <2>2. IsFiniteSet(Taking') /\ Cardinality(Taking') <= Cardinality(Taking)
      BY <1>10, <2>1, FS_Subset
    <2>3. Cardinality(Taking') \in Nat  BY <2>2, FS_CardinalityType
    <2>4. \A i, j, x \in Nat : i <= j => i * x <= j * x /\ i * x \in Nat /\ j * x \in Nat  OBVIOUS
    <2> QED BY <2>1, <2>2, <2>3, <2>4, LargestIs
  <1>12. /\ (Largest' = Largest) /\ (MetadataSize' = MetadataSize)
         /\ litter \in Nat /\ (litter' = litter) /\ (crashes' = crashes) /\ (diskErrors' = diskErrors)
    BY <1>1 DEF Largest, MetadataSize, CeilingInv, CeilingTypes
  <1> DEFINE rest == MaxCacheBytes + (crashes + diskErrors) * MetadataSize + Cardinality(Clients) * Largest
  <1>13. rest \in Nat
    <2>1. /\ Largest \in Nat /\ MetadataSize \in Nat /\ MaxCacheBytes \in Nat
          /\ Cardinality(Clients) \in Nat /\ crashes \in Nat /\ diskErrors \in Nat
      BY LargestIs, DiskSizes, TakingCount DEF IInv, CacheAssumption, CeilingInv, CeilingTypes
    <2>2. \A i, j \in Nat : i * j \in Nat /\ i + j \in Nat  OBVIOUS
    <2>3. (crashes + diskErrors) * MetadataSize \in Nat /\ Cardinality(Clients) * Largest \in Nat
      BY <2>1, <2>2
    <2> QED BY <2>1, <2>2, <2>3
  <1>14. SumOf(FileSize, Tarballs) + litter + Cardinality(Taking) * Largest < rest
    BY DEF CeilingInv
  <1>15. SumOf(FileSize, Tarballs)' + litter + Cardinality(Taking') * Largest < rest
    <2> HIDE DEF rest
    <2> DEFINE a == SumOf(FileSize, Tarballs)
               b == SumOf(FileSize, Tarballs)'
               i == Cardinality(Taking) * Largest
               j == Cardinality(Taking') * Largest
    <2>1. a \in Nat /\ b \in Nat /\ b <= a /\ i \in Nat /\ j \in Nat /\ j <= i /\ a + litter + i < rest
      BY <1>9, <1>11, <1>14
    <2> HIDE DEF a, b, i, j
    <2>2. b + litter + j < rest  BY <1>12, <1>13, <2>1
    <2> QED BY <2>2 DEF b, j
  <1>16. SumOf(FileSize, Tarballs)' + litter' + Cardinality(Taking') * Largest'
            < MaxCacheBytes + (crashes' + diskErrors') * MetadataSize' + Cardinality(Clients) * Largest'
    BY <1>12, <1>15
  <1>17. CeilingTypes'  BY <1>1 DEF CeilingInv, CeilingTypes
  <1> QED BY <1>16, <1>17 DEF CeilingInv

\* One more crash or error allows for each repository's file once more.
LEMMA AllowanceGrows ==
    ASSUME CacheAssumption, DiskOK, CeilingInv, NEW a \in Nat, NEW b \in Nat,
           a + b = crashes + diskErrors + 1
    PROVE  MaxCacheBytes + (a + b) * MetadataSize + Cardinality(Clients) * Largest
             = MaxCacheBytes + (crashes + diskErrors) * MetadataSize + Cardinality(Clients) * Largest
                 + MetadataSize
  <1>1. crashes \in Nat /\ diskErrors \in Nat  BY DEF CeilingInv, CeilingTypes
  <1>2. MetadataSize \in Nat /\ MaxCacheBytes \in Nat /\ Largest \in Nat /\ Cardinality(Clients) \in Nat
    BY DiskSizes, LargestIs, TakingCount DEF CacheAssumption
  <1> DEFINE e == crashes + diskErrors
             y == Cardinality(Clients) * Largest
  <1>3. e \in Nat  BY <1>1
  <1>4. y \in Nat
    <2>1. \A i, j \in Nat : i * j \in Nat  OBVIOUS
    <2> QED BY <1>2, <2>1
  <1>5. a + b = e + 1  OBVIOUS
  <1> HIDE DEF e, y
  <1>6. (e + 1) * MetadataSize = e * MetadataSize + MetadataSize /\ e * MetadataSize \in Nat
    BY <1>2, <1>3
  <1>7. MaxCacheBytes + (a + b) * MetadataSize + y
          = MaxCacheBytes + e * MetadataSize + y + MetadataSize
    BY <1>2, <1>4, <1>5, <1>6
  <1> QED BY <1>7 DEF e, y

\* A write of metadata that fails leaves one file of one repository.
LEMMA UnwritableKeeps ==
    ASSUME CacheAssumption, IInv, CeilingInv, NEW l \in Clients, FetchUnwritable(l)
    PROVE  CeilingInv'
  <1> DEFINE tar == SumOf(FileSize, Tarballs)
             i == Cardinality(Taking) * Largest
             j == Cardinality(Taking') * Largest
             room == MaxCacheBytes + (crashes + diskErrors) * MetadataSize + Cardinality(Clients) * Largest
             size == Size[fetch[l].key]
  <1>1. /\ fetch[l].stage = "writing" /\ fetch[l].key \in Repos /\ Settle(l, FALSE)
        /\ litter' = litter + size /\ diskErrors' = diskErrors + 1 /\ UNCHANGED <<disk, crashes>>
    BY DEF FetchUnwritable
  <1>2. litter \in Nat /\ crashes \in Nat /\ diskErrors \in Nat  BY DEF CeilingInv, CeilingTypes
  <1>3. size \in Nat /\ size <= MetadataSize
    <2>1. IsFiniteSet(Repos) /\ \A r \in Repos : Size[r] \in Nat
      <3>1. IsFiniteSet(Keys) /\ Repos \subseteq Keys  BY DEF CacheAssumption, Keys
      <3> QED BY <3>1, FS_Subset, LargestIs
    <2>2. MetadataSize = size + SumOf(Size, Repos \ {fetch[l].key})
      BY <1>1, <2>1, SumTaken DEF MetadataSize
    <2>3. SumOf(Size, Repos \ {fetch[l].key}) \in Nat
      <3>1. IsFiniteSet(Repos \ {fetch[l].key})  BY <2>1, FS_RemoveElement
      <3> QED BY <2>1, <3>1, SumTaken
    <2>4. size \in Nat  BY <1>1, <2>1
    <2> HIDE DEF size
    <2> QED BY <2>2, <2>3, <2>4
  <1>4. Taking' \subseteq Taking  BY <1>1, SettledTaking
  <1>5. i \in Nat /\ j \in Nat /\ j <= i
    <2>1. IsFiniteSet(Taking) /\ Cardinality(Taking) \in Nat  BY TakingCount
    <2>2. IsFiniteSet(Taking') /\ Cardinality(Taking') <= Cardinality(Taking)
      BY <1>4, <2>1, FS_Subset
    <2>3. Cardinality(Taking') \in Nat  BY <2>2, FS_CardinalityType
    <2>4. \A a, b, x \in Nat : a <= b => a * x <= b * x /\ a * x \in Nat /\ b * x \in Nat  OBVIOUS
    <2> QED BY <2>1, <2>2, <2>3, <2>4, LargestIs
  <1>6. tar \in Nat /\ MetadataSize \in Nat  BY DiskSizes DEF IInv
  <1>7. tar + litter + i < room  BY DEF CeilingInv
  <1>8. room \in Nat
    <2>1. Largest \in Nat /\ MaxCacheBytes \in Nat /\ Cardinality(Clients) \in Nat
      BY LargestIs, TakingCount DEF CacheAssumption
    <2>2. \A a, b \in Nat : a * b \in Nat /\ a + b \in Nat  OBVIOUS
    <2>3. (crashes + diskErrors) * MetadataSize \in Nat /\ Cardinality(Clients) * Largest \in Nat
      BY <1>2, <1>6, <2>1, <2>2
    <2> QED BY <1>6, <2>1, <2>2, <2>3
  <1>9. tar + (litter + size) + j < room + MetadataSize
    <2> HIDE DEF tar, i, j, room, size
    <2> QED BY <1>2, <1>3, <1>5, <1>6, <1>7, <1>8
  <1>10. MaxCacheBytes + (crashes' + diskErrors') * MetadataSize + Cardinality(Clients) * Largest
           = room + MetadataSize
    <2>1. crashes' \in Nat /\ diskErrors' \in Nat /\ crashes' + diskErrors' = crashes + diskErrors + 1
      BY <1>1, <1>2
    <2> QED BY <2>1, AllowanceGrows DEF IInv
  <1>11. (Largest' = Largest) /\ (MetadataSize' = MetadataSize)  BY DEF Largest, MetadataSize
  <1>12. SumOf(FileSize, Tarballs)' = tar  BY <1>1 DEF FileSize, Tarballs, Files
  <1>13. SumOf(FileSize, Tarballs)' + litter' + Cardinality(Taking') * Largest'
           < MaxCacheBytes + (crashes' + diskErrors') * MetadataSize' + Cardinality(Clients) * Largest'
    BY <1>1, <1>9, <1>10, <1>11, <1>12
  <1>14. CeilingTypes'
    <2>1. litter' \in Nat
      <3> HIDE DEF size
      <3> QED BY <1>1, <1>2, <1>3
    <2> QED BY <1>1, <1>2, <2>1 DEF CeilingTypes
  <1> QED BY <1>13, <1>14 DEF CeilingInv

\* A crash turns what is being written into litter, and nobody is past the ceiling any more.
LEMMA CrashUnderCeiling ==
    ASSUME CacheAssumption, IInv, CeilingInv, Crash
    PROVE  CeilingInv'
  <1> DEFINE tar == SumOf(FileSize, Tarballs)
             i == Cardinality(Taking) * Largest
             room == MaxCacheBytes + (crashes + diskErrors) * MetadataSize + Cardinality(Clients) * Largest
  <1>1. /\ crashes' = crashes + 1 /\ litter' = litter + TempBytes /\ UNCHANGED <<disk, diskErrors>>
        /\ fetch' = [c \in Clients |-> NoFetch] /\ req' = [c \in Clients |-> Idle]
    BY DEF Crash
  <1>2. litter \in Nat /\ crashes \in Nat /\ diskErrors \in Nat  BY DEF CeilingInv, CeilingTypes
  <1>3. TempBytes \in Nat /\ TempBytes <= i + MetadataSize  BY TempFits DEF IInv
  <1>4. Taking' = {}
    <2>1. \A c \in Clients : fetch'[c].stage = "none" /\ req'[c].at = "idle"
      BY <1>1 DEF NoFetch, Idle
    <2> QED BY <2>1 DEF Taking
  <1>5. tar \in Nat /\ MetadataSize \in Nat /\ Largest \in Nat  BY DiskSizes, LargestIs DEF IInv
  <1>6. i \in Nat
    <2>1. \A a, b \in Nat : a * b \in Nat  OBVIOUS
    <2> QED BY <1>5, <2>1, TakingCount
  <1>7. tar + litter + i < room  BY DEF CeilingInv
  <1>8. room \in Nat
    <2>1. MaxCacheBytes \in Nat /\ Cardinality(Clients) \in Nat  BY TakingCount DEF CacheAssumption
    <2>2. \A a, b \in Nat : a * b \in Nat /\ a + b \in Nat  OBVIOUS
    <2>3. (crashes + diskErrors) * MetadataSize \in Nat /\ Cardinality(Clients) * Largest \in Nat
      BY <1>2, <1>5, <2>1, <2>2
    <2> QED BY <1>5, <2>1, <2>2, <2>3
  <1>9. tar + (litter + TempBytes) + 0 < room + MetadataSize
    <2> HIDE DEF tar, i, room
    <2> QED BY <1>2, <1>3, <1>5, <1>6, <1>7, <1>8
  <1>10. MaxCacheBytes + (crashes' + diskErrors') * MetadataSize + Cardinality(Clients) * Largest
           = room + MetadataSize
    <2>1. crashes' \in Nat /\ diskErrors' \in Nat /\ crashes' + diskErrors' = crashes + diskErrors + 1
      BY <1>1, <1>2
    <2> QED BY <2>1, AllowanceGrows DEF IInv
  <1>11. (Largest' = Largest) /\ (MetadataSize' = MetadataSize)  BY DEF Largest, MetadataSize
  <1>12. SumOf(FileSize, Tarballs)' = tar  BY <1>1 DEF FileSize, Tarballs, Files
  <1>13. Cardinality(Taking') * Largest = 0  BY <1>4, <1>5, FS_EmptySet
  <1>14. SumOf(FileSize, Tarballs)' + litter' + Cardinality(Taking') * Largest'
           < MaxCacheBytes + (crashes' + diskErrors') * MetadataSize' + Cardinality(Clients) * Largest'
    BY <1>1, <1>9, <1>10, <1>11, <1>12, <1>13
  <1>15. CeilingTypes'  BY <1>1, <1>2, <1>3 DEF CeilingTypes
  <1> QED BY <1>14, <1>15 DEF CeilingInv

LEMMA FetchingUnderCeiling ==
    ASSUME CacheAssumption, IInv, IInv', CeilingInv, NEW l \in Clients, Fetching(l)
    PROVE  CeilingInv'
  <1>1. crashes \in Nat /\ diskErrors \in Nat /\ DiskOK /\ DiskOK'  BY DEF CeilingInv, CeilingTypes, IInv
  <1>2. CASE FetchAnswered(l)
    <2>1. Taking' \subseteq Taking  BY <1>2 DEF FetchAnswered, Taking, IInv, FetchesOK, FetchType
    <2> QED BY <1>1, <1>2, <2>1, CeilingRests DEF FetchAnswered
  <1>6. CASE BodyReceived(l) \/ FetchHangs(l)
    <2>1. Taking' \subseteq Taking  BY <1>6 DEF BodyReceived, FetchHangs, Taking, IInv, FetchesOK, FetchType
    <2> QED BY <1>1, <1>6, <2>1, CeilingRests DEF BodyReceived, FetchHangs
  <1>3. CASE FetchRefused(l) \/ FetchCut(l)
    <2>1. /\ fetch[l].stage # "none" /\ Settle(l, FALSE)
          /\ UNCHANGED <<disk, litter, crashes, diskErrors>>
      BY <1>3 DEF FetchRefused, FetchCut
    <2>2. Taking' \subseteq Taking  BY <2>1, SettledTaking
    <2> QED BY <1>1, <2>1, <2>2, CeilingRests
  <1>4. CASE FetchDone(l)
    <2>1. fetch[l].key \in Keys  BY <1>4 DEF FetchDone, IInv, FetchesOK
    <2> QED BY <1>1, <1>4, <2>1, TarballDone, MetadataDone DEF Keys
  <1>5. CASE FetchUnwritable(l)  BY <1>5, UnwritableKeeps
  <1> QED BY <1>2, <1>3, <1>4, <1>5, <1>6 DEF Fetching

LEMMA CeilingStarts ==
    ASSUME CacheAssumption, MaxCacheBytes > 0, Init PROVE CeilingInv
  <1>1. Tarballs = {} /\ Taking = {}
    BY DEF Init, Tarballs, Taking, Files, Idle, NoFetch
  <1>2. litter = 0 /\ crashes = 0 /\ diskErrors = 0  BY DEF Init
  <1>3. SumOf(FileSize, Tarballs) = 0
    <2>1. IsFiniteSet({})  BY FS_EmptySet
    <2>2. SumOf(FileSize, {}) = 0  BY <2>1, SumTaken
    <2> QED BY <1>1, <2>2
  <1>4. DiskOK  BY DEF Init, DiskOK
  <1>5. MetadataSize \in Nat /\ Largest \in Nat /\ Cardinality(Clients) \in Nat /\ MaxCacheBytes \in Nat
    BY <1>4, DiskSizes, LargestIs, TakingCount DEF CacheAssumption
  <1>6. Cardinality(Taking) * Largest = 0 /\ (crashes + diskErrors) * MetadataSize = 0
    BY <1>1, <1>2, <1>5, FS_EmptySet
  <1>7. Cardinality(Clients) * Largest \in Nat
    <2>1. \A a, b \in Nat : a * b \in Nat  OBVIOUS
    <2> QED BY <1>5, <2>1
  <1>8. CeilingTypes  BY <1>2 DEF CeilingTypes
  <1>9. 0 + 0 + 0 < MaxCacheBytes + 0 + Cardinality(Clients) * Largest  BY <1>5, <1>7
  <1> QED BY <1>2, <1>3, <1>6, <1>8, <1>9 DEF CeilingInv

LEMMA CeilingKept ==
    ASSUME CacheAssumption, MaxCacheBytes > 0, IInv, IInv', CeilingInv, [Next]_vars
    PROVE  CeilingInv'
  <1>1. crashes \in Nat /\ diskErrors \in Nat /\ DiskOK  BY DEF CeilingInv, CeilingTypes, IInv
  <1>2. ASSUME NEW c \in Clients, Arrive(c) PROVE CeilingInv'
    <2>1. UNCHANGED <<disk, litter, fetch, crashes, diskErrors>>  BY <1>2 DEF Arrive
    <2>2. \A d \in Clients : req'[d].at = "join" => req'[d] = req[d]
      BY <1>2 DEF Arrive, IInv, RequestsTyped, RequestType, Idle
    <2>3. Taking' \subseteq Taking  BY <2>1, <2>2 DEF Taking
    <2> QED BY <1>1, <2>1, <2>3, CeilingRests
  <1>7. ASSUME NEW c \in Clients, Leaves(c) PROVE CeilingInv'
    <2>1. UNCHANGED <<disk, litter, fetch, crashes, diskErrors>>  BY <1>7 DEF Leaves
    <2>2. \A d \in Clients : req'[d].at = "join" => req'[d] = req[d]
      BY <1>7 DEF Leaves, IInv, RequestsTyped, RequestType, Idle
    <2>3. Taking' \subseteq Taking  BY <2>1, <2>2 DEF Taking
    <2> QED BY <1>1, <2>1, <2>3, CeilingRests
  <1>3. ASSUME UNCHANGED <<disk, litter, fetch, req, crashes, diskErrors>> PROVE CeilingInv'
    <2>1. Taking' \subseteq Taking  BY <1>3 DEF Taking
    <2> QED BY <1>1, <1>3, <2>1, CeilingRests
  <1>4. CASE \E k \in Keys : UpstreamMoves(k)  BY <1>3, <1>4 DEF UpstreamMoves
  <1>5. CASE \E p \in Paths : Expires(p)  BY <1>3, <1>5 DEF Expires
  <1>6. CASE UNCHANGED vars  BY <1>3, <1>6 DEF vars
  <1> QED BY <1>2, <1>4, <1>5, <1>6, <1>7, HandlerUnderCeiling, FetchingUnderCeiling, CrashUnderCeiling DEF Next

LEMMA UnderCeiling ==
    ASSUME CacheAssumption, IInv, CeilingInv PROVE CeilingHolds
  <1> DEFINE tar == SumOf(FileSize, Tarballs)
             i == Cardinality(Taking) * Largest
             y == Cardinality(Clients) * Largest
             e == crashes + diskErrors
  <1>1. /\ tar \in Nat /\ FileBytes \in Nat /\ MetadataSize \in Nat
        /\ FileBytes <= tar + MetadataSize
    BY DiskSizes DEF IInv
  <1>2. TempBytes \in Nat /\ TempBytes <= i + MetadataSize  BY TempFits DEF IInv
  <1>3. litter \in Nat /\ crashes \in Nat /\ diskErrors \in Nat /\ MaxCacheBytes \in Nat
    BY DEF CeilingInv, CeilingTypes, CacheAssumption
  <1>4. tar + litter + i < MaxCacheBytes + e * MetadataSize + y  BY DEF CeilingInv
  <1>5. i \in Nat /\ y \in Nat /\ e \in Nat
    <2>1. \A a, b \in Nat : a * b \in Nat /\ a + b \in Nat  OBVIOUS
    <2> QED BY <1>3, <2>1, LargestIs, TakingCount
  <1>6. (2 + crashes + diskErrors) * MetadataSize = 2 * MetadataSize + e * MetadataSize
        /\ e * MetadataSize \in Nat
    <2>1. \A a, b, x \in Nat : (2 + a + b) * x = 2 * x + (a + b) * x /\ (a + b) * x \in Nat  OBVIOUS
    <2> QED BY <1>1, <1>3, <2>1
  <1>7. MetadataBytes = 2 * MetadataSize + e * MetadataSize  BY <1>6, BytesAreSums DEF MetadataBytes, MetadataSize
  <1> HIDE DEF tar, i, y, e
  <1>8. FileBytes + TempBytes + litter < MaxCacheBytes + MetadataBytes + y
    BY <1>1, <1>2, <1>3, <1>4, <1>5, <1>6, <1>7
  <1> QED BY <1>8 DEF CeilingHolds, Largest, y

\* However many requests pass the ceiling before any of them has written, the
\* cache overshoots it by no more than one tarball per connection, and metadata
\* by what its files, one temporary file of each and the crashes and failed
\* writes account for; whether or not keys share files.
THEOREM CacheStaysBounded ==
    ASSUME CacheAssumption
    PROVE  Spec => []CeilingHolds
  <1>1. CASE MaxCacheBytes > 0
    <2>1. Init => IInv /\ CeilingInv
      BY <1>1, InitIInv, CeilingStarts
    <2>2. IInv /\ CeilingInv /\ [Next]_vars => (IInv /\ CeilingInv)'
      BY <1>1, NextIInv, CeilingKept
    <2>3. IInv /\ CeilingInv => CeilingHolds
      BY UnderCeiling
    <2> QED BY <2>1, <2>2, <2>3, PTL DEF Spec
  <1>2. CASE ~(MaxCacheBytes > 0)
    <2>1. CeilingHolds
      BY <1>2 DEF CeilingHolds
    <2> QED BY <2>1, PTL
  <1> QED BY <1>1, <1>2
=============================================================================
