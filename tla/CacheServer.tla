---------------------------- MODULE CacheServer ----------------------------
(***************************************************************************)
(* The shared GitHub cache, bin/pkgxray-cache.js: repository metadata and  *)
(* tarballs kept on disk for a team's CI runners.                          *)
(*                                                                         *)
(* One process serves every client; a handler is cut at its awaits, so     *)
(* `at' says where a client's request is suspended.  A fetch that several  *)
(* requests share (dedup) is named by the client whose request started it. *)
(* A file's age is abstracted to fresh or stale: any fresh file may go     *)
(* stale at any moment.  What upstream serves under a key moves forward    *)
(* through 1..MaxVersion.                                                  *)
(***************************************************************************)
EXTENDS Integers, FiniteSets, FiniteSetsExt

CONSTANTS
    Clients,          \* connections, one request at a time each
    Repos,            \* repositories, by name, of /github/repos
    Refs,             \* tarballs, by ref as asked, of /github/tarball
    PathOf,           \* the file a repository or a ref is kept in
    Size,             \* its bytes
    MaxCacheBytes,    \* --max-cache-bytes, 0 for no ceiling
    MaxVersion,       \* bound: how often upstream moves
    MaxCrashes,       \* bound: restarts of the server
    MaxDiskErrors,    \* bound: failing reads and writes of metadata
    None

Keys  == Repos \cup Refs
Paths == {PathOf[k] : k \in Keys}

\* What one answer of upstream is, abstracted: whose it is, of which moment,
\* whether all of it arrived, and whether it was said to somebody's token.
Contents == [key : Keys, version : 1..MaxVersion, whole : BOOLEAN, scoped : BOOLEAN]

ASSUME CacheAssumption ==
    /\ Repos \cap Refs = {} /\ Keys # {}
    /\ IsFiniteSet(Keys) /\ IsFiniteSet(Clients)
    /\ None \notin Clients \cup Keys \cup Paths \cup Contents
    /\ DOMAIN PathOf = Keys
    /\ \A r \in Repos, k \in Keys : k # r => PathOf[k] # PathOf[r]
    /\ Size \in [Keys -> Nat]
    /\ {MaxCacheBytes, MaxCrashes, MaxDiskErrors} \subseteq Nat
    /\ MaxVersion \in Nat \ {0}

\* Each key has a file of its own.  It is not so for every pair of refs.
FilesAreApart == \A j, k \in Keys : PathOf[j] = PathOf[k] => j = k

VARIABLES
    upstream,   \* the version upstream serves of each key
    disk,       \* what each file of the cache holds, None when absent
    stale,      \* the files past their TTL
    litter,     \* bytes of temporary files nobody will finish
    inFlight,   \* dedup: the client whose fetch of a key is running
    fetch,      \* the fetch a client leads
    req,        \* the request of each client; `sized' is the file its length is of
    crashes, diskErrors

vars == <<upstream, disk, stale, litter, inFlight, fetch, req, crashes, diskErrors>>

NoFetch  == [stage |-> "none", key |-> None, content |-> None]
Idle     == [at |-> "idle", key |-> None, token |-> FALSE, leader |-> None, sized |-> None, body |-> None]
Suspended == {"stat", "hit", "measure", "bypass", "join", "waiting", "miss", "open", "scoped", "hung"}
Stages    == {"none", "asked", "reading", "writing", "hung"}

TypeOK ==
    /\ upstream \in [Keys -> 1..MaxVersion]
    /\ disk \in [Paths -> Contents \cup {None}]
    /\ stale \subseteq Paths
    /\ litter \in Nat
    /\ inFlight \in [Keys -> Clients \cup {None}]
    /\ \A k \in Keys : inFlight[k] # None => fetch[inFlight[k]].key = k
    /\ fetch \in [Clients -> [stage : Stages, key : Keys \cup {None},
                              content : Contents \cup {None}]]
    /\ req \in [Clients -> [at : Suspended \cup {"idle", "ok", "failed"}, key : Keys \cup {None},
                            token : BOOLEAN, leader : Clients \cup {None},
                            sized : Contents \cup {None}, body : Contents \cup {None}]]
    /\ crashes \in 0..MaxCrashes
    /\ diskErrors \in 0..MaxDiskErrors

Init ==
    /\ upstream = [k \in Keys |-> 1]
    /\ disk = [p \in Paths |-> None]
    /\ stale = {}
    /\ litter = 0
    /\ inFlight = [k \in Keys |-> None]
    /\ fetch = [c \in Clients |-> NoFetch]
    /\ req = [c \in Clients |-> Idle]
    /\ crashes = 0
    /\ diskErrors = 0

-----------------------------------------------------------------------------
(* Reading the state *)

InCache(k)  == disk[PathOf[k]] # None /\ PathOf[k] \notin stale
FromUpstream(k, token) ==
    [key |-> k, version |-> upstream[k], whole |-> TRUE, scoped |-> token]

\* The bytes of some files, given what each of them takes.
BytesOf(size, files) == MapThenSumSet(LAMBDA f : size[f], files)

Files     == {p \in Paths : disk[p] # None}
FileBytes == BytesOf([p \in Files |-> Size[disk[p].key]], Files)
Writers   == {c \in Clients : fetch[c].stage = "writing"}
TempBytes == BytesOf([c \in Writers |-> Size[fetch[c].key]], Writers)

At(c, place)   == req[c].at = place
Move(c, place) == req' = [req EXCEPT ![c].at = place]
Answer(c, content) == req' = [req EXCEPT ![c].at = "ok", ![c].body = content]
Refuse(c)          == req' = [req EXCEPT ![c].at = "failed"]

\* It waits for metadata whose answer was cut off.
Stuck(c) ==
    /\ req[c].key \in Repos
    /\ \/ At(c, "hung")
       \/ At(c, "waiting") /\ fetch[req[c].leader].stage = "hung"

-----------------------------------------------------------------------------
(* The environment *)

UpstreamMoves(k) ==
    /\ upstream[k] < MaxVersion
    /\ upstream' = [upstream EXCEPT ![k] = @ + 1]
    /\ UNCHANGED <<disk, stale, litter, inFlight, fetch, req, crashes, diskErrors>>

Expires(p) ==
    /\ disk[p] # None
    /\ p \notin stale
    /\ stale' = stale \cup {p}
    /\ UNCHANGED <<upstream, disk, litter, inFlight, fetch, req, crashes, diskErrors>>

\* A request with a token skips the cache altogether; tarballs take no token.
Arrive(c) ==
    /\ req[c].at \in {"idle", "ok", "failed"}
    /\ \E k \in Keys, token \in BOOLEAN :
          /\ token => k \in Repos
          /\ req' = [req EXCEPT ![c] = [Idle EXCEPT !.key = k, !.token = token,
                                            !.at = IF token THEN "scoped" ELSE "stat"]]
    /\ UNCHANGED <<upstream, disk, stale, litter, inFlight, fetch, crashes, diskErrors>>

\* A client that gets no answer gives up and may ask again.  What it left
\* suspended does nothing more; a fetch it started stays in the table.
Leaves(c) ==
    /\ Stuck(c)
    /\ fetch[c].stage = "none"
    /\ req' = [req EXCEPT ![c] = Idle]
    /\ UNCHANGED <<upstream, disk, stale, litter, inFlight, fetch, crashes, diskErrors>>

\* The process dies and is started again: connections and the dedup table
\* are gone, half-written temporary files stay.
Crash ==
    /\ crashes < MaxCrashes
    /\ crashes' = crashes + 1
    /\ litter' = litter + TempBytes
    /\ inFlight' = [k \in Keys |-> None]
    /\ fetch' = [c \in Clients |-> NoFetch]
    /\ req' = [c \in Clients |-> Idle]
    /\ UNCHANGED <<upstream, disk, stale, diskErrors>>

-----------------------------------------------------------------------------
(* The handlers up to the fetch *)

\* The length a tarball is announced with is that of the file as it is now.
Announce(c) ==
    req' = [req EXCEPT ![c].at = "open", ![c].sized = disk[PathOf[req[c].key]]]

\* statFresh.  A tarball that is not there meets the ceiling first.
Stat(c) ==
    LET k == req[c].key IN
    /\ At(c, "stat")
    /\ \/ InCache(k) /\ k \in Repos /\ Move(c, "hit")
       \/ InCache(k) /\ k \in Refs /\ Announce(c)
       \/ ~InCache(k) /\ k \in Refs /\ MaxCacheBytes > 0 /\ Move(c, "measure")
       \/ ~InCache(k) /\ (k \in Repos \/ MaxCacheBytes = 0) /\ Move(c, "join")
    /\ UNCHANGED <<upstream, disk, stale, litter, inFlight, fetch, crashes, diskErrors>>

\* Metadata is read whole, then measured; it may have been replaced since the
\* stat.
ServeHit(c) ==
    /\ At(c, "hit")
    /\ Answer(c, disk[PathOf[req[c].key]])
    /\ UNCHANGED <<upstream, disk, stale, litter, inFlight, fetch, crashes, diskErrors>>

\* A tarball is opened and streamed after its length was announced.  If the
\* file was replaced in between, the lengths may differ, and then what reaches
\* the client is cut, or ends early.
Differ(a, b) == a.key # b.key \/ a.version # b.version

Open(c) ==
    LET file == disk[PathOf[req[c].key]] IN
    /\ At(c, "open")
    /\ \E cut \in BOOLEAN :
          /\ cut => Differ(file, req[c].sized)
          /\ Answer(c, [file EXCEPT !.whole = @ /\ ~cut])
    /\ UNCHANGED <<upstream, disk, stale, litter, inFlight, fetch, crashes, diskErrors>>

\* Metadata that cannot be read is fetched again.
HitUnreadable(c) ==
    /\ At(c, "hit")
    /\ req[c].key \in Repos
    /\ diskErrors < MaxDiskErrors
    /\ diskErrors' = diskErrors + 1
    /\ Move(c, "join")
    /\ UNCHANGED <<upstream, disk, stale, litter, inFlight, fetch, crashes>>

\* Mutant: the ceiling is never looked at.
MeasureNothing(c) ==
    /\ At(c, "measure")
    /\ Move(c, "join")
    /\ UNCHANGED <<upstream, disk, stale, litter, inFlight, fetch, crashes, diskErrors>>

\* dirSizeBytes may see any part of a file that is being written.
Measure(c) ==
    /\ At(c, "measure")
    /\ \E part \in 0..TempBytes :
          Move(c, IF FileBytes + litter + part >= MaxCacheBytes THEN "bypass" ELSE "join")
    /\ UNCHANGED <<upstream, disk, stale, litter, inFlight, fetch, crashes, diskErrors>>

\* upstreamStreamTarball: straight through, or an error, or a cut connection.
Bypass(c) ==
    /\ At(c, "bypass")
    /\ Answer(c, FromUpstream(req[c].key, FALSE)) \/ Refuse(c)
    /\ UNCHANGED <<upstream, disk, stale, litter, inFlight, fetch, crashes, diskErrors>>

\* Mutant: what the token saw is persisted too.
ServeScopedKeeping(c) ==
    /\ At(c, "scoped")
    /\ Answer(c, FromUpstream(req[c].key, TRUE))
    /\ disk' = [disk EXCEPT ![PathOf[req[c].key]] = FromUpstream(req[c].key, TRUE)]
    /\ stale' = stale \ {PathOf[req[c].key]}
    /\ UNCHANGED <<upstream, litter, inFlight, fetch, crashes, diskErrors>>

\* With the client's own token: never shared, never written.  upstreamGetJson
\* listens for the body's data and its end only: when the connection is closed
\* in the middle of the body, nothing settles.
ServeScoped(c) ==
    /\ At(c, "scoped")
    /\ Answer(c, FromUpstream(req[c].key, TRUE)) \/ Refuse(c) \/ Move(c, "hung")
    /\ UNCHANGED <<upstream, disk, stale, litter, inFlight, fetch, crashes, diskErrors>>

-----------------------------------------------------------------------------
(* dedup and the fetches *)

\* Mutant: every request starts a fetch of its own.
JoinNobody(c) ==
    LET k == req[c].key IN
    /\ At(c, "join")
    /\ req' = [req EXCEPT ![c].at = "waiting", ![c].leader = c]
    /\ inFlight' = [inFlight EXCEPT ![k] = c]
    /\ fetch' = [fetch EXCEPT ![c] = [stage |-> "asked", key |-> k, content |-> None]]
    /\ UNCHANGED <<upstream, disk, stale, litter, crashes, diskErrors>>

\* Wait for the fetch of this key that is running, or start one.
Join(c) ==
    LET k == req[c].key IN
    /\ At(c, "join")
    /\ \/ /\ inFlight[k] # None
          /\ req' = [req EXCEPT ![c].at = "waiting", ![c].leader = inFlight[k]]
          /\ UNCHANGED <<inFlight, fetch>>
       \/ /\ inFlight[k] = None
          /\ req' = [req EXCEPT ![c].at = "waiting", ![c].leader = c]
          /\ inFlight' = [inFlight EXCEPT ![k] = c]
          /\ fetch' = [fetch EXCEPT ![c] = [stage |-> "asked", key |-> k, content |-> None]]
    /\ UNCHANGED <<upstream, disk, stale, litter, crashes, diskErrors>>

\* The promise settles: the table forgets it and everyone waiting goes on.
\* Metadata is answered from the promise's value, a tarball from the disk.
Waiting(l) == {c \in Clients : At(c, "waiting") /\ req[c].leader = l}

Settle(l, ok) ==
    /\ inFlight' = [inFlight EXCEPT ![fetch[l].key] = None]
    /\ fetch' = [fetch EXCEPT ![l] = NoFetch]
    /\ req' = [c \in Clients |->
                 CASE c \notin Waiting(l) -> req[c]
                   [] c \in Waiting(l) /\ ~ok -> [req[c] EXCEPT !.at = "failed"]
                   [] c \in Waiting(l) /\ ok /\ fetch[l].key \in Repos ->
                         [req[c] EXCEPT !.at = "ok", !.body = fetch[l].content]
                   [] OTHER -> [req[c] EXCEPT !.at = "miss"]]

\* Upstream starts to answer: a tarball goes to its temporary file, metadata
\* is collected first.
FetchAnswered(l) ==
    /\ fetch[l].stage = "asked"
    /\ fetch' = [fetch EXCEPT ![l].stage = IF fetch[l].key \in Refs THEN "writing" ELSE "reading",
                              ![l].content = FromUpstream(fetch[l].key, FALSE)]
    /\ UNCHANGED <<upstream, disk, stale, litter, inFlight, req, crashes, diskErrors>>

\* Mutant: a fetch that fails is not settled for those who joined it.
FetchRefusedAlone(l) ==
    /\ fetch[l].stage = "asked"
    /\ inFlight' = [inFlight EXCEPT ![fetch[l].key] = None]
    /\ fetch' = [fetch EXCEPT ![l] = NoFetch]
    /\ Refuse(l)
    /\ UNCHANGED <<upstream, disk, stale, litter, crashes, diskErrors>>

\* 404, another status, a refused redirect, a timeout, metadata over its limit.
FetchRefused(l) ==
    /\ fetch[l].stage \in {"asked", "reading"}
    /\ Settle(l, FALSE)
    /\ UNCHANGED <<upstream, disk, stale, litter, crashes, diskErrors>>

\* All of the metadata is there: its temporary file is begun.
BodyReceived(l) ==
    /\ fetch[l].stage = "reading"
    /\ fetch' = [fetch EXCEPT ![l].stage = "writing"]
    /\ UNCHANGED <<upstream, disk, stale, litter, inFlight, req, crashes, diskErrors>>

\* The connection is closed in the middle of it: the promise never settles, and
\* dedup keeps it for whoever asks later.
FetchHangs(l) ==
    /\ fetch[l].stage = "reading"
    /\ fetch' = [fetch EXCEPT ![l].stage = "hung"]
    /\ UNCHANGED <<upstream, disk, stale, litter, inFlight, req, crashes, diskErrors>>

\* The whole body is written: the temporary file takes its place.
FetchDone(l) ==
    LET p == PathOf[fetch[l].key] IN
    /\ fetch[l].stage = "writing"
    /\ disk' = [disk EXCEPT ![p] = fetch[l].content]
    /\ stale' = stale \ {p}
    /\ Settle(l, TRUE)
    /\ UNCHANGED <<upstream, litter, crashes, diskErrors>>

\* Mutant: a connection that is cut counts as the end of the body.
FetchCutPublishes(l) ==
    LET p == PathOf[fetch[l].key] IN
    /\ fetch[l].stage = "writing"
    /\ fetch[l].key \in Refs
    /\ disk' = [disk EXCEPT ![p] = [fetch[l].content EXCEPT !.whole = FALSE]]
    /\ stale' = stale \ {p}
    /\ Settle(l, TRUE)
    /\ UNCHANGED <<upstream, litter, crashes, diskErrors>>

\* A tarball is cut short, or over its ceiling: cleanup unlinks the file.
FetchCut(l) ==
    /\ fetch[l].stage = "writing"
    /\ fetch[l].key \in Refs
    /\ Settle(l, FALSE)
    /\ UNCHANGED <<upstream, disk, stale, litter, crashes, diskErrors>>

\* Metadata is only written once it is complete, but a write that fails
\* leaves its temporary file behind.
FetchUnwritable(l) ==
    /\ fetch[l].stage = "writing"
    /\ fetch[l].key \in Repos
    /\ diskErrors < MaxDiskErrors
    /\ diskErrors' = diskErrors + 1
    /\ litter' = litter + Size[fetch[l].key]
    /\ Settle(l, FALSE)
    /\ UNCHANGED <<upstream, disk, stale, crashes>>

\* A tarball request goes on: it stats what is on disk now.
ServeMiss(c) ==
    /\ At(c, "miss")
    /\ Announce(c)
    /\ UNCHANGED <<upstream, disk, stale, litter, inFlight, fetch, crashes, diskErrors>>

-----------------------------------------------------------------------------
Handler(c) ==
    \/ Stat(c)
    \/ ServeHit(c)
    \/ HitUnreadable(c)
    \/ Measure(c)
    \/ Bypass(c)
    \/ ServeScoped(c)
    \/ Join(c)
    \/ ServeMiss(c)
    \/ Open(c)

Fetching(l) ==
    \/ FetchAnswered(l)
    \/ FetchRefused(l)
    \/ BodyReceived(l)
    \/ FetchHangs(l)
    \/ FetchDone(l)
    \/ FetchCut(l)
    \/ FetchUnwritable(l)

Next ==
    \/ \E c \in Clients : Arrive(c) \/ Leaves(c) \/ Handler(c) \/ Fetching(c)
    \/ \E k \in Keys : UpstreamMoves(k)
    \/ \E p \in Paths : Expires(p)
    \/ Crash

Spec == Init /\ [][Next]_vars

\* Awaits return; upstream answers, closes the connection, or is silent until
\* the 8 s and 30 s timeouts fire.
FairSpec == Spec /\ \A c \in Clients : WF_vars(Handler(c)) /\ WF_vars(Fetching(c))

-----------------------------------------------------------------------------
(* Properties *)

\* Whoever is answered gets what it asked for, whether it was read from disk,
\* shared with another request's fetch, or streamed past a full cache; and gets
\* the whole of it, unless it is a tarball whose file another request's fetch
\* replaced by a newer one between its stat and its opening (tarballCachePath,
\* upstreamFetchTarball, handleTarball).
Replaced(c) == req[c].sized # None /\ Differ(req[c].body, req[c].sized)
RightContent ==
    \A c \in Clients : At(c, "ok") =>
        /\ req[c].body # None
        /\ req[c].body.key = req[c].key
        /\ req[c].body.whole \/ (req[c].key \in Refs /\ Replaced(c))

\* What upstream said to somebody's token reaches only that client: not the
\* disk, not a request that joined a fetch, not a later anonymous request
\* (handleRepo, "Never persist credentials-scoped metadata").
ScopedContentStaysPrivate ==
    /\ \A p \in Files : ~disk[p].scoped
    /\ \A c \in Clients : At(c, "ok") /\ req[c].body.scoped => req[c].token

\* However requests arrive, no two fetches ever write the same file (dedup).
OneWriterPerFile ==
    \A c, d \in Clients :
        /\ fetch[c].stage # "none" /\ fetch[d].stage # "none"
        /\ PathOf[fetch[c].key] = PathOf[fetch[d].key]
        => c = d

\* Requests may all pass the ceiling before any of them has written, so the
\* tarballs can overshoot it, but by no more than one tarball per connection.
\* Metadata never meets the ceiling: its files, one temporary file of each and
\* what crashes and failed writes leave of them come on top (handleTarball,
\* handleRepo, dirSizeBytes).
MetadataBytes == (2 + crashes + diskErrors) * BytesOf(Size, Repos)
CeilingHolds ==
    MaxCacheBytes > 0 =>
        FileBytes + TempBytes + litter
            < MaxCacheBytes + MetadataBytes
                + Cardinality(Clients) * Max({Size[k] : k \in Keys})

\* Every request is answered or refused, whoever's fetch it waited for, unless
\* it asked for metadata whose answer was cut off: its own, or that of the fetch
\* it joined.  Those wait until the server is restarted (dedup, upstreamGetJson,
\* the timeouts of the upstream helpers).
EveryRequestIsAnswered ==
    \A c \in Clients : req[c].at \in Suspended ~> (req[c].at \in {"ok", "failed", "idle"} \/ Stuck(c))

\* "caps total tarball+repo bytes" (the usage text): nothing is added to a
\* cache that is over its ceiling.
NothingIsAddedOverTheCeiling ==
    [][MaxCacheBytes > 0 /\ FileBytes >= MaxCacheBytes
       => Files' = Files]_vars
=============================================================================
