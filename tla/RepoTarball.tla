---------------------------- MODULE RepoTarball ----------------------------
(* Fetching a repository's tarball for a version: fetchRepoTarballForVersion *)
(* of src/github.js tries candidate refs against one directory that all      *)
(* scans share, and downloads through src/http-client.js - from codeload,    *)
(* with redirects inside one deadline and the origin policy of               *)
(* src/cache-upstream-policy.js, or from a team cache (src/cache-client.js). *)
EXTENDS Naturals, Sequences

CONSTANTS Fetchers,
          Candidates,      \* the refs tried, in order: v<version>, <version>, the default branch
          ChunksOf,        \* ref -> chunks of its tarball
          MaxChunks,       \* the byte limit, in chunks
          MaxRedirects,
          Locations,       \* records: where a redirect may point
          CacheConfigs,    \* records: url, https, loopback, insecure
          MaxTarballCrashes

ASSUME CandidatesAssumption == Candidates \in Seq({Candidates[k] : k \in DOMAIN Candidates})
ASSUME LimitAssumption == MaxChunks \in Nat

VARIABLES published,   \* the refs upstream has; others answer 404
          config, step, ref, hop, stream, got, present, status,
          missed,      \* refs that answered 404 to this fetch
          tarballs,    \* ref -> the file in the shared directory
          tarballCrashes

fetchVars == <<published, config, step, ref, hop, stream, got, present, status, missed, tarballs, tarballCrashes>>

RefNames == {Candidates[k] : k \in DOMAIN Candidates}
NoTarball == [chunks |-> 0, fresh |-> FALSE]

\* A plaintext team cache is used only on this machine and when asked for.
UsesTeamCache(c) == c.url /\ (c.https \/ (c.loopback /\ c.insecure))

\* The origin, the scheme and the addresses of every hop; the policy for codeload opts nothing in.
Permitted(location) ==
    /\ location.origin \in {"codeload", "github", "objects"} /\ ~location.credentials
    /\ location.https /\ location.public
Codeload == [origin |-> "codeload", credentials |-> FALSE, https |-> TRUE, public |-> TRUE]

FetchInit ==
    /\ published \in SUBSET RefNames /\ config \in CacheConfigs
    /\ tarballs = [r \in RefNames |-> NoTarball]
    /\ step = [f \in Fetchers |-> "looking"] /\ ref = [f \in Fetchers |-> 1]
    /\ hop = [f \in Fetchers |-> 0] /\ stream = [f \in Fetchers |-> "none"]
    /\ got = [f \in Fetchers |-> 0] /\ present = [f \in Fetchers |-> FALSE]
    /\ status = [f \in Fetchers |-> "none"] /\ missed = [f \in Fetchers |-> {}]
    /\ tarballCrashes = 0

Candidate(f) == Candidates[ref[f]]
Team == UsesTeamCache(config)

\* A fresh file of the shared directory ends the fetch; otherwise a directory of its own is made.
FindsTarball(f) ==
    /\ step[f] = "looking"
    /\ \/ /\ ref[f] > Len(Candidates) /\ step' = [step EXCEPT ![f] = "null"]
          /\ UNCHANGED <<hop, got, status, stream>>
       \/ /\ ref[f] <= Len(Candidates) /\ tarballs[Candidate(f)].fresh
          /\ step' = [step EXCEPT ![f] = "returned"]
          /\ UNCHANGED <<hop, got, status, stream>>
       \/ /\ ref[f] <= Len(Candidates) /\ ~tarballs[Candidate(f)].fresh
          /\ step' = [step EXCEPT ![f] = "requesting"] /\ stream' = [stream EXCEPT ![f] = "opening"]
          /\ hop' = [hop EXCEPT ![f] = 0] /\ got' = [got EXCEPT ![f] = 0]
          /\ status' = [status EXCEPT ![f] = "none"]
    /\ UNCHANGED <<published, config, ref, present, missed, tarballs, tarballCrashes>>

Transferring(f) == step[f] \in {"requesting", "receiving"}

\* The first error settles the request: its response and its file are destroyed.
Fails(f, why) ==
    /\ step' = [step EXCEPT ![f] = "failing"] /\ status' = [status EXCEPT ![f] = why]
    /\ UNCHANGED <<published, config, ref, hop, stream, got, present, missed, tarballs, tarballCrashes>>

Cut(f)      == Transferring(f) /\ Fails(f, "error")
DeadlinePasses(f) == Transferring(f) /\ Fails(f, "error")

\* The stream opens its file in its own time, also when it was destroyed meanwhile.
FileOpens(f) ==
    /\ stream[f] = "opening"
    /\ stream' = [stream EXCEPT ![f] = "open"] /\ present' = [present EXCEPT ![f] = TRUE]
    /\ UNCHANGED <<published, config, step, ref, hop, got, status, missed, tarballs, tarballCrashes>>

OpenFails(f) ==
    /\ stream[f] = "opening" /\ stream' = [stream EXCEPT ![f] = "closed"]
    /\ \/ /\ Transferring(f) /\ step' = [step EXCEPT ![f] = "failing"]
          /\ status' = [status EXCEPT ![f] = "error"]
       \/ ~Transferring(f) /\ UNCHANGED <<step, status>>
    /\ UNCHANGED <<published, config, ref, hop, got, present, missed, tarballs, tarballCrashes>>

\* The next hop is validated like the first; a team cache's redirect is an error.
Redirected(f, location) ==
    /\ step[f] = "requesting"
    /\ IF ~Team /\ hop[f] < MaxRedirects /\ Permitted(location)
       THEN /\ hop' = [hop EXCEPT ![f] = @ + 1]
            /\ UNCHANGED <<published, config, step, ref, stream, got, present, status, missed, tarballs, tarballCrashes>>
       ELSE Fails(f, "error")

Refused(f) == step[f] = "requesting" /\ Candidate(f) \notin published /\ Fails(f, "404")
Errors(f)  == step[f] = "requesting" /\ Fails(f, "error")

Answered(f) ==
    /\ step[f] = "requesting" /\ Candidate(f) \in published
    /\ step' = [step EXCEPT ![f] = "receiving"]
    /\ UNCHANGED <<published, config, ref, hop, stream, got, present, status, missed, tarballs, tarballCrashes>>

\* The meter lets no chunk past the limit.
Receives(f) ==
    /\ step[f] = "receiving" /\ got[f] < ChunksOf[Candidate(f)]
    /\ IF got[f] < MaxChunks
       THEN /\ got' = [got EXCEPT ![f] = @ + 1]
            /\ UNCHANGED <<published, config, step, ref, hop, stream, present, status, missed, tarballs, tarballCrashes>>
       ELSE Fails(f, "error")

\* The pipeline ends when the whole body is flushed, which takes an open file.
Flushed(f) == got[f] = ChunksOf[Candidate(f)] /\ stream[f] = "open"

\* The finished download takes its place in the shared directory by a rename.
Renames(f) ==
    /\ step[f] = "receiving" /\ Flushed(f)
    /\ tarballs' = [tarballs EXCEPT ![Candidate(f)] = [chunks |-> got[f], fresh |-> TRUE]]
    /\ step' = [step EXCEPT ![f] = "returned"]
    /\ stream' = [stream EXCEPT ![f] = "none"] /\ present' = [present EXCEPT ![f] = FALSE]
    /\ UNCHANGED <<published, config, ref, hop, got, status, missed, tarballCrashes>>

\* A destroyed stream closes once it has opened.
FileCloses(f) ==
    /\ step[f] = "failing" /\ stream[f] = "open"
    /\ stream' = [stream EXCEPT ![f] = "closed"]
    /\ UNCHANGED <<published, config, step, ref, hop, got, present, status, missed, tarballs, tarballCrashes>>

\* Mutant: the file is unlinked at once.
AwaitsNothing(f) == TRUE
\* A download from codeload waits for its file to close before it removes it; one from the team
\* cache does not.
AwaitsClose(f) == Team \/ stream[f] = "closed"

Unlinks(f) ==
    /\ step[f] = "failing" /\ AwaitsClose(f)
    /\ present' = [present EXCEPT ![f] = FALSE] /\ step' = [step EXCEPT ![f] = "thrown"]
    /\ UNCHANGED <<published, config, ref, hop, stream, got, status, missed, tarballs, tarballCrashes>>

\* The download's directory goes in any case; a missing ref passes on to the next candidate, any
\* other error ends the fetch.
Retries(f) ==
    /\ step[f] = "thrown"
    /\ stream' = [stream EXCEPT ![f] = "none"] /\ present' = [present EXCEPT ![f] = FALSE]
    /\ \/ /\ status[f] = "404" /\ step' = [step EXCEPT ![f] = "looking"]
          /\ missed' = [missed EXCEPT ![f] = @ \cup {Candidate(f)}]
          /\ ref' = [ref EXCEPT ![f] = @ + 1]
       \/ status[f] # "404" /\ step' = [step EXCEPT ![f] = "failed"] /\ UNCHANGED <<missed, ref>>
    /\ UNCHANGED <<published, config, hop, got, status, tarballs, tarballCrashes>>

\* A crash leaves the download's directory behind.
FetchCrashes(f) ==
    /\ tarballCrashes < MaxTarballCrashes /\ step[f] \notin {"returned", "null", "failed", "crashed"}
    /\ tarballCrashes' = tarballCrashes + 1
    /\ step' = [step EXCEPT ![f] = "crashed"] /\ stream' = [stream EXCEPT ![f] = "none"]
    /\ UNCHANGED <<published, config, ref, hop, got, present, status, missed, tarballs>>

TarballExpires(r) ==
    /\ tarballs[r].fresh /\ tarballs' = [tarballs EXCEPT ![r].fresh = FALSE]
    /\ UNCHANGED <<published, config, step, ref, hop, stream, got, present, status, missed, tarballCrashes>>

Publishes(r) ==
    /\ r \notin published /\ published' = published \cup {r}
    /\ UNCHANGED <<config, step, ref, hop, stream, got, present, status, missed, tarballs, tarballCrashes>>

FetchNext ==
    \/ \E f \in Fetchers :
         \/ FindsTarball(f) \/ Cut(f) \/ DeadlinePasses(f) \/ FileOpens(f) \/ OpenFails(f)
         \/ \E location \in Locations : Redirected(f, location)
         \/ Refused(f) \/ Errors(f) \/ Answered(f) \/ Receives(f) \/ Renames(f)
         \/ FileCloses(f) \/ Unlinks(f) \/ Retries(f) \/ FetchCrashes(f)
    \/ \E r \in RefNames : TarballExpires(r) \/ Publishes(r)

FetchSpec == FetchInit /\ [][FetchNext]_fetchVars
-----------------------------------------------------------------------------
\* However downloads are redirected, cut, timed out or interrupted while others fetch the same ref,
\* every file in the shared directory is whole and within the limit, a codeload download that throws
\* has removed its file although it may still have been opening, and a fetch settles for a later
\* candidate, or for none, only after upstream denied the earlier ones.
TarballsAreWhole ==
    /\ \A r \in RefNames : tarballs[r].chunks \in {0, ChunksOf[r]} /\ tarballs[r].chunks <= MaxChunks
    /\ \A f \in Fetchers :
         /\ step[f] = "thrown" /\ ~Team => ~present[f] /\ stream[f] = "closed"
         /\ step[f] \in {"returned", "failed", "null"} => ~present[f]
         /\ step[f] = "returned" => tarballs[Candidate(f)].chunks = ChunksOf[Candidate(f)]
         /\ step[f] \in {"returned", "null"} =>
              \A k \in DOMAIN Candidates : k < ref[f] => Candidates[k] \in missed[f]
=============================================================================
