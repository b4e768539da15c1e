-------------------------- MODULE MCGuardPipeline --------------------------
(* Two guards of one package over one tarball cache.  The first is asked for every kind of reference
   under several configurations; the second only acquires its package, through the same cache. *)
EXTENDS GuardPipeline, TLC

CONSTANTS g1, g2

Plain == [kind |-> "npm", vulnCheck |-> TRUE, sourceScan |-> TRUE, deps |-> FALSE,
          promote |-> TRUE, force |-> FALSE, keep |-> FALSE, layers |-> << >>]

Pin(hash, late) == [name |-> "pkg", version |-> "1", sha256 |-> hash, expired |-> late]
Mute(category) == [check |-> category, scope |-> {"pkg"}, files |-> {""}]

\* A project file that loosens everything it can, and a local file that adds what is refused.
LooseLayers ==
    << [policy |-> "allow-review", scanErrorPolicy |-> "fail-open",
        mute |-> << Mute("code-execution"), Mute("flow-analysis-gap") >>],
       [policy |-> "anything", mute |-> << Mute("known-vulnerability") >>,
        allow |-> << Pin("", FALSE) >>] >>
PinnedLayers == << [policy |-> "allow-review", allow |-> << Pin("good", FALSE) >>] >>
ExpiredLayers == << [allow |-> << Pin("altered", FALSE), Pin("good", TRUE) >>] >>

MCFindings == {Finding("code-execution", "high"), Finding("flow-analysis-gap", "medium")}

MCRequests ==
    g1 :> {[Plain EXCEPT !.layers = LooseLayers],
           [Plain EXCEPT !.layers = PinnedLayers, !.deps = TRUE, !.force = TRUE],
           [Plain EXCEPT !.kind = "locked", !.layers = ExpiredLayers],
           [Plain EXCEPT !.kind = "archive", !.layers = PinnedLayers, !.vulnCheck = FALSE],
           [Plain EXCEPT !.kind = "wheel", !.layers = LooseLayers],
           [Plain EXCEPT !.kind = "local", !.sourceScan = FALSE, !.keep = TRUE],
           [Plain EXCEPT !.kind = "local", !.layers = LooseLayers],
           [Plain EXCEPT !.kind = "github"]}
    @@ g2 :> {[Plain EXCEPT !.kind = "pypi", !.vulnCheck = FALSE, !.sourceScan = FALSE, !.promote = FALSE]}

GithubRequests == g1 :> {[Plain EXCEPT !.kind = "github"]}
============================================================================
