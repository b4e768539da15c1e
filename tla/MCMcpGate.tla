----------------------------- MODULE MCMcpGate -----------------------------
(* Instances of McpGate for TLC: two tools, up to two calls, two epochs.   *)
EXTENDS McpGate

CONSTANTS t1, t2, c1, c2, r1, good, changed, odd, evil, blurb, silent

MCToolOf == [c \in Calls |-> IF c = c1 THEN t1 ELSE t2]
MCVerdict == (good :> "safe") @@ (changed :> "safe") @@ (odd :> "review") @@ (evil :> "block")
               @@ (blurb :> "block") @@ (silent :> "safe")

Manifest(pages, text) == [pages |-> pages, instructions |-> text]

\* One page each; the second manifest turns t1 hostile, then t2 changes.
OnePage  == << Manifest(<<(t1 :> good) @@ (t2 :> odd)>>, silent),
               Manifest(<<(t1 :> evil) @@ (t2 :> odd)>>, silent) >>
OnePageInstructions ==
            << Manifest(<<(t1 :> good)>>, silent),
               Manifest(<<(t1 :> good)>>, blurb) >>
\* The approved manifest, then one with a changed and an added tool.
Drifting == << Manifest(<<(t1 :> good)>>, silent),
               Manifest(<<(t1 :> changed) @@ (t2 :> good)>>, silent) >>
TwoPages == << Manifest(<<(t1 :> good), (t2 :> good)>>, silent),
               Manifest(<<(t1 :> changed), (t2 :> evil)>>, silent) >>
\* The second manifest has more pages than the gate walks.
TooManyPages ==
            << Manifest(<<(t1 :> good), (t2 :> good)>>, silent),
               Manifest(<<(t1 :> good), (t1 :> odd), (t2 :> evil)>>, silent) >>
============================================================================
