----------------------------- MODULE MCInstall -----------------------------
(* Instances of Install: a required and an optional package.               *)
EXTENDS Install, TLC

CONSTANTS i1, i2, m1, m2, l1, l2, p1, p2, required, extra

MCPackagesOf == (l1 :> {required, extra}) @@ (l2 :> {required})
MCConsistent == {<<m1, l1>>, <<m2, l2>>}

Plain == [decision |-> "allow", policy |-> p1, complete |-> TRUE,
          holds |-> FALSE, override |-> FALSE, archive |-> "scanned"]
MCReports ==
    {Plain,
     [Plain EXCEPT !.policy = p2],
     [Plain EXCEPT !.holds = TRUE],
     [Plain EXCEPT !.holds = TRUE, !.override = TRUE],
     [Plain EXCEPT !.complete = FALSE],
     [Plain EXCEPT !.decision = "review"],
     [Plain EXCEPT !.archive = "changed"]}
============================================================================
