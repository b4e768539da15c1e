--------------------------- MODULE AtomicInstall ---------------------------
(***************************************************************************)
(* What an enforced install promises of a project's node_modules, to one   *)
(* who knows where the replaced tree was put: the tree is replaced as a    *)
(* whole, by a vetted tree, and the tree it replaces is kept.              *)
(***************************************************************************)
CONSTANTS Vetted,       \* the trees an install may put in place
          NoTree,       \* there is no node_modules
          Initial       \* what node_modules may be at first

VARIABLES tree, kept

Init == tree \in Initial /\ kept = {}

Replace ==
    /\ tree' \in Vetted
    /\ kept' = kept \cup ({tree} \ {NoTree})

Spec == Init /\ [][Replace]_<<tree, kept>>
============================================================================
