------------------------------- MODULE MCScan -------------------------------
(* The two halves of a scan, one at a time: the guard pipeline around the    *)
(* audit of a package, and the audit from the staged files to its verdict.   *)
EXTENDS MCGuardPipeline, MCSourceAudit

VARIABLE part   \* "guard" or "audit"

scanVars == <<part, vars, auditVars>>

ScanInit ==
    /\ part \in {"guard", "audit"}
    /\ Init /\ AuditInit
    /\ part = "audit" => /\ request = [g \in Guards |-> CHOOSE r \in Requests[g] : TRUE]
                         /\ cache = "none" /\ target = "none"
    /\ part = "guard" => package = Base

ScanNext ==
    \/ part = "guard" /\ Next /\ UNCHANGED <<part, auditVars>>
    \/ part = "audit" /\ AuditNext /\ UNCHANGED <<part, vars>>

ScanSpec == ScanInit /\ [][ScanNext]_scanVars
=============================================================================
