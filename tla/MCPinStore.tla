----------------------------- MODULE MCPinStore -----------------------------
(* Instances of PinStore: packages and a server, with no record, with one  *)
(* of an earlier version, with a full one or one that blocks.              *)
EXTENDS PinStore, TLC

CONSTANTS d1, d2, s1, clean, grown, evil

MCAuditVerdict == (clean :> "safe") @@ (grown :> "review") @@ (evil :> "block")

Legacy  == [decision |-> "allow", verdict |-> "safe", checked |-> FALSE, manifest |-> NoManifest]
Vetted  == [Legacy EXCEPT !.checked = TRUE]
Blocked == [Vetted EXCEPT !.decision = "block"]
Pinned  == [Vetted EXCEPT !.manifest = clean]

StoreOf(package, server) == [n \in Names |-> IF n \in Servers THEN server ELSE package]
MCInitialStores ==
    {StoreOf(NoRecord, NoRecord), StoreOf(Legacy, Legacy),
     StoreOf(Vetted, Pinned), StoreOf(Blocked, Pinned)}
\* One of the packages is new.
MCGrownStores == {[StoreOf(Vetted, Pinned) EXCEPT ![d1] = NoRecord]}
============================================================================
