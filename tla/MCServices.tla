------------------------------ MODULE MCServices ------------------------------
(* The subsystems that share no state with the rest, one at a time: each     *)
(* behaviour is of one of Parts, and the others stay in an initial state.    *)
EXTENDS MCHook, McpEnumerate, VerdictGate, McpTransport, CanarySandbox, LockfileAudit, RepoTarball

CONSTANTS r1, r2, Parts

VARIABLE part   \* the subsystem at work

MCFrameSizes == {1, 2}

MCPackages == {[name |-> "pkg", version |-> "1"]}
MCDeny     == {[name |-> "bad", version |-> "any"]}
Tarball(name, f) == [service |-> FALSE, name |-> name, file |-> f]
MCPaths == {Tarball("pkg", <<"pkg", "1">>), Tarball("pkg", << >>), Tarball("pkg", <<"other", "1">>)}

Sized(size, writes) == [size |-> size, writes |-> writes]
MCFrames == <<Sized(1, <<"server">>), Sized(1, <<"host">>), Sized(3, << >>),
              Sized(1, <<"host", "server">>), Sized(1, <<"host">>)>>
MCInputs == [host |-> <<1, 2, 3>>, server |-> <<4, 5>>]

Linux(wrapper, isolates) ==
    [platform |-> "linux", wrapper |-> wrapper, ip |-> wrapper, isolates |-> isolates]
MCHosts == {Linux(TRUE, TRUE), Linux(TRUE, FALSE), Linux(FALSE, FALSE),
            [platform |-> "darwin", wrapper |-> TRUE, ip |-> FALSE, isolates |-> FALSE]}
Detonation(confirmed, require, mitm) ==
    [confirmed |-> confirmed, require |-> require, netns |-> TRUE, mitm |-> mitm, keep |-> FALSE]
MCOptions == {Detonation(TRUE, FALSE, TRUE), Detonation(TRUE, TRUE, FALSE), Detonation(FALSE, FALSE, FALSE)}
MCPayloads == {<<"install", "import">>}

Entry(name, form) == [name |-> name, real |-> "x", form |-> form, version |-> "1", artifact |-> name]
File(format, entries) == [format |-> format, entries |-> entries]
Forged(entry) == [entry EXCEPT !.artifact = "mirror"]
MCLockfiles ==
    {File("npm", <<Entry("a", "workspace"), Entry("x", "exact"), Entry("b", "alias"), Entry("c", "exact")>>),
     File("npm", <<Entry("x", "exact"), Forged(Entry("x", "exact")), Entry("b", "vcs")>>),
     File("yarn", <<Entry("a", "range"), Entry("b", "alias"), Entry("a", "none")>>),
     File("pnpm", <<Entry("a", "vcs"), Entry("x", "exact"), Entry("b", "exact")>>),
     File("package-json", <<Entry("a", "workspace"), Entry("x", "range"), Entry("b", "any"), Entry("c", "none")>>),
     File("requirements", <<Entry("a", "option"), Entry("b", "range"), Entry("x", "exact")>>),
     File("poetry", <<Entry("a", "vcs"), Entry("x", "exact"), Entry("x", "vcs"), Entry("b", "exact")>>),
     File("pipfile", <<Entry("a", "any"), Entry("x", "exact")>>),
     File("pyproject", <<Entry("a", "option"), Entry("b", "vcs"), Entry("x", "exact")>>)}
Is1(name) == <<name, "1">>
MCEvidence == {[vulnerable |-> {Is1("x")}, scan |-> [k \in {Is1(n) : n \in {"a", "b", "c", "x"}} |-> "safe"]],
               [vulnerable |-> {Is1("b")}, scan |-> [k \in {Is1(n) : n \in {"a", "b", "c", "x"}} |->
                                                      IF k = Is1("x") THEN "block" ELSE "review"]]}
MCStores == {<< >>, [k \in {Is1("b"), Is1("x")} |-> "allow"], [k \in {Is1("x")} |-> "block"]}

MCCandidates == <<"v1", "main">>
MCChunks == [r \in {"v1", "main"} |-> IF r = "main" THEN 3 ELSE 2]
Location(origin, public) == [origin |-> origin, credentials |-> FALSE, https |-> TRUE, public |-> public]
MCLocations == {Location("objects", TRUE), Location("elsewhere", TRUE)}
Cached(https, insecure) == [url |-> TRUE, https |-> https, loopback |-> TRUE, insecure |-> insecure]
MCCacheConfigs == {Cached(TRUE, FALSE), Cached(FALSE, FALSE)}

enumVars == vars
allVars == <<part, hookVars, enumVars, gateVars, transportVars, canaryVars, lockVars, fetchVars>>

ServicesInit ==
    /\ part \in Parts
    /\ HookInit /\ Init /\ GateInit /\ TransportInit /\ CanaryInit /\ LockInit /\ FetchInit
    /\ part # "hook" => hookPolicy = "balanced"
    /\ part # "enumerate" => transport = "stdio"
    /\ part # "canary" => /\ machine = Linux(TRUE, TRUE) /\ options = Detonation(TRUE, FALSE, TRUE)
    /\ part # "lockfile" => lockfile.format = "pipfile" /\ evidence.vulnerable = {Is1("b")} /\ decided = << >> /\ depth = "none"
    /\ part # "tarball" => published = {} /\ config = Cached(TRUE, FALSE)

ServicesNext ==
    \/ part = "hook" /\ HookNext /\ UNCHANGED <<part, enumVars, gateVars, transportVars, canaryVars, lockVars, fetchVars>>
    \/ part = "enumerate" /\ Next /\ UNCHANGED <<part, hookVars, gateVars, transportVars, canaryVars, lockVars, fetchVars>>
    \/ part = "gate" /\ GateNext /\ UNCHANGED <<part, hookVars, enumVars, transportVars, canaryVars, lockVars, fetchVars>>
    \/ part = "transport" /\ TransportNext /\ UNCHANGED <<part, hookVars, enumVars, gateVars, canaryVars, lockVars, fetchVars>>
    \/ part = "canary" /\ CanaryNext /\ UNCHANGED <<part, hookVars, enumVars, gateVars, transportVars, lockVars, fetchVars>>
    \/ part = "lockfile" /\ LockNext /\ UNCHANGED <<part, hookVars, enumVars, gateVars, transportVars, canaryVars, fetchVars>>
    \/ part = "tarball" /\ FetchNext /\ UNCHANGED <<part, hookVars, enumVars, gateVars, transportVars, canaryVars, lockVars>>

\* What the event loop owes to the parts that have such duties; nothing is enabled in the initial
\* states of the transport and the sandbox.
ServicesFair ==
    /\ \A t \in {"escalate", "kill"} : WF_vars(part = "enumerate" /\ Escalate(t))
    /\ WF_vars(part = "enumerate" /\ Continue) /\ WF_vars(part = "enumerate" /\ Timeout)
    /\ WF_vars(part = "enumerate" /\ GivesUp) /\ WF_vars(part = "enumerate" /\ HttpExpires)
    /\ TransportFair
    /\ CanaryFair

ServicesSpec == ServicesInit /\ [][ServicesNext]_allVars /\ ServicesFair

\* Every enumeration returns, even from a server that never answers and ignores SIGTERM, or from
\* one that answers just as the timeout fires (src/mcp-client.js:424).
EnumerationEnds == part = "enumerate" /\ caller = "racing" ~> caller \in {"returned", "crashed"}
===============================================================================
