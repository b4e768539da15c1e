------------------------------ MODULE McpGate ------------------------------
(***************************************************************************)
(* The per-call runtime gate for MCP servers, class McpGate of             *)
(* src/mcp-proxy.js, between an agent host (the client) and a stdio server.*)
(*                                                                         *)
(* Frames reach the gate one at a time (one queue for both directions), so *)
(* a handler is one action, except where it awaits: _finishVerify awaits   *)
(* the pin store, and only the re-verification timer can run meanwhile.    *)
(* `busy' names the handler suspended at that await.                       *)
(*                                                                         *)
(* Texts (tool definitions, server instructions, results) are abstracted   *)
(* to model values with the verdict the static audit gives them.  Served is*)
(* the history of the server: its manifest at each epoch, page by page.    *)
(* The server answers requests in any order; what it writes reaches the    *)
(* gate in the order it wrote it.                                          *)
(***************************************************************************)
EXTENDS Integers, Sequences, FiniteSets, SequencesExt

CONSTANTS
    Tools,            \* tool names
    Calls,            \* tools/call requests of the host, each with its own id
    ToolOf,           \* the tool a call names
    Rpcs,             \* other requests of the host (resources/read, ...)
    Texts,            \* tool definitions and instruction texts
    NoText,           \* the absent instructions
    AuditVerdict,     \* what the static audit says of a text
    Served,           \* the server's manifest at each epoch
    Policy,           \* "strict", "balanced" or "permissive"
    Pin, Recheck,     \* --pin; recheck against the pin store
    RequireBaseline,  \* a pinned baseline is expected from the start
    InitialPin,       \* the epoch pinned before the session, 0 for none
    ScanResults,      \* result scanning
    Taints,           \* the verdicts result texts may get
    Reinitializes,    \* the host may initialize again within the session
    StoreEdits,       \* what others do to the record: "repin", "lost"
    MaxHeld,          \* 128 in the code
    MaxInFlight,      \* MAX_IN_FLIGHT
    MaxListPages      \* MAX_LIST_PAGES

Verdicts == {"safe", "review", "block"}
Epochs   == 1..Len(Served)
Pages    == 1..MaxListPages

\* A page of a manifest is a function from the tools it lists to their
\* definitions; page p of an epoch with fewer pages is empty.
ASSUME GateAssumption ==
    /\ ToolOf \in [Calls -> Tools]
    /\ NoText \in Texts
    /\ AuditVerdict \in [Texts -> Verdicts]
    /\ Policy \in {"strict", "balanced", "permissive"}
    /\ {Pin, Recheck, RequireBaseline, ScanResults, Reinitializes} \subseteq BOOLEAN
    /\ Taints \subseteq Verdicts \cup {"oversized"}
    /\ StoreEdits \subseteq {"repin", "lost"}
    /\ {MaxHeld, MaxInFlight, MaxListPages} \subseteq Nat \ {0}
    /\ Len(Served) \in Nat \ {0}
    /\ InitialPin \in 0..Len(Served)
    /\ \A e \in Epochs :
          /\ Served[e].instructions \in Texts
          /\ Len(Served[e].pages) \in Nat
          /\ \A p \in 1..Len(Served[e].pages) :
                /\ DOMAIN Served[e].pages[p] \subseteq Tools
                /\ \A t \in DOMAIN Served[e].pages[p] : Served[e].pages[p][t] \in Texts

VARIABLES
    open,               \* the session has not been settled
    busy,               \* the list handler suspended inside _finishVerify, or "none"
    verified, stale, pinHold, toolStatus, serverVerdict, instructions,
    clientListIds,      \* a tools/list of the host is unanswered
    clientListAccum, clientListPages,
    heldCalls, callsInFlight, responsesInFlight,
    revalidating, revalidateTimer, proxyListIds, proxyListAccum, proxyIdCounter,
    pinned, baselineExpected,
    baseline,           \* this server's record in .pkgxray.lock
    hostInit,           \* the host's view of its initialize handshake
    outcome,            \* what the host was told about each call
    toServer,           \* requests the server has yet to answer
    fromServer,         \* frames the server wrote, in order
    epoch,              \* the server's current manifest
    announced,          \* history: epoch of the last list_changed the gate processed
    approval,           \* history: the record the last store step compared with or wrote
    basis,              \* the pages the current toolStatus was computed from
    shown,              \* history: tools the host was shown in this pagination
    leaked              \* history: an answer to the gate's own request was forwarded

verdictVars == <<verified, stale, pinHold, toolStatus, serverVerdict, basis>>
listVars    == <<clientListIds, clientListAccum, clientListPages, shown>>
callVars    == <<heldCalls, callsInFlight, outcome>>
revalVars   == <<revalidating, revalidateTimer, proxyListIds, proxyListAccum, proxyIdCounter>>
pinVars     == <<pinned, baselineExpected, baseline, approval>>
hostVars    == <<hostInit, responsesInFlight, instructions>>
vars == <<open, busy, verdictVars, listVars, callVars, revalVars, pinVars, hostVars,
          toServer, fromServer, epoch, announced, leaked>>

----------------------------------------------------------------------------
(* The manifest and its verdicts.                                          *)

PageTools(e, p) ==
    IF p \in DOMAIN Served[e].pages THEN Served[e].pages[p] ELSE << >>
HasNextCursor(e, p) == p < Len(Served[e].pages)

\* A sequence of fetched pages, each remembered by epoch and page number.
Listed(accum, i) == PageTools(accum[i].epoch, accum[i].page)
PagesOf(accum, t) == {i \in DOMAIN accum : t \in DOMAIN Listed(accum, i)}
Names(accum) == {t \in Tools : PagesOf(accum, t) # {}}

\* Mutant: nothing ranks as "safe".
WorstOfUnranked(vs) == IF "block" \in vs THEN "block" ELSE IF "review" \in vs THEN "review" ELSE "none"
WorstOf(vs) == IF "block" \in vs THEN "block" ELSE IF "review" \in vs THEN "review" ELSE "safe"

AuditTools(accum) ==
    [t \in Names(accum) |->
        [verdict |-> WorstOf({AuditVerdict[Listed(accum, i)[t]] : i \in PagesOf(accum, t)}),
         drifted |-> FALSE]]

\* A tool listed on two pages is fingerprinted by its last listing.
ManifestFingerprints(accum) ==
    [tools |-> [t \in Names(accum) |-> Listed(accum, Max(PagesOf(accum, t)))[t]],
     meta  |-> instructions]

AddedOrChanged(base, fresh) ==
    {t \in DOMAIN fresh : t \notin DOMAIN base \/ base[t] # fresh[t]}

NoRecord == [pinned |-> FALSE, tools |-> << >>, meta |-> NoText]
Approval(fingerprints) ==
    [pinned |-> TRUE, tools |-> fingerprints.tools, meta |-> fingerprints.meta]
ServedApproval(e) ==
    [pinned |-> TRUE, meta |-> Served[e].instructions,
     tools  |-> LET all == [p \in DOMAIN Served[e].pages |-> [epoch |-> e, page |-> p]]
                IN  [t \in Names(all) |-> Listed(all, Max(PagesOf(all, t)))[t]]]

\* Mutant: a drifted tool is judged by its verdict alone.
AllowsDrifted(status, hold, sv, t) ==
    /\ ~(hold /\ Policy # "permissive")
    /\ t \in DOMAIN status
    /\ LET effective == WorstOf({status[t].verdict, sv})
       IN  effective # "block" /\ ~(effective = "review" /\ Policy = "strict")

\* _decision
Allows(status, hold, sv, t) ==
    /\ ~(hold /\ Policy # "permissive")
    /\ t \in DOMAIN status
    /\ LET effective == WorstOf({status[t].verdict, sv})
       IN  /\ effective # "block"
           /\ ~(status[t].drifted /\ Policy # "permissive")
           /\ ~(effective = "review" /\ Policy = "strict")

\* The tools of the last fetched page that stay in what the host sees.
Stripped(status, hold, accum) ==
    {t \in Names(<<Last(accum)>>) : Allows(status, hold, serverVerdict, t)}

Withholds(taint) ==
    /\ ScanResults
    /\ \/ taint = "oversized"
       \/ taint = "block" /\ Policy # "permissive"
       \/ taint = "review" /\ Policy = "strict"

----------------------------------------------------------------------------
(* Initial state: a new McpGate, with the pin store as an earlier session  *)
(* or `pkgxray mcp --pin' left it.                                         *)

Init ==
    /\ open = TRUE /\ busy = "none"
    /\ verified = FALSE /\ stale = FALSE /\ pinHold = FALSE
    /\ toolStatus = << >> /\ serverVerdict = "safe" /\ instructions = NoText
    /\ clientListIds = FALSE /\ clientListAccum = << >> /\ clientListPages = 0
    /\ heldCalls = {} /\ callsInFlight = {} /\ responsesInFlight = {}
    /\ revalidating = FALSE /\ revalidateTimer = FALSE
    /\ proxyListIds = {} /\ proxyListAccum = << >> /\ proxyIdCounter = 0
    /\ pinned = FALSE
    /\ baselineExpected = (RequireBaseline \/ ~Pin)
    /\ baseline = IF InitialPin = 0 THEN NoRecord ELSE ServedApproval(InitialPin)
    /\ hostInit = "none"
    /\ outcome = [c \in Calls |-> "unsent"]
    /\ toServer = {} /\ fromServer = << >> /\ epoch = 1
    /\ approval = NoRecord /\ announced = 0 /\ basis = << >> /\ shown = {} /\ leaked = FALSE

Running == open /\ busy = "none"

----------------------------------------------------------------------------
(* Re-verification: the gate's own tools/list through the same session.    *)

StartRound(armed) ==
    /\ revalidating' = TRUE
    /\ proxyListAccum' = << >>
    /\ proxyIdCounter' = proxyIdCounter + 1
    /\ proxyListIds' = proxyListIds \cup {proxyIdCounter + 1}
    /\ toServer' = toServer \cup {[to |-> "proxy", id |-> proxyIdCounter + 1, page |-> 1]}
    /\ revalidateTimer' = armed

\* Mutant: the round has no timer.
StartWithoutTimer ==
    \/ revalidating /\ UNCHANGED revalVars /\ UNCHANGED toServer
    \/ ~revalidating /\ StartRound(FALSE)

\* _startRevalidation: a no-op while a round is running.
StartRevalidation ==
    \/ revalidating /\ UNCHANGED revalVars /\ UNCHANGED toServer
    \/ ~revalidating /\ StartRound(TRUE)

\* The end of a failed round, keeping the given ids and calls.
AbandonRound(ids, held) ==
    /\ revalidating
    /\ revalidating' = FALSE
    /\ revalidateTimer' = FALSE
    /\ proxyListIds' = ids
    /\ proxyListAccum' = << >>
    /\ heldCalls' = held
    /\ outcome' = [c \in Calls |-> IF c \in heldCalls THEN "denied" ELSE outcome[c]]
    /\ UNCHANGED <<proxyIdCounter, callsInFlight>>

\* Mutants: the ids of the round stay known; the denied calls stay held.
FailKeepingIds  == AbandonRound(proxyListIds, {})
FailKeepingHeld == AbandonRound({}, heldCalls)

\* _failRevalidation: forget the round and deny what it held.
FailRevalidation == AbandonRound({}, {})

\* The timer callback is not queued behind the frames: it also runs while a
\* handler is suspended in _finishVerify.
RevalidationTimesOut ==
    /\ open /\ revalidateTimer
    /\ FailRevalidation
    /\ UNCHANGED <<open, busy, verdictVars, listVars, pinVars, hostVars,
                   toServer, fromServer, epoch, announced, leaked>>

\* _finishVerify up to its await: replace every status, clear the holds.
BeginVerify(accum, handler) ==
    /\ toolStatus' = AuditTools(accum)
    /\ serverVerdict' = AuditVerdict[instructions]
    /\ verified' = TRUE
    /\ stale' = FALSE
    /\ pinHold' = FALSE
    /\ basis' = accum
    /\ busy' = handler

\* settle: close the queue, clear the timer.
Settle ==
    /\ open' = FALSE
    /\ revalidateTimer' = FALSE

----------------------------------------------------------------------------
(* Client to server.                                                       *)

InFlight == Cardinality(callsInFlight) + Cardinality(responsesInFlight)
              + Cardinality(heldCalls) + (IF clientListIds THEN 1 ELSE 0)
HasCapacity == 1 + InFlight <= MaxInFlight

ClientInitialize ==
    /\ Running /\ HasCapacity
    /\ hostInit = "none" \/ (hostInit = "done" /\ Reinitializes)
    /\ hostInit' = "sent"
    /\ verified' = FALSE
    /\ stale' = TRUE
    /\ toServer' = toServer \cup {[to |-> "init"]}
    /\ UNCHANGED <<open, busy, pinHold, toolStatus, serverVerdict, basis, listVars, callVars,
                   revalVars, pinVars, responsesInFlight, instructions,
                   fromServer, epoch, announced, leaked>>

\* page 1 is a request without a cursor.
ClientList(page) ==
    /\ Running /\ HasCapacity
    /\ hostInit = "done"
    /\ ~clientListIds
    /\ \/ page = 1 /\ clientListAccum' = << >> /\ clientListPages' = 0 /\ shown' = {}
       \/ page # 1 /\ UNCHANGED <<clientListAccum, clientListPages, shown>>
    /\ clientListIds' = TRUE
    /\ toServer' = toServer \cup {[to |-> "client", page |-> page]}
    /\ UNCHANGED <<open, busy, verdictVars, callVars, revalVars, pinVars, hostVars,
                   fromServer, epoch, announced, leaked>>

\* Mutant: a stale manifest is trusted once its round is over.
MustHoldUntilRoundEnds == ~verified \/ revalidating
MustHold == ~verified \/ stale \/ revalidating

ClientCallHeld(c) ==
    /\ Running /\ HasCapacity
    /\ hostInit = "done" /\ outcome[c] = "unsent"
    /\ MustHold
    /\ Cardinality(heldCalls) < MaxHeld
    /\ heldCalls' = heldCalls \cup {c}
    /\ outcome' = [outcome EXCEPT ![c] = "pending"]
    /\ StartRevalidation
    /\ UNCHANGED <<open, busy, verdictVars, listVars, callsInFlight, pinVars, hostVars,
                   fromServer, epoch, announced, leaked>>

\* _decideAndRoute on a verified manifest.
ClientCallDecided(c) ==
    /\ Running /\ HasCapacity
    /\ hostInit = "done" /\ outcome[c] = "unsent"
    /\ ~MustHold
    /\ \/ /\ Allows(toolStatus, pinHold, serverVerdict, ToolOf[c])
          /\ callsInFlight' = callsInFlight \cup {c}
          /\ outcome' = [outcome EXCEPT ![c] = "pending"]
          /\ toServer' = toServer \cup {[to |-> "call", id |-> c]}
       \/ /\ ~Allows(toolStatus, pinHold, serverVerdict, ToolOf[c])
          /\ outcome' = [outcome EXCEPT ![c] = "denied"]
          /\ UNCHANGED <<callsInFlight, toServer>>
    /\ UNCHANGED <<open, busy, verdictVars, listVars, heldCalls, revalVars, pinVars, hostVars,
                   fromServer, epoch, announced, leaked>>

\* A batch that touches tools/* is refused as a whole.
ClientBatchRefused(c) ==
    /\ Running /\ HasCapacity
    /\ hostInit = "done" /\ outcome[c] = "unsent"
    /\ outcome' = [outcome EXCEPT ![c] = "denied"]
    /\ UNCHANGED <<open, busy, verdictVars, listVars, heldCalls, callsInFlight, revalVars,
                   pinVars, hostVars, toServer, fromServer, epoch, announced, leaked>>

ClientRpc(r) ==
    /\ Running /\ HasCapacity
    /\ hostInit = "done" /\ r \notin responsesInFlight
    /\ responsesInFlight' = responsesInFlight \cup {r}
    /\ toServer' = toServer \cup {[to |-> "rpc", id |-> r]}
    /\ UNCHANGED <<open, busy, verdictVars, listVars, callVars, revalVars, pinVars,
                   hostInit, instructions, fromServer, epoch, announced, leaked>>

\* The frames the handler throws on: the queue's onError settles the session.
ClientFrameThrows ==
    /\ Running
    /\ \/ ~HasCapacity
       \/ hostInit = "done" /\ clientListIds
       \/ /\ MustHold /\ Cardinality(heldCalls) >= MaxHeld
          /\ hostInit = "done" /\ \E c \in Calls : outcome[c] = "unsent"
    /\ Settle
    /\ UNCHANGED <<busy, verdictVars, listVars, callVars, revalidating, proxyListIds,
                   proxyListAccum, proxyIdCounter, pinVars, hostVars,
                   toServer, fromServer, epoch, announced, leaked>>

----------------------------------------------------------------------------
(* Server to client.  Each handler takes the frame at the head of the pipe.*)

Receives(kind) ==
    /\ Running
    /\ fromServer # << >>
    /\ Head(fromServer).to = kind
    /\ fromServer' = Tail(fromServer)
Frame == Head(fromServer)

\* Our own re-verification traffic.
OnProxyListResponse ==
    /\ Receives("proxy")
    /\ Frame.id \in proxyListIds
    /\ LET accum == Append(proxyListAccum, [epoch |-> Frame.epoch, page |-> Frame.page])
           more  == HasNextCursor(Frame.epoch, Frame.page)
       IN  \/ /\ ~Frame.ok \/ (more /\ Len(accum) >= MaxListPages)
              /\ FailRevalidation
              /\ UNCHANGED <<busy, toServer>> /\ UNCHANGED verdictVars
           \/ /\ Frame.ok /\ more /\ Len(accum) < MaxListPages
              /\ proxyListAccum' = accum
              /\ proxyIdCounter' = proxyIdCounter + 1
              /\ proxyListIds' = (proxyListIds \ {Frame.id}) \cup {proxyIdCounter + 1}
              /\ toServer' = toServer \cup
                    {[to |-> "proxy", id |-> proxyIdCounter + 1, page |-> Frame.page + 1]}
              /\ UNCHANGED <<busy, revalidating, revalidateTimer>>
              /\ UNCHANGED verdictVars /\ UNCHANGED callVars
           \/ /\ Frame.ok /\ ~more
              /\ proxyListAccum' = accum
              /\ proxyListIds' = proxyListIds \ {Frame.id}
              /\ revalidateTimer' = FALSE
              /\ BeginVerify(accum, "proxy")
              /\ UNCHANGED <<revalidating, proxyIdCounter, toServer>> /\ UNCHANGED callVars
    /\ UNCHANGED <<open, listVars, pinVars, hostVars, epoch, announced, leaked>>

\* An answer whose id the gate no longer knows is forwarded like any other frame.
OnUnknownResponse ==
    /\ Receives("proxy")
    /\ Frame.id \notin proxyListIds
    /\ leaked' = TRUE
    /\ UNCHANGED <<open, busy, verdictVars, listVars, callVars, revalVars, pinVars, hostVars,
                   toServer, epoch, announced>>

\* The host gives up on a handshake whose answer was withheld.
OnInitializeResponse ==
    /\ Receives("init")
    /\ instructions' = Frame.text
    /\ hostInit' = IF Withholds(AuditVerdict[Frame.text]) THEN "none" ELSE "done"
    /\ UNCHANGED <<open, busy, verdictVars, listVars, callVars, revalVars, pinVars,
                   responsesInFlight, toServer, epoch, announced, leaked>>

OnClientListError ==
    /\ Receives("client")
    /\ ~Frame.ok
    /\ clientListIds' = FALSE
    /\ UNCHANGED <<open, busy, verdictVars, clientListAccum, clientListPages, shown, callVars,
                   revalVars, pinVars, hostVars, toServer, epoch, announced, leaked>>

\* Mid-chain pages are audited standalone and stripped with those statuses.
OnClientListPage ==
    /\ Receives("client")
    /\ Frame.ok
    /\ clientListPages < MaxListPages
    /\ clientListIds' = FALSE
    /\ clientListPages' = clientListPages + 1
    /\ LET page  == [epoch |-> Frame.epoch, page |-> Frame.page]
           accum == Append(clientListAccum, page)
       IN  /\ clientListAccum' = accum
           /\ \/ /\ HasNextCursor(Frame.epoch, Frame.page)
                 /\ shown' = shown \cup Stripped(AuditTools(<<page>>), pinHold, accum)
                 /\ UNCHANGED busy /\ UNCHANGED verdictVars
              \/ /\ ~HasNextCursor(Frame.epoch, Frame.page)
                 /\ BeginVerify(accum, "client")
                 /\ UNCHANGED shown
    /\ UNCHANGED <<open, callVars, revalVars, pinVars, hostVars, toServer, epoch,
                   announced, leaked>>

OnClientListThrows ==
    /\ Receives("client")
    /\ Frame.ok
    /\ clientListPages >= MaxListPages
    /\ clientListIds' = FALSE
    /\ clientListPages' = clientListPages + 1
    /\ Settle
    /\ UNCHANGED <<busy, verdictVars, clientListAccum, shown, callVars, revalidating, proxyListIds,
                   proxyListAccum, proxyIdCounter, pinVars, hostVars,
                   toServer, epoch, announced, leaked>>

OnCallResult ==
    /\ Receives("call")
    /\ callsInFlight' = callsInFlight \ {Frame.id}
    /\ outcome' = [outcome EXCEPT ![Frame.id] = IF Withholds(Frame.taint) THEN "withheld" ELSE "result"]
    /\ UNCHANGED <<open, busy, verdictVars, listVars, heldCalls, revalVars, pinVars, hostVars,
                   toServer, epoch, announced, leaked>>

OnRpcResult ==
    /\ Receives("rpc")
    /\ responsesInFlight' = responsesInFlight \ {Frame.id}
    /\ UNCHANGED <<open, busy, verdictVars, listVars, callVars, revalVars, pinVars, hostInit,
                   instructions, toServer, epoch, announced, leaked>>

OnListChanged ==
    /\ Receives("changed")
    /\ stale' = TRUE
    /\ announced' = Frame.epoch
    /\ StartRevalidation
    /\ UNCHANGED <<open, busy, verified, pinHold, toolStatus, serverVerdict, basis, listVars,
                   callVars, pinVars, hostVars, epoch, leaked>>

----------------------------------------------------------------------------
(* The rest of _finishVerify: pin or recheck, then the suspended handler   *)
(* goes on.  readable is FALSE when the store cannot be read or written.   *)

PinsNow     == Pin /\ ~pinned
RechecksNow == ~PinsNow /\ Recheck

\* What the store says of the manifest under verification: whether the gate
\* must hold everything, and which tools drifted from the approval.
StoreHold(readable) ==
    \/ (PinsNow \/ RechecksNow) /\ ~readable
    \/ /\ RechecksNow
       /\ IF baseline.pinned
          THEN baseline.meta # ManifestFingerprints(basis).meta
          ELSE baselineExpected
Drifted(readable) ==
    IF RechecksNow /\ readable /\ baseline.pinned
    THEN AddedOrChanged(baseline.tools, ManifestFingerprints(basis).tools)
    ELSE {}

FinishVerify(readable) ==
    LET hold    == StoreHold(readable)
        status  == [t \in DOMAIN toolStatus |->
                      [verdict |-> toolStatus[t].verdict, drifted |-> t \in Drifted(readable)]]
        routed  == {c \in heldCalls : Allows(status, hold, serverVerdict, ToolOf[c])}
    IN  /\ busy # "none"
        /\ pinHold' = hold
        /\ toolStatus' = status
        /\ pinned' = (pinned \/ (PinsNow /\ readable))
        /\ baselineExpected' = (baselineExpected \/ (PinsNow /\ readable)
                                   \/ (RechecksNow /\ readable /\ baseline.pinned))
        /\ baseline' = IF PinsNow /\ readable THEN Approval(ManifestFingerprints(basis))
                       ELSE baseline
        /\ approval' = IF readable THEN baseline' ELSE approval
        \* _flushHeldCalls
        /\ heldCalls' = {}
        /\ callsInFlight' = callsInFlight \cup routed
        /\ toServer' = toServer \cup {[to |-> "call", id |-> c] : c \in routed}
        /\ outcome' = [c \in Calls |->
                          IF c \in heldCalls \ routed THEN "denied" ELSE outcome[c]]
        /\ busy' = "none"
        /\ \/ /\ busy = "proxy"
              /\ revalidating' = FALSE
              /\ UNCHANGED <<clientListAccum, shown>>
           \/ /\ busy = "client"
              /\ clientListAccum' = << >>
              /\ shown' = shown \cup Stripped(status, hold, basis)
              /\ UNCHANGED revalidating
        /\ UNCHANGED <<open, verified, stale, serverVerdict, basis, clientListIds,
                       clientListPages, revalidateTimer, proxyListIds, proxyListAccum,
                       proxyIdCounter, hostVars, fromServer, epoch, announced, leaked>>

----------------------------------------------------------------------------
(* The environment: the server, other pkgxray processes, the session's end.*)

AnswersTo(request) ==
    CASE request.to = "init" -> {[to |-> "init", text |-> Served[epoch].instructions]}
      [] request.to = "client" ->
           {[to |-> "client", page |-> request.page, epoch |-> epoch, ok |-> ok] : ok \in BOOLEAN}
      [] request.to = "proxy" ->
           {[to |-> "proxy", id |-> request.id, page |-> request.page, epoch |-> epoch, ok |-> ok] :
              ok \in BOOLEAN}
      [] request.to = "call" -> {[to |-> "call", id |-> request.id, taint |-> v] : v \in Taints}
      [] request.to = "rpc"  -> {[to |-> "rpc", id |-> request.id]}

ServerAnswers(request) ==
    /\ open /\ request \in toServer
    /\ toServer' = toServer \ {request}
    /\ \E frame \in AnswersTo(request) : fromServer' = Append(fromServer, frame)
    /\ UNCHANGED <<open, busy, verdictVars, listVars, callVars, revalVars, pinVars, hostVars,
                   epoch, announced, leaked>>

ServerChangesManifest ==
    /\ open /\ epoch < Len(Served)
    /\ epoch' = epoch + 1
    /\ fromServer' = Append(fromServer, [to |-> "changed", epoch |-> epoch + 1])
    /\ UNCHANGED <<open, busy, verdictVars, listVars, callVars, revalVars, pinVars, hostVars,
                   toServer, announced, leaked>>

\* `pkgxray mcp --pin' run by a human, or the store edited away.
StoreRewritten ==
    /\ open
    /\ \/ "lost" \in StoreEdits /\ baseline' = NoRecord
       \/ "repin" \in StoreEdits /\ baseline' = ServedApproval(epoch)
    /\ UNCHANGED <<open, busy, verdictVars, listVars, callVars, revalVars, pinned,
                   baselineExpected, approval, hostVars, toServer, fromServer, epoch, announced, leaked>>

\* The child exits, an output stays blocked, a frame is oversize.
SessionEnds ==
    /\ open
    /\ Settle
    /\ UNCHANGED <<busy, verdictVars, listVars, callVars, revalidating, proxyListIds,
                   proxyListAccum, proxyIdCounter, pinVars, hostVars,
                   toServer, fromServer, epoch, announced, leaked>>

----------------------------------------------------------------------------
FromClient ==
    \/ ClientInitialize
    \/ \E page \in Pages : ClientList(page)
    \/ \E c \in Calls : ClientCallHeld(c) \/ ClientCallDecided(c) \/ ClientBatchRefused(c)
    \/ \E r \in Rpcs : ClientRpc(r)
    \/ ClientFrameThrows

FromServer ==
    \/ OnProxyListResponse \/ OnUnknownResponse \/ OnInitializeResponse
    \/ OnClientListError \/ OnClientListPage \/ OnClientListThrows
    \/ OnCallResult \/ OnRpcResult \/ OnListChanged

Environment ==
    \/ \E request \in toServer : ServerAnswers(request)
    \/ ServerChangesManifest \/ StoreRewritten \/ SessionEnds

Next ==
    \/ FromClient \/ FromServer \/ Environment
    \/ RevalidationTimesOut
    \/ \E readable \in BOOLEAN : FinishVerify(readable)

Spec == Init /\ [][Next]_vars

\* Timers fire and file operations end; the server owes nothing.
FairSpec == Spec /\ WF_vars(RevalidationTimesOut)
                 /\ WF_vars(\E readable \in BOOLEAN : FinishVerify(readable))

----------------------------------------------------------------------------
(* Properties.                                                             *)

PageNumbers == Nat \ {0}
PageRefs    == [epoch : Epochs, page : PageNumbers]
Requests    == [to : {"init"}] \cup [to : {"client"}, page : PageNumbers]
                 \cup [to : {"proxy"}, id : Nat, page : PageNumbers]
                 \cup [to : {"call"}, id : Calls] \cup [to : {"rpc"}, id : Rpcs]
Frames      == [to : {"init"}, text : Texts]
                 \cup [to : {"client"}, page : PageNumbers, epoch : Epochs, ok : BOOLEAN]
                 \cup [to : {"proxy"}, id : Nat, page : PageNumbers, epoch : Epochs, ok : BOOLEAN]
                 \cup [to : {"call"}, id : Calls, taint : Taints] \cup [to : {"rpc"}, id : Rpcs]
                 \cup [to : {"changed"}, epoch : Epochs]
Outcomes    == {"unsent", "pending", "result", "withheld", "denied"}

VerdictTypes ==
    /\ open \in BOOLEAN /\ busy \in {"none", "proxy", "client"}
    /\ verified \in BOOLEAN /\ stale \in BOOLEAN /\ pinHold \in BOOLEAN
    /\ DOMAIN toolStatus \subseteq Tools
    /\ \A t \in DOMAIN toolStatus :
          toolStatus[t] \in [verdict : Verdicts, drifted : BOOLEAN]
    /\ serverVerdict \in Verdicts /\ instructions \in Texts
    /\ pinned \in BOOLEAN /\ baselineExpected \in BOOLEAN
CallTypes ==
    /\ heldCalls \subseteq Calls /\ callsInFlight \subseteq Calls
    /\ responsesInFlight \subseteq Rpcs
    /\ outcome \in [Calls -> Outcomes]
    /\ hostInit \in {"none", "sent", "done"}
RoundTypes ==
    /\ clientListIds \in BOOLEAN /\ clientListPages \in Nat /\ shown \subseteq Tools
    /\ revalidating \in BOOLEAN /\ revalidateTimer \in BOOLEAN
    /\ proxyListIds \subseteq Nat /\ proxyIdCounter \in Nat
PageTypes ==
    /\ clientListAccum \in Seq(PageRefs)
    /\ proxyListAccum \in Seq(PageRefs)
    /\ basis \in Seq(PageRefs)
WireTypes ==
    /\ toServer \subseteq Requests /\ fromServer \in Seq(Frames)
    /\ epoch \in Epochs /\ announced \in 0..Len(Served) /\ leaked \in BOOLEAN

\* Every variable of the gate and of its two pipes holds a value of its type.
TypeOK == VerdictTypes /\ CallTypes /\ RoundTypes /\ PageTypes /\ WireTypes

\* A held call waits on a re-verification round that something is bound to
\* end: its timer, or the pin-store step that closes the round.  (A call
\* pushed to heldCalls with no round behind it would hang for the session.)
NoCallWaitsUnwatched ==
    open /\ heldCalls # {} => revalidating /\ (revalidateTimer \/ busy = "proxy")

\* A call is held, or sent to the server, or answered: never two of these.
\* In particular the host is never told "denied" about a call the server has,
\* whichever of the timer, the error and the last page ends the round.
CallsAreRoutedOnce ==
    /\ {c \in Calls : outcome[c] = "pending"} = heldCalls \cup callsInFlight
    /\ heldCalls \cap callsInFlight = {}
    /\ \A c \in Calls :
          \/ [to |-> "call", id |-> c] \in toServer
          \/ \E i \in DOMAIN fromServer : fromServer[i].to = "call" /\ fromServer[i].id = c
          => c \in callsInFlight

\* While the gate lets calls through, every page its verdicts rest on was
\* produced no earlier than the last tools/list_changed it has seen
\* (mcp-proxy.js:32, "a call while the manifest is stale is HELD until
\* re-verification completes").
VerdictsAreCurrent ==
    open /\ busy = "none" /\ ~MustHold =>
        \A i \in DOMAIN basis : basis[i].epoch >= announced

\* The pages of a re-verification round are pages 1, 2, ... of the server's
\* list: the late answer of an abandoned round never joins a later one.
RoundIsOneWalk ==
    \A i \in DOMAIN proxyListAccum : proxyListAccum[i].page = i

\* Forwarding a call, from the host or from the held ones, is a step that
\* finds no blocking text among the tool's listings, and, when the policy
\* enforces an expected pin, finds in the last listing the definition the
\* approval holds.
Vetted(c) ==
    LET t == ToolOf[c]
    IN  /\ PagesOf(basis', t) # {}
        /\ \A i \in PagesOf(basis', t) : AuditVerdict[Listed(basis', i)[t]] # "block"
        /\ Recheck /\ Policy # "permissive" /\ baselineExpected' =>
              /\ approval'.pinned
              /\ t \in DOMAIN approval'.tools
              /\ approval'.tools[t] = Listed(basis', Max(PagesOf(basis', t)))[t]
ForwardsOnlyVetted == [][\A c \in callsInFlight' \ callsInFlight : Vetted(c)]_vars

\* Once the host has the last page of a listing, every tool it was shown is one
\* whose calls the gate would allow (docs/threat-model.md:53: "denied tools are
\* stripped from the listing entirely").  Not so: pages before the last are
\* stripped when the drift is not known yet (mcp-proxy.js:442-448).
DeniedToolsAreStripped ==
    [][busy = "client" /\ busy' = "none" =>
          \A t \in shown' : Allows(toolStatus', pinHold', serverVerdict, t)]_vars

\* Our own re-verification traffic is never forwarded (mcp-proxy.js:264).
OwnTrafficStaysInside == ~leaked

\* While the gate lets calls through, the verdict of the instructions it last
\* received is the one its decisions use (mcp-proxy.js:353-355: findings on
\* the instructions "gate every call").
InstructionsAreAudited ==
    open /\ busy = "none" /\ hostInit = "done" /\ ~MustHold =>
        serverVerdict = AuditVerdict[instructions]

\* A held call is answered or forwarded, or the session ends, whatever the
\* server does: the timer alone is enough.
HeldCallsAreSettled == \A c \in Calls : c \in heldCalls ~> (c \notin heldCalls \/ ~open)
============================================================================
