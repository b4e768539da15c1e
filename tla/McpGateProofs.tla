--------------------------- MODULE McpGateProofs ---------------------------
(* Theorems about McpGate, for every value of its constants.               *)
EXTENDS McpGate, TLAPS

USE DEF verdictVars, listVars, callVars, revalVars, pinVars, hostVars

----------------------------------------------------------------------------
(* What the operators return.                                              *)

LEMMA EmptyPages == << >> \in Seq(PageRefs)
  OBVIOUS

\* The static audit gives verdict records, to tools only.
LEMMA AuditToolsType ==
    ASSUME NEW accum
    PROVE  /\ DOMAIN AuditTools(accum) \subseteq Tools
           /\ \A t \in DOMAIN AuditTools(accum) :
                 AuditTools(accum)[t] \in [verdict : Verdicts, drifted : BOOLEAN]
  <1>1. \A vs : WorstOf(vs) \in Verdicts
    BY DEF WorstOf, Verdicts
  <1>2. DOMAIN AuditTools(accum) = Names(accum)
    BY DEF AuditTools
  <1>3. ASSUME NEW t \in Names(accum)
        PROVE  AuditTools(accum)[t] \in [verdict : Verdicts, drifted : BOOLEAN]
    BY <1>1, <1>3 DEF AuditTools
  <1> QED BY <1>2, <1>3 DEF Names

LEMMA FrameType ==
    ASSUME WireTypes, NEW kind, Receives(kind)
    PROVE  Frame \in Frames /\ Frame.to = kind /\ fromServer' \in Seq(Frames)
  BY DEF WireTypes, Receives, Frame

\* A page frame of either list names a page the accumulators can hold.
LEMMA FramePage ==
    ASSUME WireTypes, NEW kind \in {"proxy", "client"}, Receives(kind)
    PROVE  [epoch |-> Frame.epoch, page |-> Frame.page] \in PageRefs
  BY FrameType DEF Frames, PageRefs

LEMMA PageCountType == RoundTypes => clientListPages + 1 \in Nat
  BY DEF RoundTypes

\* Starting or failing a round keeps its variables typed.
LEMMA RoundStarts ==
    ASSUME RoundTypes, PageTypes, WireTypes, StartRevalidation
    PROVE  /\ revalidating' \in BOOLEAN /\ revalidateTimer' \in BOOLEAN
           /\ proxyListIds' \subseteq Nat /\ proxyIdCounter' \in Nat
           /\ proxyListAccum' \in Seq(PageRefs)
           /\ toServer' \subseteq Requests
  <1>1. CASE revalidating /\ UNCHANGED revalVars /\ UNCHANGED toServer
    BY <1>1 DEF RoundTypes, PageTypes, WireTypes
  <1>2. CASE StartRound(TRUE)
    <2>1. proxyListIds' \subseteq Nat /\ proxyIdCounter' \in Nat
      BY <1>2 DEF RoundTypes, StartRound
    <2>2. toServer' \subseteq Requests
      BY <1>2 DEF PageNumbers, RoundTypes, WireTypes, StartRound, Requests
    <2> QED BY <1>2, <2>1, <2>2, EmptyPages DEF StartRound
  <1> QED BY <1>1, <1>2 DEF StartRevalidation

LEMMA RoundFails ==
    ASSUME CallTypes, RoundTypes, FailRevalidation
    PROVE  /\ revalidating' \in BOOLEAN /\ revalidateTimer' \in BOOLEAN
           /\ proxyListIds' \subseteq Nat /\ proxyIdCounter' \in Nat
           /\ proxyListAccum' \in Seq(PageRefs)
           /\ heldCalls' \subseteq Calls /\ callsInFlight' \subseteq Calls
           /\ outcome' \in [Calls -> Outcomes]
  BY EmptyPages DEF CallTypes, RoundTypes, FailRevalidation, AbandonRound, Outcomes

\* The synchronous part of _finishVerify keeps the verdicts typed.
LEMMA VerifyBegins ==
    ASSUME VerdictTypes, NEW accum \in Seq(PageRefs), NEW handler \in {"proxy", "client"},
           BeginVerify(accum, handler), UNCHANGED <<open, instructions, pinned, baselineExpected>>
    PROVE  VerdictTypes' /\ basis' \in Seq(PageRefs)
  BY AuditToolsType, GateAssumption DEF VerdictTypes, BeginVerify

----------------------------------------------------------------------------
(* Type correctness, one step per action.                                  *)

LEMMA TypeInit == Init => TypeOK
  <1> SUFFICES ASSUME Init PROVE TypeOK
    OBVIOUS
  <1>1. VerdictTypes
    <2>1. toolStatus = << >> /\ DOMAIN << >> = {}
      BY DEF Init
    <2>2. open = TRUE /\ busy = "none" /\ verified = FALSE /\ stale = FALSE /\ pinHold = FALSE
      BY DEF Init
    <2>3. serverVerdict = "safe" /\ instructions = NoText /\ pinned = FALSE
      BY DEF Init
    <2>4. baselineExpected \in BOOLEAN
      BY DEF Init
    <2> QED BY <2>1, <2>2, <2>3, <2>4, GateAssumption DEF VerdictTypes, Verdicts
  <1>2. CallTypes /\ RoundTypes
    BY DEF Init, CallTypes, RoundTypes, Outcomes
  <1>3. PageTypes
    BY EmptyPages DEF Init, PageTypes
  <1>4. WireTypes
    <2>1. 1 \in Epochs /\ 0 \in 0..Len(Served)
      BY GateAssumption DEF Epochs
    <2>2. << >> \in Seq(Frames)
      OBVIOUS
    <2> QED BY <2>1, <2>2 DEF Init, WireTypes
  <1> QED BY <1>1, <1>2, <1>3, <1>4 DEF TypeOK

LEMMA TypeFromClient == TypeOK /\ FromClient => TypeOK'
  <1> SUFFICES ASSUME TypeOK, FromClient PROVE TypeOK'
    OBVIOUS
  <1> USE DEF TypeOK
  <1>1. CASE ClientInitialize
    <2>1. VerdictTypes'
      BY <1>1 DEF ClientInitialize, VerdictTypes
    <2>2. CallTypes'
      BY <1>1 DEF ClientInitialize, CallTypes
    <2>3. RoundTypes'
      BY <1>1 DEF ClientInitialize, RoundTypes
    <2>4. PageTypes'
      BY <1>1 DEF ClientInitialize, PageTypes
    <2>5. WireTypes'
      BY <1>1 DEF ClientInitialize, WireTypes, Requests
    <2> QED BY <2>1, <2>2, <2>3, <2>4, <2>5
  <1>2. ASSUME NEW page \in Pages, ClientList(page) PROVE TypeOK'
    <2>1. VerdictTypes' /\ CallTypes'
      BY <1>2 DEF ClientList, VerdictTypes, CallTypes
    <2>2. RoundTypes'
      BY <1>2 DEF ClientList, RoundTypes
    <2>3. PageTypes'
      BY <1>2, EmptyPages DEF ClientList, PageTypes
    <2>4. WireTypes'
      BY <1>2, GateAssumption DEF PageNumbers, ClientList, WireTypes, Pages, Requests
    <2> QED BY <2>1, <2>2, <2>3, <2>4
  <1>3. ASSUME NEW c \in Calls, ClientCallHeld(c) PROVE TypeOK'
    <2>1. VerdictTypes'
      BY <1>3 DEF ClientCallHeld, VerdictTypes
    <2>2. CallTypes'
      BY <1>3 DEF ClientCallHeld, CallTypes, Outcomes
    <2>3. RoundTypes'
      BY <1>3, RoundStarts DEF ClientCallHeld, RoundTypes
    <2>4. PageTypes'
      BY <1>3, RoundStarts DEF ClientCallHeld, PageTypes
    <2>5. WireTypes'
      BY <1>3, RoundStarts DEF ClientCallHeld, WireTypes
    <2> QED BY <2>1, <2>2, <2>3, <2>4, <2>5
  <1>4. ASSUME NEW c \in Calls, ClientCallDecided(c) PROVE TypeOK'
    <2>1. VerdictTypes' /\ RoundTypes' /\ PageTypes'
      BY <1>4 DEF ClientCallDecided, VerdictTypes, RoundTypes, PageTypes
    <2>2. /\ callsInFlight' \subseteq Calls /\ outcome' \in [Calls -> Outcomes]
          /\ toServer' \subseteq Requests
      <3>1. CASE Allows(toolStatus, pinHold, serverVerdict, ToolOf[c])
        BY <1>4, <3>1 DEF ClientCallDecided, CallTypes, WireTypes, Outcomes, Requests
      <3>2. CASE ~Allows(toolStatus, pinHold, serverVerdict, ToolOf[c])
        BY <1>4, <3>2 DEF ClientCallDecided, CallTypes, WireTypes, Outcomes
      <3> QED BY <3>1, <3>2
    <2> QED BY <1>4, <2>1, <2>2 DEF ClientCallDecided, CallTypes, WireTypes
  <1>5. ASSUME NEW c \in Calls, ClientBatchRefused(c) PROVE TypeOK'
    BY <1>5 DEF ClientBatchRefused, VerdictTypes, CallTypes, RoundTypes, PageTypes, WireTypes, Outcomes
  <1>6. ASSUME NEW r \in Rpcs, ClientRpc(r) PROVE TypeOK'
    BY <1>6 DEF ClientRpc, VerdictTypes, CallTypes, RoundTypes, PageTypes, WireTypes, Requests
  <1>7. CASE ClientFrameThrows
    <2>1. VerdictTypes'
      BY <1>7 DEF ClientFrameThrows, Settle, VerdictTypes
    <2>2. CallTypes'
      BY <1>7 DEF ClientFrameThrows, Settle, CallTypes
    <2>3. RoundTypes'
      BY <1>7 DEF ClientFrameThrows, Settle, RoundTypes
    <2>4. PageTypes'
      BY <1>7 DEF ClientFrameThrows, Settle, PageTypes
    <2>5. WireTypes'
      BY <1>7 DEF ClientFrameThrows, Settle, WireTypes
    <2> QED BY <2>1, <2>2, <2>3, <2>4, <2>5
  <1> QED BY <1>1, <1>2, <1>3, <1>4, <1>5, <1>6, <1>7 DEF FromClient

LEMMA TypeFromServer == TypeOK /\ FromServer => TypeOK'
  <1> SUFFICES ASSUME TypeOK, FromServer PROVE TypeOK'
    OBVIOUS
  <1> USE DEF TypeOK
  <1>1. CASE OnProxyListResponse
    <2> DEFINE accum == Append(proxyListAccum, [epoch |-> Frame.epoch, page |-> Frame.page])
    <2>1. accum \in Seq(PageRefs)
      BY <1>1, FramePage DEF OnProxyListResponse, PageTypes
    <2>  HIDE DEF accum
    <2>2. WireTypes' \/ toServer' # toServer
      BY <1>1, FrameType DEF OnProxyListResponse, WireTypes
    <2>3. CASE FailRevalidation /\ UNCHANGED <<busy, toServer>> /\ UNCHANGED verdictVars
      <3>1. VerdictTypes'
        BY <1>1, <2>3 DEF OnProxyListResponse, VerdictTypes
      <3>2. CallTypes' /\ RoundTypes' /\ PageTypes'
        BY <1>1, <2>3, RoundFails DEF OnProxyListResponse, CallTypes, RoundTypes, PageTypes
      <3> QED BY <2>2, <2>3, <3>1, <3>2
    <2>4. CASE /\ proxyListAccum' = accum
               /\ proxyIdCounter' = proxyIdCounter + 1
               /\ proxyListIds' = (proxyListIds \ {Frame.id}) \cup {proxyIdCounter + 1}
               /\ toServer' = toServer \cup
                    {[to |-> "proxy", id |-> proxyIdCounter + 1, page |-> Frame.page + 1]}
               /\ UNCHANGED <<busy, revalidating, revalidateTimer>>
               /\ UNCHANGED verdictVars /\ UNCHANGED callVars
      <3>1. VerdictTypes' /\ CallTypes'
        BY <1>1, <2>4 DEF OnProxyListResponse, VerdictTypes, CallTypes
      <3>2. RoundTypes'
        <4>1. UNCHANGED listVars
          BY <1>1 DEF OnProxyListResponse
        <4>2. proxyIdCounter' \in Nat /\ proxyListIds' \subseteq Nat
          <5>1. proxyIdCounter + 1 \in Nat /\ proxyListIds \subseteq Nat
            BY DEF RoundTypes
          <5> QED BY <2>4, <5>1
        <4> QED BY <2>4, <4>1, <4>2 DEF RoundTypes
      <3>3. PageTypes'
        BY <1>1, <2>1, <2>4 DEF OnProxyListResponse, PageTypes
      <3>4. toServer' \subseteq Requests
        <4>1. Frame.page + 1 \in PageNumbers
          BY <1>1, FramePage DEF PageNumbers, OnProxyListResponse, PageRefs
        <4>2. proxyIdCounter + 1 \in Nat
          BY DEF RoundTypes
        <4> QED BY <2>4, <4>1, <4>2 DEF WireTypes, Requests
      <3>5. WireTypes'
        BY <1>1, <3>4, FrameType DEF OnProxyListResponse, WireTypes
      <3> QED BY <3>1, <3>2, <3>3, <3>5
    <2>5. CASE /\ proxyListAccum' = accum
               /\ proxyListIds' = proxyListIds \ {Frame.id}
               /\ revalidateTimer' = FALSE
               /\ BeginVerify(accum, "proxy")
               /\ UNCHANGED <<revalidating, proxyIdCounter, toServer>> /\ UNCHANGED callVars
      <3>1. VerdictTypes' /\ basis' \in Seq(PageRefs)
        BY <1>1, <2>1, <2>5, VerifyBegins DEF OnProxyListResponse
      <3>2. CallTypes' /\ RoundTypes'
        BY <1>1, <2>5 DEF OnProxyListResponse, CallTypes, RoundTypes
      <3>3. PageTypes'
        BY <1>1, <2>1, <2>5, <3>1 DEF OnProxyListResponse, PageTypes
      <3> QED BY <2>2, <2>5, <3>1, <3>2, <3>3
    <2> QED BY <1>1, <2>3, <2>4, <2>5 DEF OnProxyListResponse, accum
  <1>2. CASE OnUnknownResponse
    BY <1>2, FrameType DEF OnUnknownResponse, VerdictTypes, CallTypes, RoundTypes, PageTypes, WireTypes
  <1>3. CASE OnInitializeResponse
    <2>1. Frame.text \in Texts
      BY <1>3, FrameType DEF OnInitializeResponse, Frames
    <2> QED BY <1>3, <2>1, FrameType
            DEF OnInitializeResponse, VerdictTypes, CallTypes, RoundTypes, PageTypes, WireTypes
  <1>4. CASE OnClientListError
    <2>1. VerdictTypes'
      BY <1>4 DEF OnClientListError, VerdictTypes
    <2>2. CallTypes'
      BY <1>4 DEF OnClientListError, CallTypes
    <2>3. RoundTypes'
      BY <1>4 DEF OnClientListError, RoundTypes
    <2>4. PageTypes'
      BY <1>4 DEF OnClientListError, PageTypes
    <2>5. WireTypes'
      BY <1>4, FrameType DEF OnClientListError, WireTypes
    <2> QED BY <2>1, <2>2, <2>3, <2>4, <2>5
  <1>5. CASE OnClientListPage
    <2> DEFINE page  == [epoch |-> Frame.epoch, page |-> Frame.page]
               accum == Append(clientListAccum, page)
    <2>1. accum \in Seq(PageRefs)
      BY <1>5, FramePage DEF OnClientListPage, PageTypes
    <2>2. CallTypes' /\ WireTypes'
      BY <1>5, FrameType DEF OnClientListPage, CallTypes, WireTypes
    <2>5. clientListIds' = FALSE /\ UNCHANGED revalVars
      BY <1>5 DEF OnClientListPage
    <2>6. clientListPages' \in Nat
      BY <1>5, PageCountType DEF OnClientListPage
    <2>3. CASE /\ shown' = shown \cup Stripped(AuditTools(<<page>>), pinHold, accum)
               /\ UNCHANGED busy /\ UNCHANGED verdictVars
      <3>1. VerdictTypes'
        BY <1>5, <2>3 DEF OnClientListPage, VerdictTypes
      <3>2. RoundTypes'
        <4>1. Stripped(AuditTools(<<page>>), pinHold, accum) \subseteq Tools
          BY DEF Stripped, Names
        <4>2. shown' \subseteq Tools
          BY <2>3, <4>1 DEF RoundTypes
        <4> QED BY <2>5, <2>6, <4>2 DEF RoundTypes
      <3>3. PageTypes'
        BY <1>5, <2>1, <2>3 DEF OnClientListPage, PageTypes
      <3> QED BY <2>2, <3>1, <3>2, <3>3
    <2>4. CASE BeginVerify(accum, "client") /\ UNCHANGED shown
      <3>1. VerdictTypes' /\ basis' \in Seq(PageRefs)
        BY <1>5, <2>1, <2>4, VerifyBegins DEF OnClientListPage
      <3>2. RoundTypes'
        BY <2>4, <2>5, <2>6 DEF RoundTypes
      <3>3. PageTypes'
        BY <1>5, <2>1, <3>1 DEF OnClientListPage, PageTypes
      <3> QED BY <2>2, <3>1, <3>2, <3>3
    <2> QED BY <1>5, <2>3, <2>4 DEF OnClientListPage
  <1>6. CASE OnClientListThrows
    <2>1. VerdictTypes'
      BY <1>6 DEF OnClientListThrows, Settle, VerdictTypes
    <2>2. CallTypes'
      BY <1>6 DEF OnClientListThrows, Settle, CallTypes
    <2>3. RoundTypes'
      <3>1. clientListPages' \in Nat
        BY <1>6, PageCountType DEF OnClientListThrows
      <3>2. clientListIds' = FALSE /\ revalidateTimer' = FALSE
        BY <1>6 DEF OnClientListThrows, Settle
      <3>3. UNCHANGED <<shown, revalidating, proxyListIds, proxyIdCounter>>
        BY <1>6 DEF OnClientListThrows
      <3> QED BY <3>1, <3>2, <3>3 DEF RoundTypes
    <2>4. PageTypes'
      BY <1>6 DEF OnClientListThrows, Settle, PageTypes
    <2>5. WireTypes'
      BY <1>6, FrameType DEF OnClientListThrows, Settle, WireTypes
    <2> QED BY <2>1, <2>2, <2>3, <2>4, <2>5
  <1>7. CASE OnCallResult
    <2>1. VerdictTypes'
      BY <1>7 DEF OnCallResult, VerdictTypes
    <2>2. CallTypes'
      BY <1>7 DEF OnCallResult, CallTypes, Outcomes
    <2>3. RoundTypes'
      BY <1>7 DEF OnCallResult, RoundTypes
    <2>4. PageTypes'
      BY <1>7 DEF OnCallResult, PageTypes
    <2>5. WireTypes'
      BY <1>7, FrameType DEF OnCallResult, WireTypes
    <2> QED BY <2>1, <2>2, <2>3, <2>4, <2>5
  <1>8. CASE OnRpcResult
    BY <1>8, FrameType DEF OnRpcResult, VerdictTypes, CallTypes, RoundTypes, PageTypes, WireTypes
  <1>9. CASE OnListChanged
    <2>1. Frame.epoch \in 0..Len(Served) /\ fromServer' \in Seq(Frames)
      BY <1>9, FrameType, GateAssumption DEF OnListChanged, Frames, Epochs
    <2>2. VerdictTypes' /\ CallTypes'
      BY <1>9 DEF OnListChanged, VerdictTypes, CallTypes
    <2>3. RoundTypes'
      BY <1>9, RoundStarts DEF OnListChanged, RoundTypes
    <2>4. PageTypes'
      BY <1>9, RoundStarts DEF OnListChanged, PageTypes
    <2>5. WireTypes'
      BY <1>9, <2>1, RoundStarts DEF OnListChanged, WireTypes
    <2> QED BY <2>2, <2>3, <2>4, <2>5
  <1> QED BY <1>1, <1>2, <1>3, <1>4, <1>5, <1>6, <1>7, <1>8, <1>9 DEF FromServer

LEMMA TypeEnvironment == TypeOK /\ Environment => TypeOK'
  <1> SUFFICES ASSUME TypeOK, Environment PROVE TypeOK'
    OBVIOUS
  <1> USE DEF TypeOK
  <1>1. ASSUME NEW request \in toServer, ServerAnswers(request) PROVE TypeOK'
    <2>1. fromServer' \in Seq(Frames)
      <3>1. request \in Requests /\ fromServer \in Seq(Frames) /\ epoch \in Epochs
        BY DEF WireTypes
      <3>2. Served[epoch].instructions \in Texts
        BY <3>1, GateAssumption
      <3>3. PICK frame \in AnswersTo(request) : fromServer' = Append(fromServer, frame)
        BY <1>1 DEF ServerAnswers
      <3>4. frame \in Frames
        BY <3>1, <3>2, <3>3 DEF AnswersTo, Requests, Frames
      <3> QED BY <3>1, <3>3, <3>4
    <2> QED BY <1>1, <2>1
            DEF ServerAnswers, VerdictTypes, CallTypes, RoundTypes, PageTypes, WireTypes
  <1>2. CASE ServerChangesManifest
    <2>1. epoch + 1 \in Epochs
      BY <1>2, GateAssumption DEF ServerChangesManifest, WireTypes, Epochs
    <2>2. fromServer' \in Seq(Frames)
      BY <1>2, <2>1 DEF ServerChangesManifest, WireTypes, Frames
    <2> QED BY <1>2, <2>1, <2>2
            DEF ServerChangesManifest, VerdictTypes, CallTypes, RoundTypes, PageTypes, WireTypes
  <1>3. CASE StoreRewritten
    BY <1>3 DEF StoreRewritten, VerdictTypes, CallTypes, RoundTypes, PageTypes, WireTypes
  <1>4. CASE SessionEnds
    <2>1. open' \in BOOLEAN /\ revalidateTimer' \in BOOLEAN
      BY <1>4 DEF SessionEnds, Settle
    <2>2. VerdictTypes' /\ CallTypes'
      BY <1>4, <2>1 DEF SessionEnds, VerdictTypes, CallTypes
    <2>3. RoundTypes' /\ PageTypes'
      BY <1>4, <2>1 DEF SessionEnds, RoundTypes, PageTypes
    <2>4. WireTypes'
      BY <1>4 DEF SessionEnds, WireTypes
    <2> QED BY <2>2, <2>3, <2>4
  <1> QED BY <1>1, <1>2, <1>3, <1>4 DEF Environment

LEMMA TypeFinishVerify ==
    ASSUME TypeOK, NEW readable \in BOOLEAN, FinishVerify(readable)
    PROVE  TypeOK'
  <1> DEFINE hold   == StoreHold(readable)
             status == [t \in DOMAIN toolStatus |->
                          [verdict |-> toolStatus[t].verdict, drifted |-> t \in Drifted(readable)]]
             routed == {c \in heldCalls : Allows(status, hold, serverVerdict, ToolOf[c])}
  <1> USE DEF TypeOK
  <1>1. VerdictTypes'
    <2>1. /\ toolStatus' = status /\ pinHold' = hold
          /\ pinned' = (pinned \/ (PinsNow /\ readable))
          /\ baselineExpected' = (baselineExpected \/ (PinsNow /\ readable)
                                     \/ (RechecksNow /\ readable /\ baseline.pinned))
          /\ busy' = "none" /\ UNCHANGED <<open, verified, stale, serverVerdict>>
          /\ UNCHANGED hostVars
      BY DEF FinishVerify
    <2>2. hold \in BOOLEAN /\ pinned' \in BOOLEAN /\ baselineExpected' \in BOOLEAN
      BY <2>1 DEF StoreHold
    <2>3. \A t \in DOMAIN status : status[t] \in [verdict : Verdicts, drifted : BOOLEAN]
      BY DEF VerdictTypes
    <2> HIDE DEF status, hold
    <2> QED BY <2>1, <2>2, <2>3 DEF VerdictTypes, status
  <1>2. routed \subseteq heldCalls
    OBVIOUS
  <1>3. /\ heldCalls' = {} /\ callsInFlight' = callsInFlight \cup routed
        /\ toServer' = toServer \cup {[to |-> "call", id |-> c] : c \in routed}
        /\ outcome' = [c \in Calls |-> IF c \in heldCalls \ routed THEN "denied" ELSE outcome[c]]
        /\ UNCHANGED <<fromServer, epoch, announced, leaked>> /\ UNCHANGED hostVars
    BY DEF FinishVerify
  <1> HIDE DEF routed
  <1>4. CallTypes'
    BY <1>2, <1>3 DEF CallTypes, Outcomes
  <1>5. WireTypes'
    BY <1>2, <1>3 DEF CallTypes, WireTypes, Requests
  <1>6. RoundTypes' /\ PageTypes'
    <2>1. /\ UNCHANGED <<basis, clientListIds, clientListPages, revalidateTimer, proxyListIds,
                         proxyListAccum, proxyIdCounter>>
          /\ \/ revalidating' = FALSE /\ UNCHANGED <<clientListAccum, shown>>
             \/ /\ clientListAccum' = << >>
                /\ shown' = shown \cup Stripped(status, hold, basis)
                /\ UNCHANGED revalidating
      BY DEF FinishVerify
    <2>2. Stripped(status, hold, basis) \subseteq Tools
      BY DEF Stripped, Names
    <2> HIDE DEF status, hold
    <2>3. CASE revalidating' = FALSE /\ UNCHANGED <<clientListAccum, shown>>
      BY <2>1, <2>3 DEF RoundTypes, PageTypes
    <2>4. CASE /\ clientListAccum' = << >>
               /\ shown' = shown \cup Stripped(status, hold, basis)
               /\ UNCHANGED revalidating
      BY <2>1, <2>2, <2>4, EmptyPages DEF RoundTypes, PageTypes
    <2> QED BY <2>1, <2>3, <2>4
  <1> QED BY <1>1, <1>4, <1>5, <1>6

\* Every reachable state of the gate is well typed.
THEOREM TypeCorrect == Spec => []TypeOK
  <1>1. TypeOK /\ [Next]_vars => TypeOK'
    <2> SUFFICES ASSUME TypeOK, [Next]_vars PROVE TypeOK'
      OBVIOUS
    <2>1. CASE RevalidationTimesOut
      <3>1. VerdictTypes' /\ WireTypes'
        BY <2>1 DEF RevalidationTimesOut, TypeOK, VerdictTypes, WireTypes
      <3>2. CallTypes' /\ RoundTypes' /\ PageTypes'
        BY <2>1, RoundFails DEF RevalidationTimesOut, TypeOK, CallTypes, RoundTypes, PageTypes
      <3> QED BY <3>1, <3>2 DEF TypeOK
    <2>2. CASE UNCHANGED vars
      BY <2>2 DEF TypeOK, VerdictTypes, CallTypes, RoundTypes, PageTypes, WireTypes, vars
    <2> QED BY <2>1, <2>2, TypeFromClient, TypeFromServer, TypeEnvironment, TypeFinishVerify DEF Next
  <1> QED BY <1>1, TypeInit, PTL DEF Spec
----------------------------------------------------------------------------
(* No held call is left without something that ends its wait.              *)

\* Inductive: the round behind the held calls, and what ends a round.
RoundIsWatched ==
    /\ heldCalls # {} => revalidating
    /\ open /\ revalidating => revalidateTimer \/ busy = "proxy"

\* A started round is armed; a failed one leaves nothing held.
LEMMA StartsWatched ==
    ASSUME RoundIsWatched, Running, StartRevalidation
    PROVE  revalidating' /\ revalidateTimer'
  BY DEF RoundIsWatched, Running, StartRevalidation, StartRound

LEMMA WatchedFromClient == RoundIsWatched /\ FromClient => RoundIsWatched'
  <1> SUFFICES ASSUME RoundIsWatched, FromClient PROVE RoundIsWatched'
    OBVIOUS
  <1>1. CASE ClientInitialize
    BY <1>1 DEF ClientInitialize, RoundIsWatched
  <1>2. ASSUME NEW page \in Pages, ClientList(page) PROVE RoundIsWatched'
    BY <1>2 DEF ClientList, RoundIsWatched
  <1>3. ASSUME NEW c \in Calls, ClientCallHeld(c) PROVE RoundIsWatched'
    BY <1>3, StartsWatched DEF ClientCallHeld, RoundIsWatched
  <1>4. ASSUME NEW c \in Calls, ClientCallDecided(c) PROVE RoundIsWatched'
    BY <1>4 DEF ClientCallDecided, RoundIsWatched
  <1>5. ASSUME NEW c \in Calls, ClientBatchRefused(c) PROVE RoundIsWatched'
    BY <1>5 DEF ClientBatchRefused, RoundIsWatched
  <1>6. ASSUME NEW r \in Rpcs, ClientRpc(r) PROVE RoundIsWatched'
    BY <1>6 DEF ClientRpc, RoundIsWatched
  <1>7. CASE ClientFrameThrows
    BY <1>7 DEF ClientFrameThrows, Settle, RoundIsWatched
  <1> QED BY <1>1, <1>2, <1>3, <1>4, <1>5, <1>6, <1>7 DEF FromClient

LEMMA WatchedFromServer == RoundIsWatched /\ FromServer => RoundIsWatched'
  <1> SUFFICES ASSUME RoundIsWatched, FromServer PROVE RoundIsWatched'
    OBVIOUS
  <1>1. CASE OnProxyListResponse
    <2>1. Running /\ UNCHANGED open
      BY <1>1 DEF OnProxyListResponse, Receives
    <2>2. CASE FailRevalidation
      BY <2>2 DEF FailRevalidation, AbandonRound, RoundIsWatched
    <2>3. CASE UNCHANGED <<busy, revalidating, revalidateTimer>> /\ UNCHANGED callVars
      BY <2>1, <2>3 DEF RoundIsWatched
    <2>4. CASE busy' = "proxy" /\ UNCHANGED revalidating /\ UNCHANGED callVars
      BY <2>4 DEF RoundIsWatched
    <2> QED BY <1>1, <2>2, <2>3, <2>4 DEF OnProxyListResponse, BeginVerify
  <1>2. CASE OnUnknownResponse
    BY <1>2 DEF OnUnknownResponse, RoundIsWatched
  <1>3. CASE OnInitializeResponse
    BY <1>3 DEF OnInitializeResponse, RoundIsWatched
  <1>4. CASE OnClientListError
    BY <1>4 DEF OnClientListError, RoundIsWatched
  <1>5. CASE OnClientListPage
    BY <1>5 DEF OnClientListPage, Receives, Running, RoundIsWatched
  <1>6. CASE OnClientListThrows
    BY <1>6 DEF OnClientListThrows, Settle, RoundIsWatched
  <1>7. CASE OnCallResult
    BY <1>7 DEF OnCallResult, RoundIsWatched
  <1>8. CASE OnRpcResult
    BY <1>8 DEF OnRpcResult, RoundIsWatched
  <1>9. CASE OnListChanged
    BY <1>9, StartsWatched DEF OnListChanged, Receives, RoundIsWatched
  <1> QED BY <1>1, <1>2, <1>3, <1>4, <1>5, <1>6, <1>7, <1>8, <1>9 DEF FromServer

LEMMA WatchedEnvironment == RoundIsWatched /\ Environment => RoundIsWatched'
  <1> SUFFICES ASSUME RoundIsWatched, Environment PROVE RoundIsWatched'
    OBVIOUS
  <1>1. ASSUME NEW request \in toServer, ServerAnswers(request) PROVE RoundIsWatched'
    BY <1>1 DEF ServerAnswers, RoundIsWatched
  <1>2. CASE ServerChangesManifest
    BY <1>2 DEF ServerChangesManifest, RoundIsWatched
  <1>3. CASE StoreRewritten
    BY <1>3 DEF StoreRewritten, RoundIsWatched
  <1>4. CASE SessionEnds
    BY <1>4 DEF SessionEnds, Settle, RoundIsWatched
  <1> QED BY <1>1, <1>2, <1>3, <1>4 DEF Environment

\* In every reachable state of an open session, a held call waits on a round
\* whose timer is armed, or whose last step is under way.
THEOREM HeldCallsAreWatched == Spec => []NoCallWaitsUnwatched
  <1>1. Init => RoundIsWatched
    BY DEF Init, RoundIsWatched
  <1>2. RoundIsWatched /\ [Next]_vars => RoundIsWatched'
    <2> SUFFICES ASSUME RoundIsWatched, [Next]_vars PROVE RoundIsWatched'
      OBVIOUS
    <2>1. CASE RevalidationTimesOut
      BY <2>1 DEF RevalidationTimesOut, FailRevalidation, AbandonRound, RoundIsWatched
    <2>2. ASSUME NEW readable \in BOOLEAN, FinishVerify(readable) PROVE RoundIsWatched'
      <3>1. /\ heldCalls' = {} /\ UNCHANGED <<open, revalidateTimer>>
            /\ \/ busy = "proxy" /\ revalidating' = FALSE
               \/ busy = "client" /\ UNCHANGED revalidating
        BY <2>2 DEF FinishVerify
      <3> QED BY <3>1 DEF RoundIsWatched
    <2>3. CASE UNCHANGED vars
      BY <2>3 DEF RoundIsWatched, vars
    <2> QED BY <2>1, <2>2, <2>3, WatchedFromClient, WatchedFromServer, WatchedEnvironment DEF Next
  <1>3. RoundIsWatched => NoCallWaitsUnwatched
    BY DEF RoundIsWatched, NoCallWaitsUnwatched
  <1> QED BY <1>1, <1>2, <1>3, PTL DEF Spec

----------------------------------------------------------------------------
(* The two pipes: what a frame taken or appended does to the positions.    *)

\* What the gate reads is the head; the rest move up by one.
LEMMA PipeRead ==
    ASSUME WireTypes, NEW kind, Receives(kind)
    PROVE  /\ 1 \in DOMAIN fromServer /\ Frame = fromServer[1] /\ Frame.to = kind
           /\ \A i \in DOMAIN fromServer' :
                 /\ i \in Nat /\ i + 1 \in DOMAIN fromServer /\ i + 1 # 1
                 /\ fromServer'[i] = fromServer[i + 1]
  BY DEF WireTypes, Receives, Frame

\* What the server writes comes last.
LEMMA PipeWritten ==
    ASSUME WireTypes, NEW frame, fromServer' = Append(fromServer, frame)
    PROVE  \A i \in DOMAIN fromServer' :
              \/ i \in DOMAIN fromServer /\ fromServer'[i] = fromServer[i]
              \/ i = Len(fromServer) + 1 /\ i \notin DOMAIN fromServer /\ fromServer'[i] = frame
  BY DEF WireTypes

----------------------------------------------------------------------------
(* A call is held, or with the server, or answered.                        *)

CallRequest(c)     == [to |-> "call", id |-> c]
IsResultOf(frame, c) == frame.to = "call" /\ frame.id = c

\* Where a call is accounted for.
Accounted(c) ==
    /\ outcome[c] = "pending" <=> c \in heldCalls \cup callsInFlight
    /\ ~(c \in heldCalls /\ c \in callsInFlight)
\* The wire holds a call at most once, and only while it is in flight.
OnWireOnce(c) ==
    /\ CallRequest(c) \in toServer => c \in callsInFlight
    /\ \A i \in DOMAIN fromServer :
          IsResultOf(fromServer[i], c) =>
             /\ c \in callsInFlight
             /\ CallRequest(c) \notin toServer
             /\ \A j \in DOMAIN fromServer : IsResultOf(fromServer[j], c) => i = j
RoutingInv == \A c \in Calls : Accounted(c) /\ OnWireOnce(c)

\* A step that touches neither the calls nor the pipe, and sends the server no
\* call.
LEMMA CallsUntouched ==
    ASSUME RoutingInv, UNCHANGED callVars, UNCHANGED fromServer,
           \A c \in Calls : CallRequest(c) \in toServer' => CallRequest(c) \in toServer
    PROVE  RoutingInv'
  <1> SUFFICES ASSUME NEW c \in Calls PROVE Accounted(c)' /\ OnWireOnce(c)'
    BY DEF RoutingInv
  <1>1. Accounted(c) /\ OnWireOnce(c)
    BY DEF RoutingInv
  <1>2. Accounted(c)'
    BY <1>1 DEF Accounted
  <1>3. OnWireOnce(c)'
    BY <1>1 DEF OnWireOnce, CallRequest, IsResultOf
  <1> QED BY <1>2, <1>3

\* Taking a frame that is no result of a call.
LEMMA OtherFrameTaken ==
    ASSUME RoutingInv, WireTypes, NEW kind, kind # "call", Receives(kind), UNCHANGED callVars,
           \A c \in Calls : CallRequest(c) \in toServer' => CallRequest(c) \in toServer
    PROVE  RoutingInv'
  <1> SUFFICES ASSUME NEW c \in Calls PROVE Accounted(c)' /\ OnWireOnce(c)'
    BY DEF RoutingInv
  <1>1. Accounted(c)'
    BY DEF RoutingInv, Accounted
  <1>2. OnWireOnce(c)'
    <2>1. OnWireOnce(c)
      BY DEF RoutingInv
    <2>2. \A i, j \in DOMAIN fromServer' : i + 1 = j + 1 => i = j
      BY PipeRead
    <2>3. \A i \in DOMAIN fromServer' :
             /\ i + 1 \in DOMAIN fromServer
             /\ fromServer'[i] = fromServer[i + 1]
      BY PipeRead
    <2> QED BY <2>1, <2>2, <2>3 DEF OnWireOnce, CallRequest, IsResultOf
  <1> QED BY <1>1, <1>2

\* The timer, an error or a page too many: what was held is denied.
LEMMA HeldAreDenied ==
    ASSUME RoutingInv, FailRevalidation, UNCHANGED <<toServer, fromServer>>
    PROVE  RoutingInv'
  <1> SUFFICES ASSUME NEW c \in Calls PROVE Accounted(c)' /\ OnWireOnce(c)'
    BY DEF RoutingInv
  <1>1. Accounted(c) /\ OnWireOnce(c)
    BY DEF RoutingInv
  <1>2. /\ heldCalls' = {} /\ UNCHANGED callsInFlight
        /\ outcome'[c] = IF c \in heldCalls THEN "denied" ELSE outcome[c]
    BY DEF FailRevalidation, AbandonRound
  <1>3. Accounted(c)'
    BY <1>1, <1>2 DEF Accounted
  <1>4. OnWireOnce(c)'
    BY <1>1, <1>2 DEF OnWireOnce, CallRequest, IsResultOf
  <1> QED BY <1>3, <1>4

LEMMA RoundSendsNoCall ==
    ASSUME NEW c \in Calls, StartRevalidation, CallRequest(c) \in toServer'
    PROVE  CallRequest(c) \in toServer
  <1>1. CASE UNCHANGED toServer
    BY <1>1
  <1>2. CASE StartRound(TRUE)
    <2>1. CallRequest(c) # [to |-> "proxy", id |-> proxyIdCounter + 1, page |-> 1]
      BY DEF CallRequest
    <2> QED BY <1>2, <2>1 DEF StartRound
  <1> QED BY <1>1, <1>2 DEF StartRevalidation

LEMMA RoutedFromClient == TypeOK /\ RoutingInv /\ FromClient => RoutingInv'
  <1> SUFFICES ASSUME TypeOK, RoutingInv, FromClient PROVE RoutingInv'
    OBVIOUS
  <1>1. CASE ClientInitialize
    BY <1>1, CallsUntouched DEF ClientInitialize, CallRequest
  <1>2. ASSUME NEW page \in Pages, ClientList(page) PROVE RoutingInv'
    BY <1>2, CallsUntouched DEF ClientList, CallRequest
  <1>3. ASSUME NEW c \in Calls, ClientCallHeld(c) PROVE RoutingInv'
    <2> SUFFICES ASSUME NEW d \in Calls PROVE Accounted(d)' /\ OnWireOnce(d)'
      BY DEF RoutingInv
    <2>1. Accounted(d) /\ OnWireOnce(d) /\ Accounted(c)
      BY DEF RoutingInv
    <2>2. /\ heldCalls' = heldCalls \cup {c} /\ UNCHANGED <<callsInFlight, fromServer>>
          /\ outcome[c] = "unsent" /\ outcome'[c] = "pending"
          /\ d # c => outcome'[d] = outcome[d]
      BY <1>3 DEF ClientCallHeld, TypeOK, CallTypes
    <2>3. CallRequest(d) \in toServer' => CallRequest(d) \in toServer
      BY <1>3, RoundSendsNoCall DEF ClientCallHeld
    <2>4. Accounted(d)'
      BY <2>1, <2>2 DEF Accounted
    <2>5. OnWireOnce(d)'
      BY <2>1, <2>2, <2>3 DEF OnWireOnce, CallRequest, IsResultOf
    <2> QED BY <2>4, <2>5
  <1>4. ASSUME NEW c \in Calls, ClientCallDecided(c) PROVE RoutingInv'
    <2> SUFFICES ASSUME NEW d \in Calls PROVE Accounted(d)' /\ OnWireOnce(d)'
      BY DEF RoutingInv
    <2>1. Accounted(d) /\ OnWireOnce(d) /\ Accounted(c) /\ OnWireOnce(c)
      BY DEF RoutingInv
    <2>2. /\ UNCHANGED <<heldCalls, fromServer>> /\ outcome[c] = "unsent"
      BY <1>4 DEF ClientCallDecided
    <2>3. CASE /\ callsInFlight' = callsInFlight \cup {c}
               /\ outcome' = [outcome EXCEPT ![c] = "pending"]
               /\ toServer' = toServer \cup {[to |-> "call", id |-> c]}
      <3>1. outcome'[c] = "pending" /\ (d # c => outcome'[d] = outcome[d])
        BY <2>3 DEF TypeOK, CallTypes
      <3>2. CallRequest(d) \in toServer' => CallRequest(d) \in toServer \/ d = c
        BY <2>3 DEF CallRequest
      <3>3. Accounted(d)'
        BY <2>1, <2>2, <2>3, <3>1 DEF Accounted
      <3>4. \A i \in DOMAIN fromServer : ~IsResultOf(fromServer[i], c)
        BY <2>1, <2>2 DEF Accounted, OnWireOnce
      <3>5. OnWireOnce(d)'
        BY <2>1, <2>2, <2>3, <3>2, <3>4 DEF OnWireOnce, CallRequest, IsResultOf
      <3> QED BY <3>3, <3>5
    <2>4. CASE outcome' = [outcome EXCEPT ![c] = "denied"] /\ UNCHANGED <<callsInFlight, toServer>>
      <3>1. outcome'[c] = "denied" /\ (d # c => outcome'[d] = outcome[d])
        BY <2>4 DEF TypeOK, CallTypes
      <3>2. Accounted(d)'
        BY <2>1, <2>2, <2>4, <3>1 DEF Accounted
      <3>3. OnWireOnce(d)'
        BY <2>1, <2>2, <2>4 DEF OnWireOnce, CallRequest, IsResultOf
      <3> QED BY <3>2, <3>3
    <2> QED BY <1>4, <2>3, <2>4 DEF ClientCallDecided
  <1>5. ASSUME NEW c \in Calls, ClientBatchRefused(c) PROVE RoutingInv'
    <2> SUFFICES ASSUME NEW d \in Calls PROVE Accounted(d)' /\ OnWireOnce(d)'
      BY DEF RoutingInv
    <2>1. Accounted(d) /\ OnWireOnce(d) /\ Accounted(c)
      BY DEF RoutingInv
    <2>2. /\ UNCHANGED <<heldCalls, callsInFlight, toServer, fromServer>> /\ outcome[c] = "unsent"
          /\ outcome'[c] = "denied" /\ (d # c => outcome'[d] = outcome[d])
      BY <1>5 DEF ClientBatchRefused, TypeOK, CallTypes
    <2>3. Accounted(d)'
      BY <2>1, <2>2 DEF Accounted
    <2>4. OnWireOnce(d)'
      BY <2>1, <2>2 DEF OnWireOnce, CallRequest, IsResultOf
    <2> QED BY <2>3, <2>4
  <1>6. ASSUME NEW r \in Rpcs, ClientRpc(r) PROVE RoutingInv'
    BY <1>6, CallsUntouched DEF ClientRpc, CallRequest
  <1>7. CASE ClientFrameThrows
    BY <1>7, CallsUntouched DEF ClientFrameThrows
  <1> QED BY <1>1, <1>2, <1>3, <1>4, <1>5, <1>6, <1>7 DEF FromClient

LEMMA RoutedFromServer == TypeOK /\ RoutingInv /\ FromServer => RoutingInv'
  <1> SUFFICES ASSUME TypeOK, RoutingInv, FromServer PROVE RoutingInv'
    OBVIOUS
  <1>0. WireTypes
    BY DEF TypeOK
  <1>1. CASE OnProxyListResponse
    <2>1. Receives("proxy")
      BY <1>1 DEF OnProxyListResponse
    <2>2. CASE UNCHANGED callVars /\ UNCHANGED toServer
      BY <1>0, <2>1, <2>2, OtherFrameTaken
    <2>3. CASE /\ UNCHANGED callVars
               /\ toServer' = toServer \cup
                    {[to |-> "proxy", id |-> proxyIdCounter + 1, page |-> Frame.page + 1]}
      <3>1. \A c \in Calls : CallRequest(c) \in toServer' => CallRequest(c) \in toServer
        BY <2>3 DEF CallRequest
      <3> QED BY <1>0, <2>1, <2>3, <3>1, OtherFrameTaken
    <2>4. CASE FailRevalidation /\ UNCHANGED toServer
      <3> SUFFICES ASSUME NEW c \in Calls PROVE Accounted(c)' /\ OnWireOnce(c)'
        BY DEF RoutingInv
      <3>1. Accounted(c) /\ OnWireOnce(c)
        BY DEF RoutingInv
      <3>2. /\ heldCalls' = {} /\ UNCHANGED callsInFlight
            /\ outcome'[c] = IF c \in heldCalls THEN "denied" ELSE outcome[c]
        BY <2>4 DEF FailRevalidation, AbandonRound
      <3>3. Accounted(c)'
        BY <3>1, <3>2 DEF Accounted
      <3>4. OnWireOnce(c)'
        <4>1. \A i \in DOMAIN fromServer' :
                /\ i \in Nat /\ i + 1 \in DOMAIN fromServer
                /\ fromServer'[i] = fromServer[i + 1]
          BY <1>0, <2>1, PipeRead
        <4> QED BY <2>4, <3>1, <3>2, <4>1 DEF OnWireOnce, CallRequest, IsResultOf
      <3> QED BY <3>3, <3>4
    <2> QED BY <1>1, <2>2, <2>3, <2>4 DEF OnProxyListResponse
  <1>2. CASE OnUnknownResponse
    BY <1>0, <1>2, OtherFrameTaken DEF OnUnknownResponse
  <1>3. CASE OnInitializeResponse
    BY <1>0, <1>3, OtherFrameTaken DEF OnInitializeResponse
  <1>4. CASE OnClientListError
    BY <1>0, <1>4, OtherFrameTaken DEF OnClientListError
  <1>5. CASE OnClientListPage
    BY <1>0, <1>5, OtherFrameTaken DEF OnClientListPage
  <1>6. CASE OnClientListThrows
    BY <1>0, <1>6, OtherFrameTaken DEF OnClientListThrows
  <1>7. CASE OnCallResult
    <2> DEFINE c == Frame.id
    <2>1. c \in Calls /\ Frame.to = "call" /\ Frame = fromServer[1] /\ 1 \in DOMAIN fromServer
      <3>1. Frame \in Frames /\ Frame.to = "call"
        BY <1>0, <1>7, FrameType DEF OnCallResult
      <3> QED BY <1>0, <1>7, <3>1, PipeRead DEF OnCallResult, Frames
    <2>2. Accounted(c) /\ OnWireOnce(c)
      BY <2>1 DEF RoutingInv
    <2>3. c \in callsInFlight /\ CallRequest(c) \notin toServer
          /\ \A j \in DOMAIN fromServer : IsResultOf(fromServer[j], c) => j = 1
      BY <2>1, <2>2 DEF OnWireOnce, IsResultOf
    <2>4. /\ callsInFlight' = callsInFlight \ {c} /\ UNCHANGED <<heldCalls, toServer>>
          /\ \A d \in Calls : d # c => outcome'[d] = outcome[d]
          /\ outcome'[c] # "pending"
      <3>1. outcome' = [outcome EXCEPT ![c] = IF Withholds(Frame.taint) THEN "withheld" ELSE "result"]
        BY <1>7 DEF OnCallResult
      <3>2. outcome \in [Calls -> Outcomes]
        BY DEF TypeOK, CallTypes
      <3> HIDE DEF c
      <3> QED BY <1>7, <2>1, <3>1, <3>2 DEF OnCallResult, c
    <2>5. \A i \in DOMAIN fromServer' :
             /\ i \in Nat /\ i + 1 \in DOMAIN fromServer /\ i + 1 # 1
             /\ fromServer'[i] = fromServer[i + 1]
      BY <1>0, <1>7, PipeRead DEF OnCallResult
    <2> HIDE DEF c
    <2> SUFFICES ASSUME NEW d \in Calls PROVE Accounted(d)' /\ OnWireOnce(d)'
      BY DEF RoutingInv
    <2>6. Accounted(d) /\ OnWireOnce(d)
      BY DEF RoutingInv
    <2>7. Accounted(d)'
      BY <2>2, <2>3, <2>4, <2>6 DEF Accounted
    <2>8. OnWireOnce(d)'
      BY <2>3, <2>4, <2>5, <2>6 DEF OnWireOnce, CallRequest, IsResultOf
    <2> QED BY <2>7, <2>8
  <1>8. CASE OnRpcResult
    BY <1>0, <1>8, OtherFrameTaken DEF OnRpcResult
  <1>9. CASE OnListChanged
    BY <1>0, <1>9, OtherFrameTaken, RoundSendsNoCall DEF OnListChanged
  <1> QED BY <1>1, <1>2, <1>3, <1>4, <1>5, <1>6, <1>7, <1>8, <1>9 DEF FromServer

LEMMA RoutedEnvironment == TypeOK /\ RoutingInv /\ Environment => RoutingInv'
  <1> SUFFICES ASSUME TypeOK, RoutingInv, Environment PROVE RoutingInv'
    OBVIOUS
  <1>0. WireTypes
    BY DEF TypeOK
  <1>1. ASSUME NEW request \in toServer, ServerAnswers(request) PROVE RoutingInv'
    <2>1. PICK frame \in AnswersTo(request) : fromServer' = Append(fromServer, frame)
      BY <1>1 DEF ServerAnswers
    <2>2. /\ toServer' = toServer \ {request} /\ UNCHANGED callVars
      BY <1>1 DEF ServerAnswers
    <2> SUFFICES ASSUME NEW c \in Calls PROVE Accounted(c)' /\ OnWireOnce(c)'
      BY DEF RoutingInv
    <2>3. Accounted(c) /\ OnWireOnce(c)
      BY DEF RoutingInv
    <2>4. Accounted(c)'
      BY <2>2, <2>3 DEF Accounted
    <2>5. IsResultOf(frame, c) => request = CallRequest(c)
      <3>1. request \in Requests
        BY <1>0 DEF WireTypes
      <3>2. request.to = "call" => request = [to |-> "call", id |-> request.id]
        BY <3>1 DEF Requests
      <3> QED BY <2>1, <3>1, <3>2 DEF AnswersTo, IsResultOf, CallRequest, Requests
    <2>6. \A i \in DOMAIN fromServer' :
              \/ i \in DOMAIN fromServer /\ fromServer'[i] = fromServer[i]
              \/ /\ i = Len(fromServer) + 1 /\ i \notin DOMAIN fromServer
                 /\ fromServer'[i] = frame
      BY <1>0, <2>1, PipeWritten
    <2>7. OnWireOnce(c)'
      BY <2>2, <2>3, <2>5, <2>6 DEF OnWireOnce, IsResultOf, CallRequest
    <2> QED BY <2>4, <2>7
  <1>2. CASE ServerChangesManifest
    <2>1. \A i \in DOMAIN fromServer' :
              \/ i \in DOMAIN fromServer /\ fromServer'[i] = fromServer[i]
              \/ fromServer'[i].to = "changed"
      BY <1>0, <1>2, PipeWritten DEF ServerChangesManifest
    <2> SUFFICES ASSUME NEW c \in Calls PROVE Accounted(c)' /\ OnWireOnce(c)'
      BY DEF RoutingInv
    <2>2. Accounted(c) /\ OnWireOnce(c)
      BY DEF RoutingInv
    <2>3. Accounted(c)'
      BY <1>2, <2>2 DEF ServerChangesManifest, Accounted
    <2>4. OnWireOnce(c)'
      BY <1>2, <2>1, <2>2 DEF ServerChangesManifest, OnWireOnce, IsResultOf, CallRequest
    <2> QED BY <2>3, <2>4
  <1>3. CASE StoreRewritten
    BY <1>3, CallsUntouched DEF StoreRewritten
  <1>4. CASE SessionEnds
    BY <1>4, CallsUntouched DEF SessionEnds
  <1> QED BY <1>1, <1>2, <1>3, <1>4 DEF Environment

\* Flushing the held calls sends each one either to the server or back.
LEMMA RoutedFinishVerify ==
    ASSUME RoutingInv, NEW readable \in BOOLEAN, FinishVerify(readable)
    PROVE  RoutingInv'
  <1>1. PICK routed \in SUBSET heldCalls :
           /\ heldCalls' = {} /\ callsInFlight' = callsInFlight \cup routed
           /\ toServer' = toServer \cup {[to |-> "call", id |-> c] : c \in routed}
           /\ outcome' = [c \in Calls |-> IF c \in heldCalls \ routed THEN "denied" ELSE outcome[c]]
           /\ UNCHANGED fromServer
    <2> DEFINE hold   == StoreHold(readable)
               status == [t \in DOMAIN toolStatus |->
                            [verdict |-> toolStatus[t].verdict, drifted |-> t \in Drifted(readable)]]
               R      == {c \in heldCalls : Allows(status, hold, serverVerdict, ToolOf[c])}
    <2>1. /\ heldCalls' = {} /\ callsInFlight' = callsInFlight \cup R
          /\ toServer' = toServer \cup {[to |-> "call", id |-> c] : c \in R}
          /\ outcome' = [c \in Calls |-> IF c \in heldCalls \ R THEN "denied" ELSE outcome[c]]
          /\ UNCHANGED fromServer
      BY DEF FinishVerify
    <2>2. R \in SUBSET heldCalls
      OBVIOUS
    <2> HIDE DEF R
    <2> QED BY <2>1, <2>2
  <1> SUFFICES ASSUME NEW c \in Calls PROVE Accounted(c)' /\ OnWireOnce(c)'
    BY DEF RoutingInv
  <1>2. Accounted(c) /\ OnWireOnce(c)
    BY DEF RoutingInv
  <1>3. outcome'[c] = IF c \in heldCalls \ routed THEN "denied" ELSE outcome[c]
    BY <1>1
  <1>4. Accounted(c)'
    BY <1>1, <1>2, <1>3 DEF Accounted
  <1>5. CallRequest(c) \in toServer' => CallRequest(c) \in toServer \/ c \in routed
    BY <1>1 DEF CallRequest
  <1>6. c \in routed => \A i \in DOMAIN fromServer : ~IsResultOf(fromServer[i], c)
    BY <1>2 DEF Accounted, OnWireOnce
  <1>7. OnWireOnce(c)'
    BY <1>1, <1>2, <1>5, <1>6 DEF OnWireOnce, IsResultOf, CallRequest
  <1> QED BY <1>4, <1>7

\* Each call the host made is held, or with the server, or answered: never two
\* of these, whichever of the last page, an error and the timer ends a round.
THEOREM CallsRoutedOnce == Spec => []CallsAreRoutedOnce
  <1>1. Init => RoutingInv
    BY DEF Init, RoutingInv, Accounted, OnWireOnce
  <1>2. TypeOK /\ RoutingInv /\ [Next]_vars => RoutingInv'
    <2> SUFFICES ASSUME TypeOK, RoutingInv, [Next]_vars PROVE RoutingInv'
      OBVIOUS
    <2>1. CASE RevalidationTimesOut
      BY <2>1, HeldAreDenied DEF RevalidationTimesOut
    <2>2. CASE UNCHANGED vars
      BY <2>2, CallsUntouched DEF vars
    <2> QED BY <2>1, <2>2, RoutedFromClient, RoutedFromServer, RoutedEnvironment,
               RoutedFinishVerify DEF Next
  <1>3. TypeOK /\ RoutingInv => CallsAreRoutedOnce
    <2> SUFFICES ASSUME TypeOK, RoutingInv PROVE CallsAreRoutedOnce
      OBVIOUS
    <2>1. heldCalls \subseteq Calls /\ callsInFlight \subseteq Calls
      BY DEF TypeOK, CallTypes
    <2> QED BY <2>1 DEF CallsAreRoutedOnce, RoutingInv, Accounted, OnWireOnce, CallRequest, IsResultOf
  <1> QED BY <1>1, <1>2, <1>3, TypeCorrect, PTL DEF Spec
----------------------------------------------------------------------------
(* A round walks the pages of one list, in order.                          *)

\* A request or frame of the gate's own list: its id has been given out, and
\* the one the gate waits for is about the page that comes next.
OwnListMessage(m, ids, counter, accum) ==
    m.to = "proxy" =>
       /\ m.id <= counter
       /\ m.id \in ids => m.page = Len(accum) + 1
\* One request at a time is outstanding, and none once the round is over.
WalkInv ==
    /\ RoundIsOneWalk
    /\ proxyListIds \subseteq {proxyIdCounter}
    /\ ~revalidating \/ busy = "proxy" => proxyListIds = {}
    /\ \A request \in toServer :
          OwnListMessage(request, proxyListIds, proxyIdCounter, proxyListAccum)
    /\ \A i \in DOMAIN fromServer :
          OwnListMessage(fromServer[i], proxyListIds, proxyIdCounter, proxyListAccum)

\* Neither the round nor its messages are touched.
LEMMA WalkUntouched ==
    ASSUME WalkInv, UNCHANGED <<revalidating, proxyListIds, proxyListAccum, proxyIdCounter>>,
           busy' = "proxy" => busy = "proxy",
           \A request \in toServer' : request \in toServer \/ request.to # "proxy",
           \A i \in DOMAIN fromServer' :
              \/ \E j \in DOMAIN fromServer : fromServer'[i] = fromServer[j]
              \/ fromServer'[i].to # "proxy"
    PROVE  WalkInv'
  <1>1. RoundIsOneWalk'
    BY DEF WalkInv, RoundIsOneWalk
  <1>2. /\ (proxyListIds \subseteq {proxyIdCounter})'
        /\ (~revalidating \/ busy = "proxy" => proxyListIds = {})'
    BY DEF WalkInv
  <1>3. \A m : OwnListMessage(m, proxyListIds, proxyIdCounter, proxyListAccum)
                 => OwnListMessage(m, proxyListIds', proxyIdCounter', proxyListAccum')
    BY DEF OwnListMessage
  <1>4. \A m : m.to # "proxy" => OwnListMessage(m, proxyListIds', proxyIdCounter', proxyListAccum')
    BY DEF OwnListMessage
  <1>5. \A request \in toServer' : OwnListMessage(request, proxyListIds', proxyIdCounter', proxyListAccum')
    BY <1>3, <1>4 DEF WalkInv
  <1>6. \A i \in DOMAIN fromServer' :
          OwnListMessage(fromServer'[i], proxyListIds', proxyIdCounter', proxyListAccum')
    BY <1>3, <1>4 DEF WalkInv
  <1> QED BY <1>1, <1>2, <1>5, <1>6 DEF WalkInv

\* A round is over: nothing is awaited any more.
LEMMA WalkEnds ==
    ASSUME WalkInv, proxyListIds' = {}, RoundIsOneWalk', UNCHANGED proxyIdCounter,
           toServer' \subseteq toServer,
           \A i \in DOMAIN fromServer' : \E j \in DOMAIN fromServer : fromServer'[i] = fromServer[j]
    PROVE  WalkInv'
  <1>1. \A m : OwnListMessage(m, proxyListIds, proxyIdCounter, proxyListAccum)
                 => OwnListMessage(m, proxyListIds', proxyIdCounter', proxyListAccum')
    BY DEF OwnListMessage
  <1>2. \A request \in toServer' : OwnListMessage(request, proxyListIds', proxyIdCounter', proxyListAccum')
    BY <1>1 DEF WalkInv
  <1>3. \A i \in DOMAIN fromServer' :
          OwnListMessage(fromServer'[i], proxyListIds', proxyIdCounter', proxyListAccum')
    BY <1>1 DEF WalkInv
  <1> QED BY <1>2, <1>3 DEF WalkInv

\* A new request: its id is new, so no message of the wire is awaited but it.
LEMMA WalkAsks ==
    ASSUME WalkInv, TypeOK, RoundIsOneWalk', NEW page,
           page = Len(proxyListAccum') + 1, revalidating', busy' # "proxy",
           proxyIdCounter' = proxyIdCounter + 1,
           proxyListIds' = {proxyIdCounter + 1},
           toServer' = toServer \cup {[to |-> "proxy", id |-> proxyIdCounter + 1, page |-> page]},
           \A i \in DOMAIN fromServer' : \E j \in DOMAIN fromServer : fromServer'[i] = fromServer[j]
    PROVE  WalkInv'
  <1>0. proxyIdCounter \in Nat /\ toServer \subseteq Requests /\ fromServer \in Seq(Frames)
    BY DEF TypeOK, RoundTypes, WireTypes
  <1>1. \A m : m \in Requests \cup Frames /\ OwnListMessage(m, proxyListIds, proxyIdCounter, proxyListAccum)
                 => OwnListMessage(m, proxyListIds', proxyIdCounter', proxyListAccum')
    BY <1>0 DEF OwnListMessage, Requests, Frames
  <1>2. OwnListMessage([to |-> "proxy", id |-> proxyIdCounter + 1, page |-> page],
                       proxyListIds', proxyIdCounter', proxyListAccum')
    BY <1>0 DEF OwnListMessage
  <1>3. \A request \in toServer' : OwnListMessage(request, proxyListIds', proxyIdCounter', proxyListAccum')
    BY <1>0, <1>1, <1>2 DEF WalkInv
  <1>4. ASSUME NEW i \in DOMAIN fromServer'
        PROVE  OwnListMessage(fromServer'[i], proxyListIds', proxyIdCounter', proxyListAccum')
    <2>1. PICK j \in DOMAIN fromServer : fromServer'[i] = fromServer[j]
      OBVIOUS
    <2>2. fromServer[j] \in Frames
      BY <1>0
    <2>3. OwnListMessage(fromServer[j], proxyListIds, proxyIdCounter, proxyListAccum)
      BY DEF WalkInv
    <2> QED BY <1>1, <2>1, <2>2, <2>3
  <1> QED BY <1>3, <1>4 DEF WalkInv

\* _startRevalidation, with the pipe as it is or after its head was taken.
LEMMA WalkStarts ==
    ASSUME WalkInv, TypeOK, StartRevalidation, UNCHANGED busy, busy = "none",
           \A i \in DOMAIN fromServer' : \E j \in DOMAIN fromServer : fromServer'[i] = fromServer[j]
    PROVE  WalkInv'
  <1>1. CASE revalidating /\ UNCHANGED revalVars /\ UNCHANGED toServer
    BY <1>1, WalkUntouched
  <1>2. CASE ~revalidating /\ StartRound(TRUE)
    <2>1. proxyListIds = {}
      BY <1>2 DEF WalkInv
    <2>2. /\ revalidating' = TRUE /\ proxyListAccum' = << >>
          /\ proxyIdCounter' = proxyIdCounter + 1 /\ proxyListIds' = {proxyIdCounter + 1}
          /\ toServer' = toServer \cup {[to |-> "proxy", id |-> proxyIdCounter + 1, page |-> 1]}
      BY <1>2, <2>1 DEF StartRound
    <2>3. RoundIsOneWalk' /\ 1 = Len(proxyListAccum') + 1
      BY <2>2 DEF RoundIsOneWalk
    <2> QED BY <2>2, <2>3, WalkAsks
  <1> QED BY <1>1, <1>2 DEF StartRevalidation

LEMMA WalkFails ==
    ASSUME WalkInv, FailRevalidation, UNCHANGED toServer,
           \A i \in DOMAIN fromServer' : \E j \in DOMAIN fromServer : fromServer'[i] = fromServer[j]
    PROVE  WalkInv'
  <1>1. proxyListIds' = {} /\ proxyListAccum' = << >> /\ UNCHANGED proxyIdCounter
    BY DEF FailRevalidation, AbandonRound
  <1>2. RoundIsOneWalk'
    BY <1>1 DEF RoundIsOneWalk
  <1> QED BY <1>1, <1>2, WalkEnds

LEMMA WalkFromClient == TypeOK /\ WalkInv /\ FromClient => WalkInv'
  <1> SUFFICES ASSUME TypeOK, WalkInv, FromClient PROVE WalkInv'
    OBVIOUS
  <1>1. CASE ClientInitialize
    BY <1>1, WalkUntouched DEF ClientInitialize
  <1>2. ASSUME NEW page \in Pages, ClientList(page) PROVE WalkInv'
    BY <1>2, WalkUntouched DEF ClientList
  <1>3. ASSUME NEW c \in Calls, ClientCallHeld(c) PROVE WalkInv'
    BY <1>3, WalkStarts DEF ClientCallHeld, Running
  <1>4. ASSUME NEW c \in Calls, ClientCallDecided(c) PROVE WalkInv'
    <2>1. \A request \in toServer' : request \in toServer \/ request.to # "proxy"
      BY <1>4 DEF ClientCallDecided
    <2> QED BY <1>4, <2>1, WalkUntouched DEF ClientCallDecided
  <1>5. ASSUME NEW c \in Calls, ClientBatchRefused(c) PROVE WalkInv'
    BY <1>5, WalkUntouched DEF ClientBatchRefused
  <1>6. ASSUME NEW r \in Rpcs, ClientRpc(r) PROVE WalkInv'
    BY <1>6, WalkUntouched DEF ClientRpc
  <1>7. CASE ClientFrameThrows
    BY <1>7, WalkUntouched DEF ClientFrameThrows
  <1> QED BY <1>1, <1>2, <1>3, <1>4, <1>5, <1>6, <1>7 DEF FromClient

LEMMA WalkFromServer == TypeOK /\ WalkInv /\ FromServer => WalkInv'
  <1> SUFFICES ASSUME TypeOK, WalkInv, FromServer PROVE WalkInv'
    OBVIOUS
  <1>0. WireTypes
    BY DEF TypeOK
  <1>a. PICK kind : Receives(kind)
    BY DEF FromServer, OnProxyListResponse, OnUnknownResponse, OnInitializeResponse,
           OnClientListError, OnClientListPage, OnClientListThrows, OnCallResult,
           OnRpcResult, OnListChanged
  <1>b. \A i \in DOMAIN fromServer' : \E j \in DOMAIN fromServer : fromServer'[i] = fromServer[j]
    BY <1>0, <1>a, PipeRead
  <1>1. CASE OnProxyListResponse
    <2> DEFINE accum == Append(proxyListAccum, [epoch |-> Frame.epoch, page |-> Frame.page])
    <2>1. Running /\ busy = "none"
      BY <1>1 DEF OnProxyListResponse, Receives, Running
    <2>2. Frame = fromServer[1] /\ 1 \in DOMAIN fromServer /\ Frame.to = "proxy"
      BY <1>0, <1>1, PipeRead DEF OnProxyListResponse
    <2>3. Frame.id \in proxyListIds /\ proxyListIds = {Frame.id} /\ revalidating
          /\ Frame.page = Len(proxyListAccum) + 1
      <3>1. OwnListMessage(Frame, proxyListIds, proxyIdCounter, proxyListAccum)
        BY <2>2 DEF WalkInv
      <3>2. Frame.id \in proxyListIds
        BY <1>1 DEF OnProxyListResponse
      <3> QED BY <2>2, <3>1, <3>2 DEF WalkInv, OwnListMessage, TypeOK, RoundTypes
    <2>4. /\ accum \in Seq(PageRefs) /\ Len(accum) = Len(proxyListAccum) + 1
          /\ \A i \in DOMAIN accum : accum[i].page = i
      <3>1. proxyListAccum \in Seq(PageRefs)
        BY DEF TypeOK, PageTypes
      <3>2. [epoch |-> Frame.epoch, page |-> Frame.page] \in PageRefs
        BY <1>0, <1>1, FramePage DEF OnProxyListResponse
      <3>3. \A i \in DOMAIN proxyListAccum : proxyListAccum[i].page = i
        BY DEF WalkInv, RoundIsOneWalk
      <3> QED BY <2>3, <3>1, <3>2, <3>3
    <2> HIDE DEF accum
    <2>5. CASE FailRevalidation /\ UNCHANGED toServer
      BY <1>b, <2>5, WalkFails
    <2>6. CASE /\ proxyListAccum' = accum
               /\ proxyIdCounter' = proxyIdCounter + 1
               /\ proxyListIds' = (proxyListIds \ {Frame.id}) \cup {proxyIdCounter + 1}
               /\ toServer' = toServer \cup
                    {[to |-> "proxy", id |-> proxyIdCounter + 1, page |-> Frame.page + 1]}
               /\ UNCHANGED <<busy, revalidating, revalidateTimer>>
      <3>1. proxyListIds' = {proxyIdCounter + 1}
        BY <2>3, <2>6
      <3>2. RoundIsOneWalk' /\ Frame.page + 1 = Len(proxyListAccum') + 1
        BY <2>3, <2>4, <2>6 DEF RoundIsOneWalk
      <3> QED BY <1>b, <2>1, <2>3, <2>6, <3>1, <3>2, WalkAsks
    <2>7. CASE /\ proxyListAccum' = accum
               /\ proxyListIds' = proxyListIds \ {Frame.id}
               /\ UNCHANGED <<revalidating, proxyIdCounter, toServer>>
      <3>1. proxyListIds' = {}
        BY <2>3, <2>7
      <3>2. RoundIsOneWalk'
        BY <2>4, <2>7 DEF RoundIsOneWalk
      <3> QED BY <1>b, <2>7, <3>1, <3>2, WalkEnds
    <2> QED BY <1>1, <2>5, <2>6, <2>7 DEF OnProxyListResponse, accum
  <1>2. CASE OnUnknownResponse
    BY <1>b, <1>2, WalkUntouched DEF OnUnknownResponse
  <1>3. CASE OnInitializeResponse
    BY <1>b, <1>3, WalkUntouched DEF OnInitializeResponse
  <1>4. CASE OnClientListError
    BY <1>b, <1>4, WalkUntouched DEF OnClientListError
  <1>5. CASE OnClientListPage
    <2>1. UNCHANGED revalVars /\ UNCHANGED toServer /\ (busy' = "client" \/ UNCHANGED busy)
      BY <1>5 DEF OnClientListPage, BeginVerify
    <2> QED BY <1>b, <2>1, WalkUntouched
  <1>6. CASE OnClientListThrows
    BY <1>b, <1>6, WalkUntouched DEF OnClientListThrows
  <1>7. CASE OnCallResult
    BY <1>b, <1>7, WalkUntouched DEF OnCallResult
  <1>8. CASE OnRpcResult
    BY <1>b, <1>8, WalkUntouched DEF OnRpcResult
  <1>9. CASE OnListChanged
    BY <1>b, <1>9, WalkStarts DEF OnListChanged, Receives, Running
  <1> QED BY <1>1, <1>2, <1>3, <1>4, <1>5, <1>6, <1>7, <1>8, <1>9 DEF FromServer

LEMMA WalkEnvironment == TypeOK /\ WalkInv /\ Environment => WalkInv'
  <1> SUFFICES ASSUME TypeOK, WalkInv, Environment PROVE WalkInv'
    OBVIOUS
  <1>0. WireTypes
    BY DEF TypeOK
  <1>1. ASSUME NEW request \in toServer, ServerAnswers(request) PROVE WalkInv'
    <2>1. PICK frame \in AnswersTo(request) : fromServer' = Append(fromServer, frame)
      BY <1>1 DEF ServerAnswers
    <2>2. /\ toServer' = toServer \ {request} /\ UNCHANGED revalVars /\ UNCHANGED busy
      BY <1>1 DEF ServerAnswers
    <2>3. OwnListMessage(frame, proxyListIds, proxyIdCounter, proxyListAccum)
      <3>1. request \in Requests
        BY <1>0 DEF WireTypes
      <3>2. OwnListMessage(request, proxyListIds, proxyIdCounter, proxyListAccum)
        BY DEF WalkInv
      <3>3. frame.to = "proxy" => request.to = "proxy" /\ frame.id = request.id /\ frame.page = request.page
        BY <2>1, <3>1 DEF AnswersTo, Requests
      <3> QED BY <3>2, <3>3 DEF OwnListMessage
    <2>4. \A i \in DOMAIN fromServer' :
             OwnListMessage(fromServer'[i], proxyListIds, proxyIdCounter, proxyListAccum)
      BY <1>0, <2>1, <2>3, PipeWritten DEF WalkInv
    <2> QED BY <2>2, <2>4 DEF WalkInv, RoundIsOneWalk
  <1>2. CASE ServerChangesManifest
    <2>1. \A i \in DOMAIN fromServer' :
              \/ \E j \in DOMAIN fromServer : fromServer'[i] = fromServer[j]
              \/ fromServer'[i].to # "proxy"
      BY <1>0, <1>2, PipeWritten DEF ServerChangesManifest
    <2> QED BY <1>2, <2>1, WalkUntouched DEF ServerChangesManifest
  <1>3. CASE StoreRewritten
    BY <1>3, WalkUntouched DEF StoreRewritten
  <1>4. CASE SessionEnds
    BY <1>4, WalkUntouched DEF SessionEnds
  <1> QED BY <1>1, <1>2, <1>3, <1>4 DEF Environment

LEMMA WalkHolds == Spec => []WalkInv
  <1>1. Init => WalkInv
    BY DEF Init, WalkInv, RoundIsOneWalk
  <1>2. TypeOK /\ WalkInv /\ [Next]_vars => WalkInv'
    <2> SUFFICES ASSUME TypeOK, WalkInv, [Next]_vars PROVE WalkInv'
      OBVIOUS
    <2>1. CASE RevalidationTimesOut
      BY <2>1, WalkFails DEF RevalidationTimesOut
    <2>2. ASSUME NEW readable \in BOOLEAN, FinishVerify(readable) PROVE WalkInv'
      <3>1. /\ UNCHANGED <<proxyListIds, proxyListAccum, proxyIdCounter, fromServer>>
            /\ busy' = "none"
            /\ \/ busy = "proxy" /\ revalidating' = FALSE
               \/ busy = "client" /\ UNCHANGED revalidating
            /\ \E routed : toServer' = toServer \cup {[to |-> "call", id |-> c] : c \in routed}
        BY <2>2 DEF FinishVerify
      <3>2. \A request \in toServer' :
               OwnListMessage(request, proxyListIds, proxyIdCounter, proxyListAccum)
        BY <3>1 DEF WalkInv, OwnListMessage
      <3> QED BY <3>1, <3>2 DEF WalkInv, RoundIsOneWalk
    <2>3. CASE UNCHANGED vars
      BY <2>3, WalkUntouched DEF vars
    <2> QED BY <2>1, <2>2, <2>3, WalkFromClient, WalkFromServer, WalkEnvironment DEF Next
  <1> QED BY <1>1, <1>2, TypeCorrect, PTL DEF Spec

\* The pages that a re-verification audits are pages 1, 2, ... of one list: the
\* late answer of an abandoned round never joins a later one (the guard on
\* proxyListIds, mcp-proxy.js:265).
THEOREM RoundsAreWalks == Spec => []RoundIsOneWalk
  <1>1. WalkInv => RoundIsOneWalk
    BY DEF WalkInv
  <1> QED BY <1>1, WalkHolds, PTL

----------------------------------------------------------------------------
(* What the decisions rest on.                                             *)

\* The approval a tool's last listing has to match.
Matches(record, t) ==
    /\ record.pinned
    /\ t \in DOMAIN record.tools
    /\ record.tools[t] = Listed(basis, Max(PagesOf(basis, t)))[t]
\* A tool's status is the audit of its listings in the pages it rests on.
StatusIsOfBasis ==
    /\ DOMAIN toolStatus = Names(basis)
    /\ \A t \in Names(basis) : toolStatus[t].verdict = AuditTools(basis)[t].verdict
\* Once a manifest is verified under an expected pin, a tool that is not
\* drifted is the one approved.
DriftIsJudged ==
    busy = "none" /\ Recheck /\ baselineExpected /\ ~pinHold =>
        \A t \in DOMAIN toolStatus : ~toolStatus[t].drifted => Matches(approval, t)
VettingInv == StatusIsOfBasis /\ DriftIsJudged

\* What _decision has found of a tool it lets through.
LEMMA AllowedIsListed ==
    ASSUME NEW status, NEW hold, NEW sv, NEW t, Allows(status, hold, sv, t),
           DOMAIN status = Names(basis),
           \A u \in Names(basis) : status[u].verdict = AuditTools(basis)[u].verdict
    PROVE  /\ PagesOf(basis, t) # {}
           /\ \A i \in PagesOf(basis, t) : AuditVerdict[Listed(basis, i)[t]] # "block"
           /\ Policy # "permissive" => ~hold /\ ~status[t].drifted
  <1>1. t \in Names(basis) /\ status[t].verdict # "block"
    BY DEF Allows, WorstOf
  <1>2. Policy # "permissive" => ~hold /\ ~status[t].drifted
    BY DEF Allows
  <1>3. PagesOf(basis, t) # {}
    BY <1>1 DEF Names
  <1>4. AuditTools(basis)[t].verdict
           = WorstOf({AuditVerdict[Listed(basis, i)[t]] : i \in PagesOf(basis, t)})
    BY <1>1 DEF AuditTools
  <1>5. "block" \notin {AuditVerdict[Listed(basis, i)[t]] : i \in PagesOf(basis, t)}
    BY <1>1, <1>4 DEF WorstOf
  <1> QED BY <1>2, <1>3, <1>5

\* A step that leaves the verdicts alone.
LEMMA VettingUntouched ==
    ASSUME VettingInv, UNCHANGED <<toolStatus, basis, busy, pinHold, baselineExpected, approval>>
    PROVE  VettingInv'
  <1>1. StatusIsOfBasis'
    BY DEF VettingInv, StatusIsOfBasis
  <1>2. \A t : Matches(approval, t) => Matches(approval, t)'
    BY DEF Matches, PagesOf, Listed
  <1>3. DriftIsJudged'
    BY <1>2 DEF VettingInv, DriftIsJudged
  <1> QED BY <1>1, <1>3 DEF VettingInv

\* _finishVerify up to its await.
LEMMA VettingBegins ==
    ASSUME NEW accum, NEW handler \in {"proxy", "client"}, BeginVerify(accum, handler)
    PROVE  VettingInv'
  <1>1. toolStatus' = AuditTools(accum) /\ basis' = accum /\ busy' = handler
    BY DEF BeginVerify
  <1>2. DOMAIN AuditTools(accum) = Names(accum)
    BY DEF AuditTools
  <1>3. StatusIsOfBasis'
    BY <1>1, <1>2 DEF StatusIsOfBasis, Names, PagesOf, Listed, AuditTools
  <1>4. DriftIsJudged'
    BY <1>1 DEF DriftIsJudged
  <1> QED BY <1>3, <1>4 DEF VettingInv

\* The store step: under an enforced pin it leaves undrifted only what the
\* record it compared with, or has just written, holds.
LEMMA VettingFinishes ==
    ASSUME VettingInv, NEW readable \in BOOLEAN, FinishVerify(readable)
    PROVE  VettingInv'
  <1> DEFINE status == [t \in DOMAIN toolStatus |->
                          [verdict |-> toolStatus[t].verdict, drifted |-> t \in Drifted(readable)]]
             wanted == ManifestFingerprints(basis)
  <1>1. /\ pinHold' = StoreHold(readable) /\ toolStatus' = status /\ UNCHANGED basis
        /\ baselineExpected' = (baselineExpected \/ (PinsNow /\ readable)
                                   \/ (RechecksNow /\ readable /\ baseline.pinned))
        /\ baseline' = IF PinsNow /\ readable THEN Approval(wanted) ELSE baseline
        /\ approval' = IF readable THEN baseline' ELSE approval
    BY DEF FinishVerify
  <1>2. DOMAIN toolStatus = Names(basis)
    BY DEF VettingInv, StatusIsOfBasis
  <1>3. StatusIsOfBasis'
    <2>1. \A t \in Names(basis) : status[t].verdict = toolStatus[t].verdict
      BY <1>2
    <2> QED BY <1>1, <1>2, <2>1 DEF VettingInv, StatusIsOfBasis
  <1>4. DriftIsJudged'
    <2> SUFFICES ASSUME Recheck, baselineExpected', ~pinHold',
                        NEW t \in DOMAIN status, ~status[t].drifted
                 PROVE  Matches(approval, t)'
      BY <1>1 DEF DriftIsJudged
    <2>1. t \in Names(basis) /\ t \notin Drifted(readable)
      BY <1>2
    <2>2. /\ wanted.tools = [u \in Names(basis) |-> Listed(basis, Max(PagesOf(basis, u)))[u]]
          /\ t \in DOMAIN wanted.tools
          /\ wanted.tools[t] = Listed(basis, Max(PagesOf(basis, t)))[t]
      BY <2>1 DEF ManifestFingerprints
    <2>3. PinsNow \/ RechecksNow
      BY DEF RechecksNow
    <2>4. readable
      BY <1>1, <2>3 DEF StoreHold
    <2> HIDE DEF wanted
    <2>5. approval'.pinned /\ t \in DOMAIN approval'.tools /\ approval'.tools[t] = wanted.tools[t]
      <3>1. CASE PinsNow
        <4>1. approval' = Approval(wanted)
          BY <1>1, <2>4, <3>1
        <4> QED BY <2>2, <4>1 DEF Approval
      <3>2. CASE RechecksNow
        <4>1. approval' = baseline
          BY <1>1, <2>4, <3>2 DEF RechecksNow
        <4>2. baseline.pinned
          BY <1>1, <2>4, <3>2 DEF StoreHold, RechecksNow
        <4>3. t \notin AddedOrChanged(baseline.tools, wanted.tools)
          BY <2>1, <2>4, <3>2, <4>2 DEF Drifted, wanted
        <4> QED BY <2>2, <4>1, <4>2, <4>3 DEF AddedOrChanged
      <3> QED BY <2>3, <3>1, <3>2
    <2> QED BY <1>1, <2>2, <2>5 DEF Matches, PagesOf, Listed
  <1> QED BY <1>3, <1>4 DEF VettingInv

LEMMA VettingStep == VettingInv /\ [Next]_vars => VettingInv'
  <1> SUFFICES ASSUME VettingInv, [Next]_vars PROVE VettingInv'
    OBVIOUS
  <1>1. ASSUME FromClient PROVE VettingInv'
    <2>1. UNCHANGED <<toolStatus, basis, busy, pinHold, baselineExpected, approval>>
      <3>1. CASE ClientInitialize
        BY <3>1 DEF ClientInitialize
      <3>2. ASSUME NEW page \in Pages, ClientList(page)
            PROVE  UNCHANGED <<verdictVars, busy, pinVars>>
        BY <3>2 DEF ClientList
      <3>3. ASSUME NEW c \in Calls,
                   ClientCallHeld(c) \/ ClientCallDecided(c) \/ ClientBatchRefused(c)
            PROVE  UNCHANGED <<verdictVars, busy, pinVars>>
        BY <3>3 DEF ClientCallHeld, ClientCallDecided, ClientBatchRefused
      <3>4. ASSUME NEW r \in Rpcs, ClientRpc(r) PROVE UNCHANGED <<verdictVars, busy, pinVars>>
        BY <3>4 DEF ClientRpc
      <3>5. CASE ClientFrameThrows
        BY <3>5 DEF ClientFrameThrows
      <3> QED BY <1>1, <3>1, <3>2, <3>3, <3>4, <3>5 DEF FromClient
    <2> QED BY <2>1, VettingUntouched
  <1>2. ASSUME FromServer PROVE VettingInv'
    <2>1. CASE OnProxyListResponse
      <3>1. UNCHANGED <<busy, pinVars>> /\ UNCHANGED verdictVars => VettingInv'
        BY VettingUntouched
      <3> QED BY <2>1, <3>1, VettingBegins DEF OnProxyListResponse
    <2>2. CASE OnClientListPage
      <3>1. UNCHANGED <<busy, pinVars>> /\ UNCHANGED verdictVars => VettingInv'
        BY VettingUntouched
      <3> QED BY <2>2, <3>1, VettingBegins DEF OnClientListPage
    <2>3. CASE OnUnknownResponse \/ OnInitializeResponse \/ OnClientListError
                 \/ OnClientListThrows \/ OnCallResult \/ OnRpcResult \/ OnListChanged
      BY <2>3, VettingUntouched
         DEF OnUnknownResponse, OnInitializeResponse, OnClientListError, OnClientListThrows,
             OnCallResult, OnRpcResult, OnListChanged
    <2> QED BY <1>2, <2>1, <2>2, <2>3 DEF FromServer
  <1>3. ASSUME Environment PROVE VettingInv'
    BY <1>3, VettingUntouched
       DEF Environment, ServerAnswers, ServerChangesManifest, StoreRewritten, SessionEnds
  <1>4. CASE RevalidationTimesOut
    BY <1>4, VettingUntouched DEF RevalidationTimesOut
  <1>5. CASE UNCHANGED vars
    BY <1>5, VettingUntouched DEF vars
  <1> QED BY <1>1, <1>2, <1>3, <1>4, <1>5, VettingFinishes DEF Next

\* The two actions that forward a call forward a vetted one.
LEMMA DecidedIsVetted ==
    ASSUME TypeOK, VettingInv, NEW c \in Calls, ClientCallDecided(c), c \in callsInFlight' \ callsInFlight
    PROVE  Vetted(c)
  <1> DEFINE t == ToolOf[c]
  <1>1. Allows(toolStatus, pinHold, serverVerdict, t)
    BY DEF ClientCallDecided
  <1>2. UNCHANGED <<basis, approval, baselineExpected>> /\ busy = "none"
    BY DEF ClientCallDecided, Running
  <1>3. t \in DOMAIN toolStatus
    BY <1>1 DEF Allows
  <1> HIDE DEF t
  <1>4. /\ PagesOf(basis, t) # {}
        /\ \A i \in PagesOf(basis, t) : AuditVerdict[Listed(basis, i)[t]] # "block"
        /\ Policy # "permissive" => ~pinHold /\ ~toolStatus[t].drifted
    BY <1>1, AllowedIsListed DEF VettingInv, StatusIsOfBasis
  <1>5. Recheck /\ Policy # "permissive" /\ baselineExpected => Matches(approval, t)
    BY <1>2, <1>3, <1>4 DEF VettingInv, DriftIsJudged
  <1> QED BY <1>2, <1>4, <1>5 DEF Vetted, Matches, PagesOf, Listed, t

LEMMA FlushedIsVetted ==
    ASSUME TypeOK, VettingInv, NEW readable \in BOOLEAN, FinishVerify(readable),
           NEW c \in callsInFlight' \ callsInFlight
    PROVE  Vetted(c)
  <1> DEFINE t == ToolOf[c]
             status == [u \in DOMAIN toolStatus |->
                          [verdict |-> toolStatus[u].verdict, drifted |-> u \in Drifted(readable)]]
  <1>1. /\ toolStatus' = status /\ pinHold' = StoreHold(readable)
        /\ UNCHANGED <<basis, serverVerdict>> /\ busy' = "none"
        /\ Allows(status, StoreHold(readable), serverVerdict, t)
    BY DEF FinishVerify
  <1> HIDE DEF t, status
  <1>2. VettingInv'
    BY VettingFinishes
  <1>3. Allows(toolStatus', pinHold', serverVerdict, t) /\ t \in DOMAIN toolStatus'
    BY <1>1 DEF Allows
  <1>4. /\ DOMAIN toolStatus' = Names(basis)
        /\ \A u \in Names(basis) : toolStatus'[u].verdict = AuditTools(basis)[u].verdict
    BY <1>1, <1>2 DEF VettingInv, StatusIsOfBasis
  <1>5. /\ PagesOf(basis, t) # {}
        /\ \A i \in PagesOf(basis, t) : AuditVerdict[Listed(basis, i)[t]] # "block"
        /\ Policy # "permissive" => ~pinHold' /\ ~toolStatus'[t].drifted
    BY <1>3, <1>4, AllowedIsListed
  <1>6. Recheck /\ Policy # "permissive" /\ baselineExpected' => Matches(approval, t)'
    BY <1>1, <1>2, <1>3, <1>5 DEF VettingInv, DriftIsJudged
  <1> QED BY <1>1, <1>5, <1>6 DEF Vetted, Matches, PagesOf, Listed, t

\* Forwarding a call, from the host or from the held ones, is a step that finds
\* no blocking text among the tool's listings and, when the policy enforces an
\* expected pin, the approved definition in its last listing.
THEOREM VettedBeforeForwarded == Spec => ForwardsOnlyVetted
  <1>1. Init => VettingInv
    BY DEF Init, VettingInv, StatusIsOfBasis, DriftIsJudged, Names, PagesOf
  <1>2. TypeOK /\ VettingInv /\ [Next]_vars
           => [\A c \in callsInFlight' \ callsInFlight : Vetted(c)]_vars
    <2> SUFFICES ASSUME TypeOK, VettingInv, Next, NEW c \in callsInFlight' \ callsInFlight
                 PROVE  Vetted(c)
      OBVIOUS
    <2>1. ASSUME FromClient PROVE Vetted(c)
      <3>1. ASSUME NEW d \in Calls, ClientCallDecided(d) PROVE Vetted(c)
        <4>1. c = d
          BY <3>1 DEF ClientCallDecided
        <4> QED BY <3>1, <4>1, DecidedIsVetted
      <3>2. ASSUME NEW d \in Calls, ClientCallHeld(d) \/ ClientBatchRefused(d)
            PROVE  UNCHANGED callsInFlight
        BY <3>2 DEF ClientCallHeld, ClientBatchRefused
      <3>3. ASSUME NEW page \in Pages, ClientList(page) PROVE UNCHANGED callsInFlight
        BY <3>3 DEF ClientList
      <3>4. ASSUME NEW r \in Rpcs, ClientRpc(r) PROVE UNCHANGED callsInFlight
        BY <3>4 DEF ClientRpc
      <3>5. ClientInitialize \/ ClientFrameThrows => UNCHANGED callsInFlight
        BY DEF ClientInitialize, ClientFrameThrows
      <3> QED BY <2>1, <3>1, <3>2, <3>3, <3>4, <3>5 DEF FromClient
    <2>2. FromServer => callsInFlight' \subseteq callsInFlight
      <3>1. OnProxyListResponse => callsInFlight' \subseteq callsInFlight
        BY DEF OnProxyListResponse, FailRevalidation, AbandonRound
      <3>2. OnCallResult => callsInFlight' \subseteq callsInFlight
        BY DEF OnCallResult
      <3>3. OnUnknownResponse \/ OnInitializeResponse \/ OnClientListError \/ OnClientListPage
               \/ OnClientListThrows \/ OnRpcResult \/ OnListChanged => UNCHANGED callsInFlight
        BY DEF OnUnknownResponse, OnInitializeResponse, OnClientListError, OnClientListPage,
               OnClientListThrows, OnRpcResult, OnListChanged
      <3> QED BY <3>1, <3>2, <3>3 DEF FromServer
    <2>3. Environment => UNCHANGED callsInFlight
      BY DEF Environment, ServerAnswers, ServerChangesManifest, StoreRewritten, SessionEnds
    <2>4. RevalidationTimesOut => UNCHANGED callsInFlight
      BY DEF RevalidationTimesOut, FailRevalidation, AbandonRound
    <2> QED BY <2>1, <2>2, <2>3, <2>4, FlushedIsVetted DEF Next
  <1> QED BY <1>1, <1>2, VettingStep, TypeCorrect, PTL DEF Spec, ForwardsOnlyVetted

----------------------------------------------------------------------------
(* How old the pages are that the verdicts rest on.                        *)

\* Every manifest fits one page.  Without it a round that spans a change mixes
\* the pages of two manifests, and the theorem fails.
OnePageManifests == \A e \in Epochs : Len(Served[e].pages) <= 1

\* A frame written while the manifest was at a known epoch.
Dated(frame) == frame.to \in {"client", "proxy", "changed"}
Within(frame, low, high) == Dated(frame) => low <= frame.epoch /\ frame.epoch <= high
\* The pipe keeps the order in which the server changed.
PipeInOrder ==
    /\ announced <= epoch
    /\ \A i \in DOMAIN fromServer : Within(fromServer[i], announced, epoch)
    /\ \A i, j \in DOMAIN fromServer :
          i < j /\ Dated(fromServer[i]) /\ Dated(fromServer[j])
             => fromServer[i].epoch <= fromServer[j].epoch
\* A pagination starts empty, so the manifest verified is the page just read.
StartsEmpty ==
    /\ proxyListIds # {} => proxyListAccum = << >>
    /\ busy # "client" => clientListAccum = << >>
BasisIsFresh == ~stale => \A i \in DOMAIN basis : basis[i].epoch >= announced
FreshInv == PipeInOrder /\ StartsEmpty /\ BasisIsFresh

LEMMA OnePageHasNoNext ==
    ASSUME OnePageManifests, NEW e \in Epochs, NEW p \in PageNumbers
    PROVE  ~HasNextCursor(e, p)
  BY GateAssumption DEF PageNumbers, OnePageManifests, HasNextCursor, Epochs

\* Taking a frame other than an announcement.
LEMMA OrderRead ==
    ASSUME TypeOK, PipeInOrder, NEW kind, Receives(kind), UNCHANGED <<announced, epoch>>
    PROVE  /\ PipeInOrder'
           /\ Within(Frame, announced, epoch)
  <1>1. \A i \in DOMAIN fromServer' :
           /\ i \in Nat /\ i + 1 \in DOMAIN fromServer /\ fromServer'[i] = fromServer[i + 1]
    BY PipeRead DEF TypeOK
  <1>2. Frame = fromServer[1] /\ 1 \in DOMAIN fromServer
    BY PipeRead DEF TypeOK
  <1>3. \A i, j \in DOMAIN fromServer' : i < j => i + 1 < j + 1
    BY <1>1
  <1>4. \A i, j \in DOMAIN fromServer' :
          i < j /\ Dated(fromServer'[i]) /\ Dated(fromServer'[j])
             => fromServer'[i].epoch <= fromServer'[j].epoch
    BY <1>1, <1>3 DEF PipeInOrder
  <1>5. \A i \in DOMAIN fromServer' : Within(fromServer'[i], announced, epoch)
    BY <1>1 DEF PipeInOrder
  <1> QED BY <1>2, <1>4, <1>5 DEF PipeInOrder

\* Taking an announcement: what follows it was written after it.
LEMMA OrderAnnounced ==
    ASSUME TypeOK, PipeInOrder, Receives("changed"), announced' = Frame.epoch, UNCHANGED epoch
    PROVE  PipeInOrder'
  <1>1. \A i \in DOMAIN fromServer' :
           /\ i \in Nat /\ i + 1 \in DOMAIN fromServer /\ fromServer'[i] = fromServer[i + 1]
           /\ 1 < i + 1
    <2>1. fromServer' \in Seq(Frames)
      BY FrameType DEF TypeOK
    <2> QED BY <2>1, PipeRead DEF TypeOK
  <1>2. Frame = fromServer[1] /\ 1 \in DOMAIN fromServer /\ Dated(Frame)
    BY PipeRead DEF TypeOK, Dated
  <1>3. \A i, j \in DOMAIN fromServer' :
          i < j /\ Dated(fromServer'[i]) /\ Dated(fromServer'[j])
             => fromServer'[i].epoch <= fromServer'[j].epoch
    <2>1. \A i, j \in DOMAIN fromServer' : i < j => i + 1 < j + 1
      BY <1>1
    <2> QED BY <1>1, <2>1 DEF PipeInOrder
  <1>4. \A i \in DOMAIN fromServer' : Within(fromServer'[i], announced', epoch)
    BY <1>1, <1>2 DEF PipeInOrder, Within
  <1>5. announced' <= epoch
    BY <1>2 DEF PipeInOrder, Within
  <1> QED BY <1>3, <1>4, <1>5 DEF PipeInOrder

\* What the server writes is dated with the current epoch, if at all.
LEMMA OrderWritten ==
    ASSUME TypeOK, PipeInOrder, NEW frame, fromServer' = Append(fromServer, frame), UNCHANGED announced,
           epoch' \in Nat, epoch <= epoch', Dated(frame) => frame.epoch = epoch'
    PROVE  PipeInOrder'
  <1>0. epoch \in Nat /\ announced \in Nat /\ fromServer \in Seq(Frames)
    BY DEF TypeOK, WireTypes, Epochs
  <1>1. \A i \in DOMAIN fromServer' :
           \/ i \in DOMAIN fromServer /\ fromServer'[i] = fromServer[i]
           \/ i = Len(fromServer) + 1 /\ i \notin DOMAIN fromServer /\ fromServer'[i] = frame
    BY PipeWritten DEF TypeOK
  <1>2. \A i \in DOMAIN fromServer : Dated(fromServer[i]) => fromServer[i].epoch \in Nat
    BY <1>0 DEF Dated, Frames, Epochs
  <1>3. announced <= epoch'
    BY <1>0 DEF PipeInOrder
  <1>4. \A i \in DOMAIN fromServer' : Within(fromServer'[i], announced, epoch')
    BY <1>0, <1>1, <1>2, <1>3 DEF PipeInOrder, Within
  <1>5. ASSUME NEW i \in DOMAIN fromServer', NEW j \in DOMAIN fromServer',
               i < j, Dated(fromServer'[i]), Dated(fromServer'[j])
        PROVE  fromServer'[i].epoch <= fromServer'[j].epoch
    <2>1. CASE j \in DOMAIN fromServer
      <3>1. i \in DOMAIN fromServer
        BY <1>0, <1>1, <1>5, <2>1
      <3> QED BY <1>1, <1>5, <2>1, <3>1 DEF PipeInOrder
    <2>2. CASE j = Len(fromServer) + 1
      <3>1. fromServer'[j] = frame /\ frame.epoch = epoch' /\ fromServer'[i].epoch <= epoch'
        BY <1>0, <1>1, <1>4, <1>5, <2>2 DEF Within
      <3> QED BY <3>1
    <2> QED BY <1>1, <2>1, <2>2
  <1> QED BY <1>3, <1>4, <1>5 DEF PipeInOrder

\* A step that changes neither what is verified nor which pages are collected.
LEMMA BasisUntouched ==
    ASSUME StartsEmpty, BasisIsFresh, UNCHANGED <<basis, announced, proxyListAccum, clientListAccum, busy>>,
           proxyListIds' \subseteq proxyListIds, ~stale' => ~stale
    PROVE  StartsEmpty' /\ BasisIsFresh'
  BY DEF StartsEmpty, BasisIsFresh

LEMMA BasisRoundStarts ==
    ASSUME StartsEmpty, StartRevalidation, UNCHANGED <<busy, clientListAccum>>
    PROVE  StartsEmpty'
  BY DEF StartsEmpty, StartRevalidation, StartRound

LEMMA BasisRoundFails ==
    ASSUME StartsEmpty, BasisIsFresh, FailRevalidation,
           UNCHANGED <<basis, announced, stale, clientListAccum, busy>>
    PROVE  StartsEmpty' /\ BasisIsFresh'
  BY DEF StartsEmpty, BasisIsFresh, FailRevalidation, AbandonRound

\* The manifest under verification is the page just read.
LEMMA BasisIsThePage ==
    ASSUME TypeOK, PipeInOrder, NEW kind \in {"client", "proxy"}, Receives(kind),
           NEW handler, UNCHANGED <<announced, epoch>>,
           BeginVerify(Append(<< >>, [epoch |-> Frame.epoch, page |-> Frame.page]), handler)
    PROVE  BasisIsFresh'
  <1>1. Frame.to = kind /\ Within(Frame, announced, epoch)
    BY OrderRead, FrameType DEF TypeOK
  <1>2. announced <= Frame.epoch
    BY <1>1 DEF Within, Dated
  <1>3. basis' = <<[epoch |-> Frame.epoch, page |-> Frame.page]>>
    BY DEF BeginVerify
  <1>4. Frame.epoch \in Nat /\ announced \in Nat
    BY FramePage, GateAssumption DEF TypeOK, WireTypes, PageRefs, Epochs
  <1> QED BY <1>2, <1>3, <1>4 DEF BasisIsFresh

LEMMA FreshFromClient == TypeOK /\ FreshInv /\ FromClient => FreshInv'
  <1> SUFFICES ASSUME TypeOK, FreshInv, FromClient PROVE FreshInv'
    OBVIOUS
  <1>0. PipeInOrder /\ StartsEmpty /\ BasisIsFresh
    BY DEF FreshInv
  <1>1. UNCHANGED <<fromServer, announced, epoch, basis, busy>>
    BY DEF FromClient, ClientInitialize, ClientList, ClientCallHeld, ClientCallDecided,
           ClientBatchRefused, ClientRpc, ClientFrameThrows
  <1>2. PipeInOrder'
    BY <1>0, <1>1 DEF PipeInOrder
  <1>3. CASE ClientInitialize
    <2>1. UNCHANGED <<listVars, revalVars>> /\ stale' = TRUE
      BY <1>3 DEF ClientInitialize
    <2> QED BY <1>0, <1>1, <1>2, <2>1, BasisUntouched DEF FreshInv
  <1>4. ASSUME NEW page \in Pages, ClientList(page) PROVE FreshInv'
    <2>1. /\ UNCHANGED revalVars /\ UNCHANGED stale
          /\ clientListAccum' = << >> \/ UNCHANGED clientListAccum
      BY <1>4 DEF ClientList
    <2>2. StartsEmpty' /\ BasisIsFresh'
      BY <1>0, <1>1, <2>1 DEF StartsEmpty, BasisIsFresh
    <2> QED BY <1>2, <2>2 DEF FreshInv
  <1>5. ASSUME NEW c \in Calls, ClientCallHeld(c) PROVE FreshInv'
    <2>1. StartsEmpty'
      BY <1>0, <1>5, BasisRoundStarts DEF ClientCallHeld
    <2>2. BasisIsFresh'
      BY <1>0, <1>1, <1>5 DEF ClientCallHeld, BasisIsFresh
    <2> QED BY <1>2, <2>1, <2>2 DEF FreshInv
  <1>6. ASSUME NEW c \in Calls, ClientCallDecided(c) \/ ClientBatchRefused(c) PROVE FreshInv'
    <2>1. UNCHANGED <<listVars, revalVars>> /\ UNCHANGED stale
      BY <1>6 DEF ClientCallDecided, ClientBatchRefused
    <2> QED BY <1>0, <1>1, <1>2, <2>1, BasisUntouched DEF FreshInv
  <1>7. ASSUME NEW r \in Rpcs, ClientRpc(r) PROVE FreshInv'
    <2>1. UNCHANGED <<listVars, revalVars>> /\ UNCHANGED stale
      BY <1>7 DEF ClientRpc
    <2> QED BY <1>0, <1>1, <1>2, <2>1, BasisUntouched DEF FreshInv
  <1>8. CASE ClientFrameThrows
    <2>1. UNCHANGED listVars /\ UNCHANGED <<stale, proxyListIds, proxyListAccum>>
      BY <1>8 DEF ClientFrameThrows
    <2> QED BY <1>0, <1>1, <1>2, <2>1, BasisUntouched DEF FreshInv
  <1> QED BY <1>3, <1>4, <1>5, <1>6, <1>7, <1>8 DEF FromClient

LEMMA FreshFromServer ==
    ASSUME OnePageManifests, TypeOK, WalkInv, FreshInv, FromServer
    PROVE  FreshInv'
  <1>0. PipeInOrder /\ StartsEmpty /\ BasisIsFresh
    BY DEF FreshInv
  <1>a. ASSUME NEW kind \in {"client", "proxy"}, Receives(kind)
        PROVE  ~HasNextCursor(Frame.epoch, Frame.page)
    BY <1>a, OnePageHasNoNext, FramePage DEF TypeOK, PageRefs
  <1>1. CASE OnProxyListResponse
    <2>1. Receives("proxy") /\ UNCHANGED <<announced, epoch, clientListAccum>> /\ Frame.id \in proxyListIds
      BY <1>1 DEF OnProxyListResponse
    <2>2. PipeInOrder'
      BY <1>0, <2>1, OrderRead
    <2>3. proxyListAccum = << >> /\ clientListAccum = << >> /\ proxyListIds = {Frame.id}
      BY <1>0, <2>1 DEF StartsEmpty, Receives, Running, WalkInv
    <2> DEFINE accum == Append(proxyListAccum, [epoch |-> Frame.epoch, page |-> Frame.page])
    <2>4. CASE FailRevalidation /\ UNCHANGED busy /\ UNCHANGED verdictVars
      BY <1>0, <2>1, <2>2, <2>4, BasisRoundFails DEF FreshInv
    <2>5. CASE /\ proxyListIds' = proxyListIds \ {Frame.id}
               /\ BeginVerify(accum, "proxy")
      <3>1. BasisIsFresh'
        BY <1>0, <2>1, <2>3, <2>5, BasisIsThePage
      <3>2. StartsEmpty'
        BY <2>1, <2>3, <2>5 DEF StartsEmpty
      <3> QED BY <2>2, <3>1, <3>2 DEF FreshInv
    <2> QED BY <1>1, <1>a, <2>1, <2>4, <2>5 DEF OnProxyListResponse
  <1>2. CASE OnClientListPage
    <2>1. Receives("client") /\ UNCHANGED <<announced, epoch>> /\ UNCHANGED revalVars
      BY <1>2 DEF OnClientListPage
    <2>2. PipeInOrder'
      BY <1>0, <2>1, OrderRead
    <2>3. clientListAccum = << >>
      BY <1>0, <2>1 DEF StartsEmpty, Receives, Running
    <2>4. BeginVerify(Append(clientListAccum, [epoch |-> Frame.epoch, page |-> Frame.page]), "client")
      BY <1>2, <1>a, <2>1 DEF OnClientListPage
    <2>5. BasisIsFresh'
      BY <1>0, <2>1, <2>3, <2>4, BasisIsThePage
    <2>6. StartsEmpty'
      BY <1>0, <2>1, <2>4 DEF StartsEmpty, BeginVerify
    <2> QED BY <2>2, <2>5, <2>6 DEF FreshInv
  <1>3. CASE OnListChanged
    <2>1. /\ Receives("changed") /\ announced' = Frame.epoch /\ stale' = TRUE
          /\ UNCHANGED <<busy, epoch, clientListAccum>> /\ StartRevalidation
      BY <1>3 DEF OnListChanged
    <2>2. PipeInOrder'
      BY <1>0, <2>1, OrderAnnounced
    <2>3. StartsEmpty' /\ BasisIsFresh'
      BY <1>0, <2>1, BasisRoundStarts DEF BasisIsFresh
    <2> QED BY <2>2, <2>3 DEF FreshInv
  <1>4. CASE OnUnknownResponse \/ OnInitializeResponse \/ OnClientListError
               \/ OnClientListThrows \/ OnCallResult \/ OnRpcResult
    <2>1. UNCHANGED <<announced, epoch, basis, proxyListAccum, clientListAccum, busy, proxyListIds, stale>>
      BY <1>4 DEF OnUnknownResponse, OnInitializeResponse, OnClientListError, OnClientListThrows,
                  OnCallResult, OnRpcResult
    <2>2. PICK kind : Receives(kind)
      BY <1>4 DEF OnUnknownResponse, OnInitializeResponse, OnClientListError, OnClientListThrows,
                  OnCallResult, OnRpcResult
    <2>3. PipeInOrder'
      BY <1>0, <2>1, <2>2, OrderRead
    <2> QED BY <1>0, <2>1, <2>3, BasisUntouched DEF FreshInv
  <1> QED BY <1>1, <1>2, <1>3, <1>4 DEF FromServer

LEMMA FreshEnvironment == TypeOK /\ FreshInv /\ Environment => FreshInv'
  <1> SUFFICES ASSUME TypeOK, FreshInv, Environment PROVE FreshInv'
    OBVIOUS
  <1>0. PipeInOrder /\ StartsEmpty /\ BasisIsFresh /\ epoch \in Nat
    BY DEF FreshInv, TypeOK, WireTypes, Epochs
  <1>1. UNCHANGED <<announced, basis, proxyListAccum, clientListAccum, busy, proxyListIds, stale>>
    BY DEF Environment, ServerAnswers, ServerChangesManifest, StoreRewritten, SessionEnds
  <1>2. StartsEmpty' /\ BasisIsFresh'
    BY <1>0, <1>1, BasisUntouched
  <1>3. ASSUME NEW request \in toServer, ServerAnswers(request) PROVE PipeInOrder'
    <2>1. PICK frame \in AnswersTo(request) : fromServer' = Append(fromServer, frame)
      BY <1>3 DEF ServerAnswers
    <2>2. Dated(frame) => frame.epoch = epoch
      <3>1. request \in Requests
        BY DEF TypeOK, WireTypes
      <3> QED BY <2>1, <3>1 DEF AnswersTo, Requests, Dated
    <2>3. UNCHANGED epoch
      BY <1>3 DEF ServerAnswers
    <2> QED BY <1>0, <1>1, <2>1, <2>2, <2>3, OrderWritten
  <1>4. CASE ServerChangesManifest
    <2> DEFINE frame == [to |-> "changed", epoch |-> epoch + 1]
    <2>1. epoch' = epoch + 1 /\ fromServer' = Append(fromServer, frame)
      BY <1>4 DEF ServerChangesManifest
    <2>2. Dated(frame) => frame.epoch = epoch'
      BY <2>1
    <2> HIDE DEF frame
    <2>3. PipeInOrder'
      BY <1>0, <1>1, <2>1, <2>2, OrderWritten
    <2> QED BY <1>2, <2>3 DEF FreshInv
  <1>5. CASE StoreRewritten \/ SessionEnds
    BY <1>0, <1>2, <1>5 DEF StoreRewritten, SessionEnds, PipeInOrder, FreshInv
  <1> QED BY <1>2, <1>3, <1>4, <1>5 DEF Environment, FreshInv

\* While calls go through, the pages the verdicts rest on are no older than the
\* last tools/list_changed processed (mcp-proxy.js:32), when each manifest of
\* the server fits one page.  The run gate_stale_pages shows the hypothesis is
\* needed.
THEOREM VerdictsStayCurrent ==
    ASSUME OnePageManifests
    PROVE  Spec => []VerdictsAreCurrent
  <1>1. Init => FreshInv
    BY GateAssumption DEF Init, FreshInv, PipeInOrder, StartsEmpty, BasisIsFresh, Epochs
  <1>2. TypeOK /\ WalkInv /\ FreshInv /\ [Next]_vars => FreshInv'
    <2> SUFFICES ASSUME TypeOK, WalkInv, FreshInv, [Next]_vars PROVE FreshInv'
      OBVIOUS
    <2>0. PipeInOrder /\ StartsEmpty /\ BasisIsFresh
      BY DEF FreshInv
    <2>1. CASE RevalidationTimesOut
      <3>1. /\ FailRevalidation
            /\ UNCHANGED <<basis, announced, stale, clientListAccum, busy, fromServer, epoch>>
        BY <2>1 DEF RevalidationTimesOut
      <3>2. PipeInOrder'
        BY <2>0, <3>1 DEF PipeInOrder
      <3> QED BY <2>0, <3>1, <3>2, BasisRoundFails DEF FreshInv
    <2>2. ASSUME NEW readable \in BOOLEAN, FinishVerify(readable) PROVE FreshInv'
      <3>1. /\ busy # "none" /\ busy' = "none"
            /\ UNCHANGED <<basis, announced, stale, epoch, fromServer, proxyListIds, proxyListAccum>>
            /\ \/ busy = "proxy" /\ UNCHANGED clientListAccum
               \/ clientListAccum' = << >>
        BY <2>2 DEF FinishVerify
      <3> QED BY <2>0, <3>1 DEF FreshInv, PipeInOrder, StartsEmpty, BasisIsFresh
    <2>3. CASE UNCHANGED vars
      BY <2>0, <2>3 DEF vars, FreshInv, PipeInOrder, StartsEmpty, BasisIsFresh
    <2> QED BY <2>1, <2>2, <2>3, FreshFromClient, FreshFromServer, FreshEnvironment DEF Next
  <1>3. FreshInv => VerdictsAreCurrent
    BY DEF FreshInv, BasisIsFresh, VerdictsAreCurrent, MustHold
  <1> QED BY <1>1, <1>2, <1>3, TypeCorrect, WalkHolds, PTL DEF Spec
============================================================================
